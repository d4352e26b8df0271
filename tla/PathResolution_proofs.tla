------------------------ MODULE PathResolution_proofs ------------------------
(***************************************************************************)
(* What the lookup of the kernel and the resolution of iamroot return, for *)
(* every tree of files, every path and every limit of links.               *)
(***************************************************************************)
EXTENDS PathResolution, Lists_proofs, SequenceTheorems

(***************************************************************************)
(* A function that is called again on the next value until the value is    *)
(* final.  The set of the values that come after a given one is the least  *)
(* that has it and is closed.                                              *)
(***************************************************************************)
Later(S, step, l) ==
    {m \in S : \A T \in SUBSET S : l \in T /\ (\A x \in T : step[x] \in T) => m \in T}

UntilFinal(f, S, final, step) ==
    f = [l \in S |-> IF l \in final THEN l ELSE f[step[l]]]

\* Going back from the final values by steps leads to all of them.
Terminates(S, final, step) ==
    \A T \in SUBSET S :
        final \subseteq T /\ (\A l \in S : step[l] \in T => l \in T) => S \subseteq T

LEMMA LaterSteps ==
    ASSUME NEW S, NEW step \in [S -> S], NEW l \in S
    PROVE  Later(S, step, l) = {l} \cup Later(S, step, step[l])
<1> DEFINE A == Later(S, step, l)
           B == Later(S, step, step[l])
<1>1. step[l] \in S
  OBVIOUS
<1>2. B \subseteq A
  BY DEF Later
<1>3. l \in A
  BY DEF Later
<1>4. {l} \cup B \in SUBSET S
  BY DEF Later
<1>5. step[l] \in B
  BY <1>1 DEF Later
<1>6. ASSUME NEW x \in B PROVE step[x] \in B
  BY DEF Later
<1>7. A \subseteq {l} \cup B
  <2> HIDE DEF B
  <2>1. ASSUME NEW m \in A PROVE m \in {l} \cup B
    BY <1>4, <1>5, <1>6 DEF Later
  <2> QED BY <2>1
<1> QED BY <1>2, <1>3, <1>7

LEMMA Iteration ==
    ASSUME NEW S, NEW final \in SUBSET S, NEW step \in [S -> S]
    PROVE  \E f : UntilFinal(f, S, final, step)
<1> DEFINE next == [l \in S |-> IF l \in final THEN l ELSE step[l]]
           End(l) == CHOOSE e : e \in Later(S, next, l) \cap final
           f == [l \in S |-> End(l)]
<1>1. next \in [S -> S]
  OBVIOUS
<1>2. ASSUME NEW l \in final PROVE End(l) = l
  <2>1. Later(S, next, l) = {l}
    <3>1. next[l] = l /\ {l} \in SUBSET S
      OBVIOUS
    <3> HIDE DEF next
    <3> QED BY <3>1 DEF Later
  <2> HIDE DEF next
  <2>2. Later(S, next, l) \cap final = {l}
    BY <2>1
  <2> QED BY <2>2
<1>3. ASSUME NEW l \in S, l \notin final PROVE End(l) = End(step[l])
  <2>1. next[l] = step[l]
    BY <1>3
  <2> HIDE DEF next
  <2>2. Later(S, next, l) = {l} \cup Later(S, next, step[l])
    BY <1>1, <2>1, LaterSteps
  <2>3. Later(S, next, l) \cap final = Later(S, next, step[l]) \cap final
    BY <1>3, <2>2
  <2> QED BY <2>3
<1> HIDE DEF End
<1>4. f = [l \in S |-> IF l \in final THEN l ELSE f[step[l]]]
  <2>1. ASSUME NEW l \in S PROVE f[l] = IF l \in final THEN l ELSE f[step[l]]
    BY <1>2, <1>3
  <2> QED BY <2>1
<1> QED BY <1>4 DEF UntilFinal

(***************************************************************************)
(* What each step keeps is true of the end.                                *)
(***************************************************************************)
LEMMA IterationKeeps ==
    ASSUME NEW S, NEW final \in SUBSET S, NEW step \in [S -> S],
           Terminates(S, final, step),
           NEW f, UntilFinal(f, S, final, step),
           NEW I \in SUBSET S, \A l \in I : l \notin final => step[l] \in I
    PROVE  \A l \in I : f[l] \in I /\ f[l] \in final
<1> DEFINE T == {l \in S : l \in I => f[l] \in I /\ f[l] \in final}
<1>1. T \in SUBSET S /\ final \subseteq T
  BY DEF UntilFinal
<1>2. ASSUME NEW l \in S, step[l] \in T PROVE l \in T
  BY <1>2 DEF UntilFinal
<1> HIDE DEF T
<1>3. S \subseteq T
  BY <1>1, <1>2 DEF Terminates
<1> QED BY <1>3 DEF T

-----------------------------------------------------------------------------
\* The names that files have are parts, and no others are but "", "." and "..".
LEMMA PartsAre ==
    /\ FileNames \subseteq Parts
    /\ "" \in Parts /\ Dot \in Parts /\ DotDot \in Parts
    /\ \A part \in Parts : part \notin {"", Dot, DotDot} => part \in FileNames
    /\ \A name \in FileNames : name # "" /\ name # Dot /\ name # DotDot
  BY DEF FileNames, Parts

LEMMA PathnamesAre ==
    /\ Slash \in Pathnames
    /\ \A path : path \in Pathnames <=> path \in Seq(Parts) /\ path # <<>> /\ path # Empty
    /\ \A path \in Seq(Parts) : Len(path) >= 2 => path \in Pathnames
<1>1. \A path : path \in Pathnames <=> path \in Seq(Parts) /\ path # <<>> /\ path # Empty
  BY DEF Pathnames
<1>2. Len(<<>>) = 0 /\ Len(Empty) = 1 /\ Len(Slash) = 2
  BY DEF Empty, Slash
<1>3. ASSUME NEW path \in Seq(Parts), Len(path) >= 2
      PROVE  path \in Pathnames
  <2>1. Len(path) # 0 /\ Len(path) # 1
    <3>1. Len(path) \in Nat
      BY LenProperties
    <3>2. \A n \in Nat : n >= 2 => n # 0 /\ n # 1
      OBVIOUS
    <3> QED BY <1>3, <3>1, <3>2
  <2>2. path # <<>>
    BY <1>2, <2>1
  <2>3. path # Empty
    BY <1>2, <2>1
  <2> QED BY <1>1, <2>2, <2>3
<1>4. Slash \in Seq(Parts)
  <2>1. "" \in Parts
    BY PartsAre
  <2>2. \A S : \A x \in S : <<x, x>> \in Seq(S)
    OBVIOUS
  <2> QED BY <2>1, <2>2 DEF Slash
<1> QED BY <1>1, <1>2, <1>3, <1>4

LEMMA ParentIs ==
    \A loc \in Seq(FileNames) : Parent(loc) \in Seq(FileNames)
<1> SUFFICES ASSUME NEW loc \in Seq(FileNames) PROVE Parent(loc) \in Seq(FileNames)
  OBVIOUS
<1>1. <<>> \in Seq(FileNames) /\ Len(loc) \in Nat /\ 1 \in Int /\ Len(loc) - 1 \in Int
  OBVIOUS
<1>2. \A i \in 1..(Len(loc) - 1) : loc[i] \in FileNames
  OBVIOUS
<1>3. SubSeq(loc, 1, Len(loc) - 1) \in Seq(FileNames)
  BY <1>1, <1>2, SubSeqProperties
<1> QED BY <1>1, <1>3 DEF Parent

LEMMA ParentOfChild ==
    \A loc \in Seq(FileNames), name \in FileNames : Parent(Append(loc, name)) = loc
<1> SUFFICES ASSUME NEW loc \in Seq(FileNames), NEW name \in FileNames
             PROVE  Parent(Append(loc, name)) = loc
  OBVIOUS
<1> DEFINE next == Append(loc, name)
<1>1. /\ next \in Seq(FileNames) /\ next # <<>> /\ Len(next) = Len(loc) + 1
      /\ Len(loc) \in Nat /\ \A i \in 1..Len(loc) : next[i] = loc[i]
  BY AppendProperties
<1> HIDE DEF next
<1>2. Parent(next) = SubSeq(next, 1, Len(loc))
  BY <1>1 DEF Parent
<1> DEFINE s == SubSeq(next, 1, Len(loc))
<1>3. s \in Seq(FileNames) /\ Len(s) = Len(loc) /\ \A i \in 1..Len(loc) : s[i] = loc[i]
  <2>1. \A i \in 1..Len(loc) : next[i] \in FileNames
    BY <1>1
  <2>2. 1 \in Int /\ Len(loc) \in Int
    BY <1>1
  <2> QED BY <1>1, <2>1, <2>2, SubSeqProperties
<1> HIDE DEF s
<1>4. s = loc
  BY <1>3, SeqEqual
<1> QED BY <1>2, <1>4 DEF next, s

(***************************************************************************)
(* One step of a lookup: it fails, or has one part less to walk, or has    *)
(* followed a link.                                                        *)
(***************************************************************************)
Final == {l \in Lookups : l.err # "" \/ l.todo = <<>>}

LEMMA LookupStepIs ==
    ASSUME NEW fs, IsTree(fs), NEW root \in Seq(FileNames), NEW follow,
           NEW l \in Lookups, l \notin Final
    PROVE  LET m == LookupStep(fs, root, follow, l)
           IN  /\ m \in Lookups
               /\ \/ m.err # ""
                  \/ m.links = l.links /\ Len(m.todo) = Len(l.todo) - 1
                  \/ m.links = l.links + 1
<1> DEFINE part == Head(l.todo)
           rest == Tail(l.todo)
           next == Append(l.at, part)
           m == LookupStep(fs, root, follow, l)
<1>1. /\ l = [at |-> l.at, todo |-> l.todo, links |-> l.links,
              clamped |-> l.clamped, err |-> l.err]
      /\ l.at \in Seq(FileNames) /\ l.todo \in Seq(Parts) /\ l.links \in 0..SYMLOOP_MAX
      /\ l.clamped \in BOOLEAN /\ l.err \in Errors /\ l.todo # <<>> /\ l.err = ""
  BY DEF Lookups, Final
<1>2. part \in Parts /\ rest \in Seq(Parts) /\ Len(rest) = Len(l.todo) - 1
  BY <1>1, HeadTailProperties
<1>3. Parent(l.at) \in Seq(FileNames)
  BY <1>1, ParentIs
<1>4. part \notin {"", Dot, DotDot} => next \in Seq(FileNames)
  BY <1>1, <1>2, PartsAre, AppendProperties
<1>5. IsLink(fs, next) => fs[next].target \in Seq(Parts)
  BY DEF IsLink, Exists, IsTree, Inodes, Pathnames
<1> HIDE DEF part, rest, next
<1>6. ASSUME NEW e \in Errors, m = [l EXCEPT !.err = e], e # ""
      PROVE  m \in Lookups /\ m.err # ""
  <2> HIDE DEF m
  <2> QED BY <1>1, <1>6 DEF Lookups
<1>7. ASSUME NEW a \in Seq(FileNames), NEW c \in BOOLEAN,
             m = [l EXCEPT !.todo = rest, !.at = a, !.clamped = c]
      PROVE  m \in Lookups /\ m.links = l.links /\ Len(m.todo) = Len(l.todo) - 1
  <2> HIDE DEF m
  <2> QED BY <1>1, <1>2, <1>7 DEF Lookups
<1>8. ASSUME NEW a \in Seq(FileNames), NEW todo \in Seq(Parts), l.links # SYMLOOP_MAX,
             m = [l EXCEPT !.links = @ + 1, !.at = a, !.todo = todo]
      PROVE  m \in Lookups /\ m.links = l.links + 1
  <2>1. l.links + 1 \in 0..SYMLOOP_MAX
    <3>1. l.links \in 0..SYMLOOP_MAX /\ l.links # SYMLOOP_MAX
      BY <1>1, <1>8
    <3> HIDE DEF m
    <3> QED BY <3>1, KernelAssumption
  <2> HIDE DEF m
  <2> QED BY <1>1, <1>8, <2>1 DEF Lookups
<1>9. CASE ~IsDir(fs, l.at)
  <2>1. \E e \in Errors : m = [l EXCEPT !.err = e] /\ e # ""
    BY <1>9 DEF LookupStep, Errors
  <2> QED BY <1>6, <2>1
<1>10. CASE IsDir(fs, l.at)
  <2>0. Exists(fs, l.at)
    BY <1>10 DEF IsDir
  <2>1. CASE part \in {"", Dot}
    <3>1. m = [l EXCEPT !.todo = rest]
      BY <1>10, <2>0, <2>1 DEF LookupStep, part, rest
    <3>2. m = [l EXCEPT !.todo = rest, !.at = l.at, !.clamped = l.clamped]
      BY <1>1, <3>1
    <3> QED BY <1>1, <1>7, <3>2
  <2>2. CASE part = DotDot
    <3>1. \E a \in Seq(FileNames), c \in BOOLEAN :
             m = [l EXCEPT !.todo = rest, !.at = a, !.clamped = c]
      <4> DEFINE a == IF l.at = root THEN root ELSE Parent(l.at)
                 c == l.clamped \/ (l.at = root /\ root # <<>>)
      <4>1. a \in Seq(FileNames) /\ c \in BOOLEAN
        BY <1>1, <1>3
      <4>2. part \notin {"", Dot}
        BY <2>2 DEF Dot, DotDot
      <4>3. m = [l EXCEPT !.todo = rest, !.at = a, !.clamped = c]
        BY <1>1, <1>10, <2>0, <2>2, <4>2 DEF LookupStep, part, rest
      <4> QED BY <4>1, <4>3
    <3> QED BY <1>7, <3>1
  <2>3. CASE part \notin {"", Dot, DotDot} /\ IsLink(fs, next) /\ (follow \/ rest # <<>>)
    <3>1. CASE l.links = SYMLOOP_MAX
      <4>1. \E e \in Errors : m = [l EXCEPT !.err = e] /\ e # ""
        BY <1>10, <2>0, <2>3, <3>1 DEF LookupStep, Errors, part, rest, next
      <4> QED BY <1>6, <4>1
    <3>2. CASE l.links # SYMLOOP_MAX
      <4> DEFINE target == fs[next].target
                 a == IF IsAbsolute(target) THEN root ELSE l.at
      <4>1. a \in Seq(FileNames) /\ target \o rest \in Seq(Parts)
        BY <1>1, <1>2, <1>5, <2>3, ConcatProperties
      <4>2. m = [l EXCEPT !.links = @ + 1, !.at = a, !.todo = target \o rest]
        BY <1>1, <1>10, <2>0, <2>3, <3>2 DEF LookupStep, part, rest, next
      <4> HIDE DEF a, target
      <4> QED BY <1>8, <3>2, <4>1, <4>2
    <3> QED BY <3>1, <3>2
  <2>4. CASE part \notin {"", Dot, DotDot} /\ ~(IsLink(fs, next) /\ (follow \/ rest # <<>>))
    <3>1. \/ \E e \in Errors : m = [l EXCEPT !.err = e] /\ e # ""
          \/ m = [l EXCEPT !.at = next, !.todo = rest]
      BY <1>10, <2>0, <2>4 DEF LookupStep, Errors, part, rest, next
    <3>2. CASE m = [l EXCEPT !.at = next, !.todo = rest]
      <4>1. m = [l EXCEPT !.todo = rest, !.at = next, !.clamped = l.clamped]
        BY <1>1, <3>2
      <4> QED BY <1>1, <1>4, <1>7, <2>4, <4>1
    <3> QED BY <1>6, <3>1, <3>2
  <2> QED BY <2>1, <2>2, <2>3, <2>4
<1> QED BY <1>9, <1>10

\* Each link followed is counted, and each other step has one part less left.
Stepped(fs, root, follow) ==
    [l \in Lookups |-> IF l \in Final THEN l ELSE LookupStep(fs, root, follow, l)]

LEMMA LookupTerminates ==
    ASSUME NEW fs, IsTree(fs), NEW root \in Seq(FileNames), NEW follow
    PROVE  /\ Stepped(fs, root, follow) \in [Lookups -> Lookups]
           /\ Terminates(Lookups, Final, Stepped(fs, root, follow))
<1> DEFINE step == Stepped(fs, root, follow)
           Shorter(l, m) == m.links = l.links /\ Len(m.todo) = Len(l.todo) - 1
<1>1. ASSUME NEW l \in Lookups, l \notin Final
      PROVE  step[l] \in Lookups /\ (step[l] \in Final \/ Shorter(l, step[l])
                                      \/ step[l].links = l.links + 1)
  <2>1. step[l] = LookupStep(fs, root, follow, l)
    BY <1>1 DEF Stepped
  <2>2. \A f, r, g, m : IsTree(f) /\ r \in Seq(FileNames) /\ m \in Lookups /\ m \notin Final
           => LET n == LookupStep(f, r, g, m)
              IN  n \in Lookups /\ (n.err # "" \/ Shorter(m, n) \/ n.links = m.links + 1)
    BY LookupStepIs, ZenonT(30)
  <2> HIDE DEF Shorter, step
  <2>3. LET n == LookupStep(fs, root, follow, l)
        IN  n \in Lookups /\ (n.err # "" \/ Shorter(l, n) \/ n.links = l.links + 1)
    BY <1>1, <2>2, ZenonT(30)
  <2> QED BY <2>1, <2>3 DEF Final
<1>2. step \in [Lookups -> Lookups]
  <2>1. step = [l \in Lookups |-> step[l]] /\ \A l \in Final : step[l] = l
    BY DEF Stepped, Final
  <2> HIDE DEF step
  <2>2. \A l \in Lookups : step[l] \in Lookups
    BY <1>1, <2>1
  <2> QED BY <2>1, <2>2
<1> HIDE DEF step
<1>3. ASSUME NEW T \in SUBSET Lookups, Final \subseteq T,
             \A l \in Lookups : step[l] \in T => l \in T
      PROVE  Lookups \subseteq T
  <2> DEFINE Left(l) == SYMLOOP_MAX - l.links
             D == {d \in Nat : \A l \in Lookups : Left(l) < d => l \in T}
  <2>0. \A l \in Lookups : /\ l.links \in Nat /\ Left(l) \in Nat /\ Len(l.todo) \in Nat
                             /\ \A n \in Nat : n = l.links + 1 => SYMLOOP_MAX - n = Left(l) - 1
    BY KernelAssumption DEF Lookups
  <2>1. 0 \in D
    BY <2>0
  <2>2. ASSUME NEW d \in Nat, d \in D PROVE d + 1 \in D
    <3> DEFINE K == {k \in Nat : \A l \in Lookups : Left(l) = d /\ Len(l.todo) < k => l \in T}
    <3>1. 0 \in K
      BY <2>0
    <3>2. ASSUME NEW k \in Nat, k \in K PROVE k + 1 \in K
      <4> SUFFICES ASSUME NEW l \in Lookups, Left(l) = d, Len(l.todo) < k + 1, l \notin Final
                   PROVE  step[l] \in T
        BY <1>3
      <4>1. CASE step[l] \in Final
        BY <1>3, <4>1
      <4>2. CASE Shorter(l, step[l])
        <5>1. step[l] \in Lookups /\ Left(step[l]) = d /\ Len(step[l].todo) < k
          BY <1>1, <2>0, <4>2
        <5> QED BY <3>2, <5>1
      <4>3. CASE step[l].links = l.links + 1
        <5>1. step[l] \in Lookups /\ Left(step[l]) < d
          BY <1>1, <2>0, <4>3
        <5> QED BY <2>2, <5>1
      <4> QED BY <1>1, <4>1, <4>2, <4>3
    <3> HIDE DEF K
    <3>3. Nat \subseteq K
      BY <3>1, <3>2, Induction
    <3>4. ASSUME NEW l \in Lookups, Left(l) < d + 1 PROVE l \in T
      <4>1. CASE Left(l) < d
        BY <2>2, <4>1
      <4>2. CASE Left(l) = d
        <5>1. Len(l.todo) + 1 \in K /\ Len(l.todo) < Len(l.todo) + 1
          BY <2>0, <3>3
        <5> QED BY <4>2, <5>1 DEF K
      <4> QED BY <2>0, <3>4, <4>1, <4>2
    <3> QED BY <3>4
  <2> HIDE DEF D
  <2>3. Nat \subseteq D
    BY <2>1, <2>2, Induction
  <2>4. ASSUME NEW l \in Lookups PROVE l \in T
    <3>1. Left(l) + 1 \in D /\ Left(l) < Left(l) + 1
      BY <2>0, <2>3
    <3> QED BY <3>1 DEF D
  <2> QED BY <2>4
<1>4. Terminates(Lookups, Final, step)
  BY <1>3 DEF Terminates
<1> QED BY <1>2, <1>4 DEF step

(***************************************************************************)
(* Lookup() goes on until it ends, and what its steps keep is true of its  *)
(* result.                                                                 *)
(***************************************************************************)
LEMMA LookupKeeps ==
    ASSUME NEW fs, IsTree(fs), NEW root \in Seq(FileNames), NEW cwd, NEW path, NEW follow,
           NEW I \in SUBSET Lookups, LookupStart(root, cwd, path) \in I,
           \A l \in I : l \notin Final => LookupStep(fs, root, follow, l) \in I
    PROVE  Lookup(fs, root, cwd, path, follow) \in I \cap Final
<1> DEFINE step == Stepped(fs, root, follow)
           F(f) == [l \in Lookups |->
                       IF l.err # "" \/ l.todo = <<>> THEN l ELSE f[LookupStep(fs, root, follow, l)]]
           walk == CHOOSE f : f = F(f)
<1>1. step \in [Lookups -> Lookups] /\ Terminates(Lookups, Final, step)
  BY LookupTerminates
<1>2. \A l \in Lookups : l \notin Final => step[l] = LookupStep(fs, root, follow, l)
  BY DEF Stepped
<1>3. \A l \in Lookups : l \in Final <=> l.err # "" \/ l.todo = <<>>
  BY DEF Final
<1>4. Final \in SUBSET Lookups
  BY DEF Final
<1> HIDE DEF step
<1>5. \E f : UntilFinal(f, Lookups, Final, step)
  BY <1>1, <1>4, Iteration
<1>6. ASSUME NEW f PROVE UntilFinal(f, Lookups, Final, step) <=> f = F(f)
  <2> DEFINE G == [l \in Lookups |-> IF l \in Final THEN l ELSE f[step[l]]]
  <2>1. \A l \in Lookups : G[l] = F(f)[l]
    BY <1>2, <1>3
  <2>2. G = F(f)
    BY <2>1
  <2> QED BY <2>2 DEF UntilFinal
<1> HIDE DEF F
<1>7. walk = F(walk)
  BY <1>5, <1>6
<1>8. UntilFinal(walk, Lookups, Final, step)
  BY <1>6, <1>7
<1>9. \A l \in I : l \notin Final => step[l] \in I
  BY <1>2
<1>10. Lookup(fs, root, cwd, path, follow) = walk[LookupStart(root, cwd, path)]
  BY DEF Lookup, F
<1> HIDE DEF walk
<1>11. \A l \in I : walk[l] \in I /\ walk[l] \in Final
  BY <1>1, <1>4, <1>8, <1>9, IterationKeeps
<1> QED BY <1>10, <1>11

LEMMA LookupTyped ==
    ASSUME NEW fs, IsTree(fs), NEW root \in Seq(FileNames), NEW cwd \in Seq(FileNames),
           NEW path \in Seq(Parts), NEW follow
    PROVE  /\ LookupStart(root, cwd, path) \in Lookups
           /\ Lookup(fs, root, cwd, path, follow) \in Final
<1>1. LookupStart(root, cwd, path) \in Lookups
  <2> DEFINE at == IF IsAbsolute(path) THEN root ELSE cwd
             err == IF path = Empty THEN "ENOENT" ELSE ""
  <2>1. at \in Seq(FileNames) /\ err \in Errors /\ 0 \in 0..SYMLOOP_MAX
    BY KernelAssumption DEF Errors
  <2>2. LookupStart(root, cwd, path) = [at |-> at, todo |-> path, links |-> 0,
                                        clamped |-> FALSE, err |-> err]
    BY DEF LookupStart
  <2> HIDE DEF at, err
  <2> QED BY <2>1, <2>2 DEF Lookups
<1>2. \A l \in Lookups : l \notin Final => LookupStep(fs, root, follow, l) \in Lookups
  BY LookupStepIs
<1>3. Lookup(fs, root, cwd, path, follow) \in Lookups \cap Final
  BY <1>1, <1>2, LookupKeeps
<1> QED BY <1>1, <1>3

(***************************************************************************)
(* What a lookup finds exists, or the directory it would be in does.       *)
(***************************************************************************)
Placed(fs, l) == l.err = "" /\ l.todo = <<>> => Exists(fs, l.at) \/ IsDir(fs, Parent(l.at))

LEMMA StepPlaced ==
    ASSUME NEW fs, IsTree(fs), NEW follow, NEW l \in Lookups, l \notin Final
    PROVE  Placed(fs, LookupStep(fs, <<>>, follow, l))
<1> DEFINE part == Head(l.todo)
           rest == Tail(l.todo)
           next == Append(l.at, part)
           m == LookupStep(fs, <<>>, follow, l)
<1> SUFFICES Placed(fs, m)
  OBVIOUS
<1>1. /\ l = [at |-> l.at, todo |-> l.todo, links |-> l.links,
              clamped |-> l.clamped, err |-> l.err]
      /\ l.at \in Seq(FileNames) /\ l.todo \in Seq(Parts) /\ l.todo # <<>>
  BY DEF Lookups, Final
<1>2. part \in Parts /\ rest \in Seq(Parts)
  BY <1>1, HeadTailProperties
<1> HIDE DEF part, rest, next
<1>3. CASE ~IsDir(fs, l.at)
  <2>1. \E e \in {"ENOENT", "ENOTDIR"} : m = [l EXCEPT !.err = e]
    BY <1>3 DEF LookupStep
  <2>2. m.err # ""
    <3> HIDE DEF m
    <3> QED BY <1>1, <2>1
  <2> HIDE DEF m
  <2> QED BY <2>2 DEF Placed
<1>4. CASE IsDir(fs, l.at)
  <2>0. Exists(fs, l.at)
    BY <1>4 DEF IsDir
  <2>1. CASE part \in {"", Dot}
    <3>1. m = [l EXCEPT !.todo = rest]
      BY <1>4, <2>0, <2>1 DEF LookupStep, part, rest
    <3> HIDE DEF m
    <3> QED BY <1>1, <2>0, <3>1 DEF Placed
  <2>2. CASE part = DotDot
    <3>1. m.at = IF l.at = <<>> THEN <<>> ELSE Parent(l.at)
      <4>1. part \notin {"", Dot}
        BY <2>2 DEF Dot, DotDot
      <4> QED BY <1>1, <1>4, <2>0, <2>2, <4>1 DEF LookupStep, part, rest
    <3>2. Exists(fs, Parent(l.at))
      BY <2>0 DEF IsTree, IsDir, Exists
    <3> HIDE DEF m
    <3> QED BY <2>0, <3>1, <3>2 DEF Placed
  <2>3. CASE part \notin {"", Dot, DotDot} /\ IsLink(fs, next) /\ (follow \/ rest # <<>>)
    <3> DEFINE target == fs[next].target
    <3>1. m = [l EXCEPT !.err = "ELOOP"] \/ m.todo = target \o rest
      BY <1>1, <1>4, <2>0, <2>3 DEF LookupStep, part, rest, next
    <3>2. target \in Seq(Parts) /\ target # <<>>
      BY <2>3 DEF IsLink, Exists, IsTree, Inodes, Pathnames
    <3>3. target \o rest # <<>>
      BY <1>2, <3>2, ConcatEqualIffEmpty
    <3> HIDE DEF m
    <3>4. m.err # "" \/ m.todo # <<>>
      BY <1>1, <3>1, <3>3
    <3> QED BY <3>4 DEF Placed
  <2>4. CASE part \notin {"", Dot, DotDot} /\ ~(IsLink(fs, next) /\ (follow \/ rest # <<>>))
    <3>1. m = [l EXCEPT !.err = "ENOENT"] \/ m = [l EXCEPT !.at = next, !.todo = rest]
      BY <1>4, <2>0, <2>4 DEF LookupStep, part, rest, next
    <3>2. Parent(next) = l.at
      <4>1. part \in FileNames
        BY <1>2, <2>4, PartsAre
      <4> QED BY <1>1, <4>1, ParentOfChild DEF next
    <3> HIDE DEF m
    <3>3. m.err # "" \/ m.at = next
      BY <1>1, <3>1
    <3> QED BY <1>4, <3>2, <3>3 DEF Placed
  <2> QED BY <2>1, <2>2, <2>3, <2>4
<1> QED BY <1>3, <1>4

LEMMA LookupPlaced ==
    ASSUME NEW fs, IsTree(fs), NEW cwd \in Seq(FileNames),
           NEW path \in Seq(Parts), path # <<>>, NEW follow
    PROVE  Placed(fs, Lookup(fs, <<>>, cwd, path, follow))
<1> DEFINE I == {l \in Lookups : Placed(fs, l)}
<1>1. <<>> \in Seq(FileNames)
  OBVIOUS
<1>2. LookupStart(<<>>, cwd, path) \in I
  <2>1. LookupStart(<<>>, cwd, path) \in Lookups
    BY <1>1, LookupTyped
  <2>2. LookupStart(<<>>, cwd, path).todo # <<>>
    BY DEF LookupStart
  <2> QED BY <2>1, <2>2 DEF Placed
<1>3. \A l \in I : l \notin Final => LookupStep(fs, <<>>, follow, l) \in I
  BY <1>1, LookupStepIs, StepPlaced
<1> HIDE DEF I
<1>4. Lookup(fs, <<>>, cwd, path, follow) \in I \cap Final
  <2>1. I \in SUBSET Lookups
    BY DEF I
  <2> QED BY <1>1, <1>2, <1>3, <2>1, LookupKeeps
<1> QED BY <1>4 DEF I

LEMMA Largest ==
    ASSUME NEW T \in SUBSET Nat, T # {}, NEW n \in Nat, \A i \in T : i <= n
    PROVE  \E i \in T : \A j \in T : j <= i
<1> DEFINE U == {k \in Nat : \E i \in T : k = n - i}
<1>1. U \in SUBSET Nat /\ U # {}
  <2>1. PICK i \in T : TRUE
    OBVIOUS
  <2>2. n - i \in Nat
    BY <2>1
  <2>3. n - i \in U
    BY <2>2
  <2> QED BY <2>3
<1>2. PICK k \in U : \A j \in U : k <= j
  <2> HIDE DEF U
  <2> QED BY <1>1, Least
<1>3. PICK i \in T : k = n - i
  BY <1>2
<1>4. ASSUME NEW j \in T PROVE j <= i
  <2>1. n - j \in U /\ j \in Nat /\ i \in Nat
    OBVIOUS
  <2>2. n - i <= n - j
    BY <1>2, <1>3, <2>1
  <2> QED BY <2>1, <2>2
<1> QED BY <1>4

LEMMA SinglePart ==
    ASSUME NEW S, NEW s \in Seq(S), Len(s) = 1
    PROVE  s = <<s[1]>>
<1>1. <<s[1]>> \in Seq(S) /\ Len(<<s[1]>>) = 1 /\ <<s[1]>>[1] = s[1]
  OBVIOUS
<1>2. \A i \in 1..Len(s) : s[i] = <<s[1]>>[i]
  BY <1>1
<1> QED BY <1>1, <1>2, SeqEqual

\* A part of a sequence.
LEMMA SubSeqIs ==
    ASSUME NEW S, NEW s \in Seq(S), NEW m \in 1..(Len(s) + 1), NEW n \in 0..Len(s)
    PROVE  /\ SubSeq(s, m, n) \in Seq(S)
           /\ Len(SubSeq(s, m, n)) = IF m <= n THEN n - m + 1 ELSE 0
           /\ \A i \in 1..(n - m + 1) : SubSeq(s, m, n)[i] = s[m + i - 1]
<1>1. Len(s) \in Nat /\ m \in Int /\ n \in Int
  OBVIOUS
<1>2. \A i \in m..n : s[i] \in S
  BY <1>1
<1> QED BY <1>1, <1>2, SubSeqProperties

(***************************************************************************)
(* What is left of a string after one it begins with.                      *)
(***************************************************************************)
LEMMA AfterIs ==
    ASSUME NEW s \in Seq(Parts), NEW t \in Seq(Parts), t # <<>>, __strleq(s, t)
    PROVE  After(s, t) \in Seq(Parts) /\ After(s, t) # <<>>
<1> DEFINE n == Len(t)
           rest == IF t[n] = "" THEN s[n] ELSE IF t[n] = s[n] THEN "" ELSE NameRest[<<t[n], s[n]>>]
<1>1. n \in Nat /\ n # 0 /\ Len(s) \in Nat /\ n <= Len(s)
  BY EmptySeq, LenProperties DEF __strleq
<1>2. t[n] = "" \/ t[n] = s[n] \/ <<t[n], s[n]>> \in NamePrefixes
  BY DEF __strleq
<1>3. rest \in Parts
  <2>1. s[n] \in Parts
    BY <1>1
  <2> QED BY <1>2, <2>1, PartsAre, PathsAssumption
<1>4. SubSeq(s, n + 1, Len(s)) \in Seq(Parts)
  BY <1>1, SubSeqIs
<1>5. After(s, t) = <<rest>> \o SubSeq(s, n + 1, Len(s))
  BY DEF After
<1> HIDE DEF rest
<1>6. <<rest>> \in Seq(Parts) /\ <<rest>> # <<>>
  BY <1>3
<1> QED BY <1>4, <1>5, <1>6, ConcatProperties, ConcatEqualIffEmpty

(***************************************************************************)
(* A clean path is a path: it is not empty.                                *)
(***************************************************************************)
LEMMA LeadCut ==
    ASSUME NEW path \in Pathnames
    PROVE  \E n \in 1..Len(path) :
              /\ StripLead(path) = SubSeq(path, n, Len(path))
              /\ \A m \in 1..(n - 1) : path[m] = Dot
              /\ n = 1 \/ path[n] # ""
<1> DEFINE Kept(n) == \/ path[n] # Dot
                      \/ n = Len(path)
                      \/ path[n + 1] = ""
                      \/ path[n + 1] = Dot /\ n + 1 = Len(path)
           T == {n \in 1..Len(path) : Kept(n)}
           Is(n) == Kept(n) /\ \A m \in 1..(n - 1) : ~Kept(m)
           first == CHOOSE n \in 1..Len(path) : Is(n)
<1>1. path \in Seq(Parts) /\ path # <<>> /\ path # Empty /\ Len(path) \in Nat \ {0}
  BY PathnamesAre, EmptySeq
<1>2. \E n \in 1..Len(path) : Is(n)
  <2>1. T \in SUBSET Nat /\ T # {}
    <3>1. Len(path) \in 1..Len(path) /\ Kept(Len(path))
      <4>1. Len(path) \in 1..Len(path)
        <5> HIDE DEF Kept
        <5> QED BY <1>1
      <4> QED BY <4>1
    <3> HIDE DEF Kept
    <3>2. T \in SUBSET (1..Len(path))
      OBVIOUS
    <3> QED BY <3>1, <3>2
  <2>2. PICK n \in T : \A m \in T : n <= m
    <3> HIDE DEF T
    <3> QED BY <2>1, Least
  <2> HIDE DEF Kept
  <2>3. ASSUME NEW m \in 1..(n - 1) PROVE ~Kept(m)
    BY <1>1, <2>2
  <2> QED BY <2>2, <2>3
<1>3. first \in 1..Len(path) /\ Is(first)
  BY <1>2
<1>4. StripLead(path) = SubSeq(path, first, Len(path))
  BY DEF StripLead
<1>5. \A m \in 1..(first - 1) : path[m] = Dot
  <2> HIDE DEF first
  <2> QED BY <1>3
<1>6. first = 1 \/ path[first] # ""
  <2> SUFFICES ASSUME first # 1 PROVE path[first] # ""
    OBVIOUS
  <2> HIDE DEF first, Kept
  <2>1. first - 1 \in 1..(first - 1) /\ (first - 1) + 1 = first
    BY <1>1, <1>3
  <2>2. ~Kept(first - 1)
    BY <1>3, <2>1
  <2> QED BY <2>1, <2>2 DEF Kept
<1> HIDE DEF first, Is, Kept
<1> QED BY <1>3, <1>4, <1>5, <1>6

LEMMA StripLeadIs ==
    ASSUME NEW path \in Pathnames
    PROVE  StripLead(path) \in Pathnames
<1>1. path \in Seq(Parts) /\ path # <<>> /\ path # Empty /\ Len(path) \in Nat \ {0}
  BY PathnamesAre, EmptySeq
<1>3. PICK first \in 1..Len(path) : /\ StripLead(path) = SubSeq(path, first, Len(path))
                                    /\ first = 1 \/ path[first] # ""
  BY LeadCut
<1>4. StripLead(path) = SubSeq(path, first, Len(path))
  BY <1>3
<1> DEFINE s == SubSeq(path, first, Len(path))
<1>0. first \in 1..Len(path)
  BY <1>3
<1>5. s \in Seq(Parts) /\ Len(s) = Len(path) - first + 1 /\ s[1] = path[first]
  <2>1. first \in 1..(Len(path) + 1) /\ Len(path) \in 0..Len(path) /\ first + 1 - 1 = first
        /\ 1 \in 1..(Len(path) - first + 1)
    BY <1>0, <1>1
  <2>2. \A m \in 1..(Len(path) + 1), n \in 0..Len(path) :
           /\ SubSeq(path, m, n) \in Seq(Parts)
           /\ Len(SubSeq(path, m, n)) = IF m <= n THEN n - m + 1 ELSE 0
           /\ \A i \in 1..(n - m + 1) : SubSeq(path, m, n)[i] = path[m + i - 1]
    BY <1>1, SubSeqIs
  <2>3. Len(s) = Len(path) - first + 1
    BY <1>0, <1>1, <2>1, <2>2
  <2>4. s[1] = path[1 + first - 1] /\ 1 + first - 1 = first
    <3>1. s[1] = path[first + 1 - 1]
      BY <2>1, <2>2
    <3> QED BY <1>0, <3>1
  <2> QED BY <2>1, <2>2, <2>3, <2>4
<1> HIDE DEF s
<1>6. s # Empty
  <2> SUFFICES ASSUME s = Empty PROVE FALSE
    OBVIOUS
  <2>1. Len(s) = 1 /\ s[1] = ""
    BY DEF Empty
  <2>2. first = Len(path) /\ path[first] = ""
    <3>1. \A a \in Nat : \A b \in 1..a : a - b + 1 = 1 => b = a
      OBVIOUS
    <3>2. Len(path) - first + 1 = 1
      BY <1>5, <2>1
    <3>3. path[first] = ""
      BY <1>5, <2>1
    <3> QED BY <1>0, <1>1, <3>1, <3>2, <3>3
  <2>3. CASE first = 1
    <3>1. Len(path) = 1 /\ path[1] = ""
      BY <2>2, <2>3
    <3>2. path = Empty
      BY <1>1, <3>1, SinglePart DEF Empty
    <3> QED BY <1>1, <3>2
  <2>4. CASE first # 1
    BY <1>3, <2>2, <2>4
  <2> QED BY <2>3, <2>4
<1>7. s # <<>>
  <2>1. Len(s) # 0
    BY <1>0, <1>1, <1>5
  <2> QED BY <2>1
<1> QED BY <1>4, <1>5, <1>6, <1>7, PathnamesAre DEF s

\* A path is absolute, of two parts or more, or its first part is not empty.
LEMMA AbsoluteIs ==
    ASSUME NEW path \in Pathnames
    PROVE  /\ Len(path) \in Nat \ {0} /\ path \in Seq(Parts)
           /\ IsAbsolute(path) => Len(path) >= 2 /\ path[1] = ""
           /\ ~IsAbsolute(path) => path[1] # ""
<1>1. path \in Seq(Parts) /\ path # <<>> /\ path # Empty /\ Len(path) \in Nat \ {0}
  BY PathnamesAre, EmptySeq
<1>2. \A n \in Nat \ {0} : (n > 1 => n >= 2) /\ (n > 1 \/ n = 1)
  OBVIOUS
<1>3. IsAbsolute(path) <=> Len(path) > 1 /\ path[1] = ""
  BY DEF IsAbsolute
<1>4. ASSUME Len(path) = 1, path[1] = "" PROVE FALSE
  <2>1. path = Empty
    BY <1>1, <1>4, SinglePart DEF Empty
  <2> QED BY <1>1, <2>1
<1> QED BY <1>1, <1>2, <1>3, <1>4

LEMMA TrailIs ==
    ASSUME NEW path \in Pathnames, NEW part
    PROVE  \E n \in 1..Len(path) :
              /\ StripTrail(path, part) = SubSeq(path, 1, n)
              /\ \A m \in (n + 1)..Len(path) : path[m] = part
              /\ n = 1 => ~IsAbsolute(path)
<1> DEFINE floor == IF IsAbsolute(path) THEN 2 ELSE 1
           Keeps1(n) == n = floor \/ path[n] # part
           Is(n) == Keeps1(n) /\ \A m \in (n + 1)..Len(path) : path[m] = part
           T == {n \in floor..Len(path) : Keeps1(n)}
           last == CHOOSE n \in floor..Len(path) : Is(n)
<1>1. Len(path) \in Nat \ {0} /\ path \in Seq(Parts)
  BY AbsoluteIs
<1>2. floor \in {1, 2} /\ floor <= Len(path)
  <2>1. CASE IsAbsolute(path)
    BY <2>1, AbsoluteIs
  <2>2. CASE ~IsAbsolute(path)
    BY <2>2, <1>1
  <2> QED BY <2>1, <2>2
<1>3. floor = 1 => path[1] # ""
  <2>1. floor = 1 => ~IsAbsolute(path)
    OBVIOUS
  <2> HIDE DEF floor
  <2> QED BY <2>1, AbsoluteIs
<1> HIDE DEF floor
<1>4. \E n \in floor..Len(path) : Is(n)
  <2>1. floor \in T
    BY <1>1, <1>2
  <2>2. T \in SUBSET Nat /\ \A n \in T : n <= Len(path)
    BY <1>1, <1>2
  <2>3. PICK n \in T : \A m \in T : m <= n
    <3> HIDE DEF T
    <3> QED BY <1>1, <2>1, <2>2, Largest
  <2>4. n \in floor..Len(path) /\ Keeps1(n)
    OBVIOUS
  <2>5. ASSUME NEW m \in (n + 1)..Len(path) PROVE path[m] = part
    <3>1. m \in floor..Len(path) /\ ~(m <= n)
      BY <1>1, <1>2, <2>4
    <3> QED BY <2>3, <3>1
  <2> QED BY <2>4, <2>5
<1>5. last \in floor..Len(path)
  <2> HIDE DEF Is
  <2> QED BY <1>4
<1>6. StripTrail(path, part) = SubSeq(path, 1, last)
  BY DEF StripTrail, floor
<1>7. \A m \in (last + 1)..Len(path) : path[m] = part
  <2> HIDE DEF Is, last
  <2>1. Is(last)
    <3> USE DEF last
    <3> HIDE DEF Is
    <3> QED BY <1>4
  <2> QED BY <2>1 DEF Is
<1> HIDE DEF last
<1>8. last \in 1..Len(path) /\ (last = 1 => floor = 1)
  BY <1>1, <1>2, <1>5
<1>9. floor = 1 => ~IsAbsolute(path)
  BY DEF floor
<1> QED BY <1>6, <1>7, <1>8, <1>9

LEMMA StripTrailIs ==
    ASSUME NEW path \in Pathnames, NEW part
    PROVE  StripTrail(path, part) \in Pathnames
<1>1. Len(path) \in Nat \ {0} /\ path \in Seq(Parts)
  BY AbsoluteIs
<1>2. PICK last \in 1..Len(path) : /\ StripTrail(path, part) = SubSeq(path, 1, last)
                                   /\ last = 1 => ~IsAbsolute(path)
  BY TrailIs
<1>3. last = 1 => path[1] # ""
  BY <1>2, AbsoluteIs
<1>6. StripTrail(path, part) = SubSeq(path, 1, last)
  BY <1>2
<1>7. last \in 1..Len(path)
  OBVIOUS
<1> DEFINE s == SubSeq(path, 1, last)
<1>8. s \in Seq(Parts) /\ Len(s) = last /\ s[1] = path[1]
  <2>1. 1 \in 1..(Len(path) + 1) /\ last \in 0..Len(path) /\ 1 \in 1..(last - 1 + 1)
        /\ 1 <= last /\ last - 1 + 1 = last /\ 1 + 1 - 1 = 1
    BY <1>1, <1>7
  <2>2. \A m \in 1..(Len(path) + 1), n \in 0..Len(path) :
           /\ SubSeq(path, m, n) \in Seq(Parts)
           /\ Len(SubSeq(path, m, n)) = IF m <= n THEN n - m + 1 ELSE 0
           /\ \A i \in 1..(n - m + 1) : SubSeq(path, m, n)[i] = path[m + i - 1]
    BY <1>1, SubSeqIs
  <2>3. Len(s) = last - 1 + 1
    BY <2>1, <2>2
  <2>4. s[1] = path[1 + 1 - 1]
    BY <2>1, <2>2
  <2> QED BY <2>1, <2>2, <2>3, <2>4
<1> HIDE DEF s
<1>9. s # Empty
  <2> SUFFICES ASSUME s = Empty PROVE FALSE
    OBVIOUS
  <2>1. Len(s) = 1 /\ s[1] = ""
    BY DEF Empty
  <2> QED BY <1>3, <1>8, <2>1
<1>10. s # <<>>
  <2>1. Len(s) # 0
    BY <1>1, <1>7, <1>8
  <2> QED BY <2>1
<1> QED BY <1>6, <1>8, <1>9, <1>10, PathnamesAre DEF s

LEMMA SanitizeIs ==
    \A path \in Pathnames : __path_sanitize(path) \in Pathnames
  BY StripLeadIs, StripTrailIs DEF __path_sanitize

(***************************************************************************)
(* The paths that the code builds are paths again.                         *)
(***************************************************************************)
Roots == {Empty} \cup Pathnames

LEMMA EmptyIs == Empty \in Seq(Parts) /\ Len(Empty) = 1 /\ Empty # <<>> /\ Empty \notin Pathnames
<1>1. "" \in Parts
  BY PartsAre
<1>2. \A S : \A x \in S : <<x>> \in Seq(S) /\ Len(<<x>>) = 1 /\ <<x>> # <<>>
  OBVIOUS
<1> QED BY <1>1, <1>2, PathnamesAre DEF Empty

LEMMA RootIs ==
    \A root \in Roots : root \in Seq(Parts) /\ root # <<>> /\ Len(root) \in Nat \ {0}
  BY EmptyIs, PathnamesAre, EmptySeq DEF Roots

\* A path that comes after one that is not empty.
LEMMA LongerIs ==
    ASSUME NEW dir \in Seq(Parts), NEW path \in Seq(Parts), dir # <<>>,
           path # <<>>
    PROVE  dir \o path \in Pathnames
<1>1. Len(dir) \in Nat \ {0} /\ Len(path) \in Nat \ {0}
  BY EmptySeq
<1>2. dir \o path \in Seq(Parts) /\ Len(dir \o path) = Len(dir) + Len(path)
  BY ConcatProperties
<1>3. \A m, n \in Nat \ {0} : m + n >= 2
  OBVIOUS
<1> QED BY <1>1, <1>2, <1>3, PathnamesAre

LEMMA PrependIs ==
    ASSUME NEW dir \in Roots, NEW path \in Pathnames, IsAbsolute(path)
    PROVE  Prepend(dir, path) \in Pathnames
<1>1. path \in Seq(Parts) /\ Len(path) \in Nat /\ Len(path) >= 2 /\ path # <<>>
  BY AbsoluteIs, PathnamesAre
<1>2. Tail(path) \in Seq(Parts) /\ Len(Tail(path)) = Len(path) - 1
  BY <1>1, HeadTailProperties
<1>3. Len(Tail(path)) # 0
  BY <1>1, <1>2
<1>4. Tail(path) # <<>>
  <2>1. Len(<<>>) = 0
    OBVIOUS
  <2> QED BY <1>3, <2>1
<1>5. dir \o Tail(path) \in Pathnames
  BY <1>2, <1>4, RootIs, LongerIs
<1> QED BY <1>5 DEF Prepend

LEMMA JoinIs ==
    ASSUME NEW root \in Roots, NEW dir \in Roots, NEW path \in Pathnames
    PROVE  JoinPath(root, dir, path) \in Pathnames
<1>1. path \in Seq(Parts) /\ path # <<>>
  BY PathnamesAre
<1>2. dir # Empty => dir \o path \in Pathnames
  BY <1>1, EmptyIs, RootIs, LongerIs
<1> QED BY <1>2, PrependIs DEF JoinPath, NoDir

LEMMA StripRootIs ==
    ASSUME NEW root \in Pathnames, NEW path \in Pathnames
    PROVE  __striprootdir(root, path) \in Pathnames
<1>1. root \in Seq(Parts) /\ root # <<>> /\ path \in Seq(Parts)
  BY PathnamesAre
<1>2. __strleq(path, root) => After(path, root) \in Seq(Parts) /\ After(path, root) # <<>>
  BY <1>1, AfterIs
<1>3. __strleq(path, root) /\ After(path, root) # Empty => After(path, root) \in Pathnames
  BY <1>2, PathnamesAre
<1> QED BY <1>3, PathnamesAre DEF __striprootdir

LEMMA KeepIs ==
    ASSUME NEW rootdir \in Pathnames, NEW root \in Roots, NEW dir, NEW given,
           NEW path \in Pathnames, NEW prflags
    PROVE  StripIgnored(rootdir, root, KeepInRoot(root, dir, given, path), prflags) \in Pathnames
<1>1. KeepInRoot(root, dir, given, path) \in Pathnames
  BY DEF KeepInRoot, Roots
<1> QED BY <1>1, StripRootIs DEF StripIgnored

LEMMA HostPathIs ==
    \A loc \in Seq(FileNames) : HostPath(loc) \in Pathnames /\ Location(HostPath(loc)) = loc
<1> SUFFICES ASSUME NEW loc \in Seq(FileNames)
             PROVE  HostPath(loc) \in Pathnames /\ Location(HostPath(loc)) = loc
  OBVIOUS
<1>1. loc \in Seq(Parts)
  BY PartsAre, SeqMonotonic
<1>2. CASE loc = <<>>
  BY <1>2, PathnamesAre DEF HostPath, Location
<1>3. CASE loc # <<>>
  <2>1. HostPath(loc) = Empty \o loc
    BY <1>3 DEF HostPath, Empty
  <2>2. Empty \o loc \in Pathnames
    BY <1>1, <1>3, EmptyIs, LongerIs
  <2> DEFINE s == Empty \o loc
  <2>3. /\ s \in Seq(Parts) /\ s # <<>> /\ Len(s) = 1 + Len(loc) /\ Len(loc) \in Nat
        /\ \A i \in 1..(1 + Len(loc)) : s[i] = IF i <= 1 THEN Empty[i] ELSE loc[i - 1]
    BY <1>1, <2>2, EmptyIs, ConcatProperties, PathnamesAre
  <2> HIDE DEF s
  <2>4. Tail(s) \in Seq(Parts) /\ Len(Tail(s)) = Len(s) - 1
        /\ \A i \in 1..Len(Tail(s)) : Tail(s)[i] = s[i + 1]
    BY <2>3, HeadTailProperties
  <2>5. Len(Tail(s)) = Len(loc)
    BY <2>3, <2>4
  <2>6. ASSUME NEW i \in 1..Len(Tail(s)) PROVE Tail(s)[i] = loc[i]
    <3>1. i + 1 \in 1..(1 + Len(loc)) /\ ~(i + 1 <= 1) /\ (i + 1) - 1 = i
      BY <2>3, <2>5
    <3> QED BY <2>3, <2>4, <3>1
  <2>7. Tail(s) = loc
    BY <1>1, <2>4, <2>5, <2>6, SeqEqual
  <2>8. s # Slash
    <3> SUFFICES ASSUME s = Slash PROVE FALSE
      OBVIOUS
    <3>1. s[2] = "" /\ Len(s) = 2
      BY DEF Slash
    <3>2. loc[1] = "" /\ Len(loc) = 1
      <4>1. Len(loc) = 1
        <5>1. \A n \in Nat : 1 + n = 2 => n = 1
          OBVIOUS
        <5> QED BY <2>3, <3>1, <5>1
      <4>2. 2 \in 1..(1 + Len(loc)) /\ ~(2 <= 1) /\ 2 - 1 = 1
        BY <4>1
      <4> QED BY <2>3, <3>1, <4>1, <4>2
    <3>3. loc[1] \in FileNames
      <4>1. \A n \in Nat : n = 1 => 1 \in 1..n
        OBVIOUS
      <4>2. 1 \in 1..Len(loc)
        BY <2>3, <3>2, <4>1
      <4> QED BY <4>2
    <3> QED BY <3>2, <3>3, PartsAre
  <2> QED BY <2>1, <2>2, <2>7, <2>8 DEF Location, s
<1> QED BY <1>2, <1>3

(***************************************************************************)
(* Slashes are skipped up to the first part that is not empty.             *)
(***************************************************************************)
LEMMA SkipSlashesIs ==
    ASSUME NEW stack \in Seq(Parts)
    PROVE  \E n \in 1..(Len(stack) + 1) :
              /\ n = Len(stack) + 1 \/ stack[n] # ""
              /\ \A m \in 1..(n - 1) : stack[m] = ""
              /\ SkipSlashes(stack) = SubSeq(stack, n, Len(stack))
              /\ SkipSlashes(stack) \in Seq(Parts)
<1> DEFINE Stops(n) == n = Len(stack) + 1 \/ stack[n] # ""
           Is(n) == Stops(n) /\ \A m \in 1..(n - 1) : stack[m] = ""
           T == {n \in 1..(Len(stack) + 1) : Stops(n)}
           n == CHOOSE k \in 1..(Len(stack) + 1) : Is(k)
<1>1. Len(stack) \in Nat
  OBVIOUS
<1>2. \E k \in 1..(Len(stack) + 1) : Is(k)
  <2>1. Len(stack) + 1 \in T
    BY <1>1
  <2>2. T \in SUBSET Nat
    <3> HIDE DEF Stops
    <3> QED BY <1>1
  <2>3. PICK k \in T : \A m \in T : k <= m
    <3> HIDE DEF T
    <3> QED BY <2>1, <2>2, Least
  <2>4. k \in 1..(Len(stack) + 1) /\ Stops(k)
    OBVIOUS
  <2>5. ASSUME NEW m \in 1..(k - 1) PROVE stack[m] = ""
    <3>1. m \in 1..(Len(stack) + 1) /\ ~(k <= m)
      <4> HIDE DEF Stops, T
      <4> QED BY <1>1, <2>4
    <3> QED BY <2>3, <3>1
  <2> QED BY <2>4, <2>5
<1>3. n \in 1..(Len(stack) + 1) /\ Is(n)
  <2> HIDE DEF Is
  <2> QED BY <1>2
<1>4. SkipSlashes(stack) = SubSeq(stack, n, Len(stack))
  BY DEF SkipSlashes
<1> HIDE DEF n
<1>5. SubSeq(stack, n, Len(stack)) \in Seq(Parts)
  <2>1. Len(stack) \in 0..Len(stack) /\ n \in 1..(Len(stack) + 1)
    <3>1. n \in 1..(Len(stack) + 1)
      BY <1>3
    <3> QED BY <1>1, <3>1
  <2> QED BY <2>1, SubSeqIs
<1> QED BY <1>3, <1>4, <1>5

LEMMA SkippedIs == \A stack \in Seq(Parts) : SkipSlashes(stack) \in Seq(Parts)
  BY SkipSlashesIs

LEMMA PushIs ==
    ASSUME NEW target \in Seq(Parts), NEW rest \in Seq(Parts)
    PROVE  Push(target, rest) \in Seq(Parts)
<1> DEFINE left == SkipSlashes(rest)
<1>1. SubSeq(target, 1, Len(target) - 1) \in Seq(Parts)
  <2>1. 1 \in Int /\ Len(target) - 1 \in Int /\ \A i \in 1..(Len(target) - 1) : target[i] \in Parts
    OBVIOUS
  <2> QED BY <2>1, SubSeqProperties
<1>2. left \in Seq(Parts)
  BY SkippedIs
<1>3. Push(target, rest) \in {target, target \o rest, SubSeq(target, 1, Len(target) - 1) \o left}
  BY DEF Push
<1> HIDE DEF left
<1> QED BY <1>1, <1>2, <1>3, ConcatProperties

(***************************************************************************)
(* The state of the resolution of a path, what it looks at on the way, and *)
(* its steps.                                                              *)
(***************************************************************************)
Resolutions ==
    [stack : Seq(Parts), abs : BOOLEAN, two : BOOLEAN, out : Seq(Parts), nup : Nat, check : BOOLEAN,
     cnt : Nat, err : Errors, done : BOOLEAN]

LEMMA OutputIs ==
    ASSUME NEW r \in Resolutions, NEW part \in Parts
    PROVE  Output(r, part) \in Seq(Parts)
<1> DEFINE a == Lead(r)
           b == IF part = "" /\ r.out = <<>> THEN (IF r.abs THEN Empty ELSE <<>>) ELSE <<part>>
<1>1. r.out \in Seq(Parts) /\ "" \in Parts
  BY PartsAre DEF Resolutions
<1>2. \A x \in Parts : <<x>> \in Seq(Parts)
  OBVIOUS
<1>3. a \in Seq(Parts) /\ b \in Seq(Parts)
  <2>1. <<>> \in Seq(Parts)
    OBVIOUS
  <2>2. Empty \in Seq(Parts) /\ Slash \in Seq(Parts) /\ <<part>> \in Seq(Parts)
    <3> HIDE DEF a, b
    <3> QED BY <1>1, <1>2, EmptyIs, PathnamesAre
  <2> QED BY <2>1, <2>2 DEF Lead
<1>4. Output(r, part) = (a \o r.out) \o b
  BY DEF Output
<1> HIDE DEF a, b
<1>5. a \o r.out \in Seq(Parts)
  BY <1>1, <1>3, ConcatProperties
<1>6. (a \o r.out) \o b \in Seq(Parts)
  BY <1>3, <1>5, ConcatProperties
<1> QED BY <1>4, <1>6

LEMMA RestIs ==
    ASSUME NEW r \in Resolutions, NEW part \in Parts, NEW rest \in Seq(Parts)
    PROVE  SkipReadlink(r, part, rest) \in Resolutions
<1>1. r.out \in Seq(Parts) /\ SkipSlashes(rest) \in Seq(Parts)
  BY SkippedIs DEF Resolutions
<1>2. SubSeq(r.out, 1, Len(r.out) - 1) \in Seq(Parts)
  <2>1. 1 \in Int /\ Len(r.out) - 1 \in Int /\ \A i \in 1..(Len(r.out) - 1) : r.out[i] \in Parts
    BY <1>1
  <2> QED BY <2>1, SubSeqProperties
<1>3. Append(r.out, part) \in Seq(Parts)
  BY <1>1, AppendProperties
<1> DEFINE out == IF part = DotDot
                  THEN IF r.out = <<>> THEN r.out ELSE SubSeq(r.out, 1, Len(r.out) - 1)
                  ELSE IF part = "" THEN r.out ELSE Append(r.out, part)
           check == part # DotDot /\ rest # <<>>
<1>4. out \in Seq(Parts)
  BY <1>1, <1>2, <1>3
<1>5. SkipReadlink(r, part, rest) =
         [r EXCEPT !.check = check, !.stack = SkipSlashes(rest), !.out = out]
  BY DEF SkipReadlink, Resolutions
<1>6. check \in BOOLEAN
  OBVIOUS
<1> HIDE DEF out, check
<1> QED BY <1>1, <1>4, <1>5, <1>6 DEF Resolutions


\* A lookup that has come to its end has failed or ended.
LEMMA FinalIs ==
    \A l \in Final : l \in Lookups /\ l.err \in Errors /\ l.at \in Seq(FileNames)
                     /\ (Ended(l) \/ l.err # "")
  BY DEF Final, Lookups, Ended

LEMMA RedirectIs ==
    ASSUME NEW fs, IsTree(fs), NEW l
    PROVE  RedirectAt(fs, l) = NoRedirect \/ RedirectAt(fs, l) \in Pathnames
<1>1. ASSUME NEW inode \in Inodes, "redirect" \in DOMAIN inode
      PROVE  inode.redirect \in Pathnames
  <2>1. CASE inode \in [type : {"dir", "file"}]
    <3>1. DOMAIN inode = {"type"}
      BY <2>1
    <3> QED BY <1>1, <3>1
  <2>2. CASE inode \in [type : {"link"}, target : Pathnames]
    <3>1. DOMAIN inode = {"type", "target"}
      BY <2>2
    <3> QED BY <1>1, <3>1
  <2>3. CASE inode \in [type : {"dir"}, redirect : Pathnames]
    BY <2>3
  <2> QED BY <2>1, <2>2, <2>3 DEF Inodes
<1>2. Found(fs, l) => fs[l.at] \in Inodes
  BY DEF Found, Exists, IsTree
<1> QED BY <1>1, <1>2 DEF RedirectAt

LEMMA LinkIs ==
    ASSUME NEW fs, IsTree(fs), NEW l \in Final
    PROVE  /\ LinkAt(fs, l).err \in Errors \cup {"EINVAL"}
           /\ LinkAt(fs, l).err = "" => LinkAt(fs, l).target \in Pathnames
<1>1. IsLink(fs, l.at) => fs[l.at].target \in Pathnames
  BY DEF IsLink, Exists, IsTree, Inodes
<1>2. l.err \in Errors /\ (Ended(l) \/ l.err # "")
  BY FinalIs
<1>3. CASE ~Ended(l)
  BY <1>2, <1>3 DEF LinkAt
<1>4. CASE Ended(l) /\ ~Exists(fs, l.at)
  BY <1>4 DEF LinkAt, Errors
<1>5. CASE Ended(l) /\ Exists(fs, l.at) /\ IsLink(fs, l.at)
  BY <1>1, <1>5 DEF LinkAt, Errors
<1>6. CASE Ended(l) /\ Exists(fs, l.at) /\ ~IsLink(fs, l.at)
  BY <1>6 DEF LinkAt
<1> QED BY <1>3, <1>4, <1>5, <1>6

LEMMA CountIs == \A r \in Resolutions : r.cnt + 1 \in Nat
<1>1. \A n \in Nat : n + 1 \in Nat
  OBVIOUS
<1>2. \A r \in Resolutions : r.cnt \in Nat
  BY DEF Resolutions
<1> QED BY <1>1, <1>2

LEMMA FollowIs ==
    ASSUME NEW r \in Resolutions, NEW root \in Pathnames, NEW part \in Parts,
           NEW rest \in Seq(Parts), NEW redirect, redirect = NoRedirect \/ redirect \in Pathnames,
           NEW link, link.err \in Errors \cup {"EINVAL"},
           link.err = "" => link.target \in Pathnames
    PROVE  Follow(r, root, part, rest, redirect, link) \in Resolutions
<1>1. ASSUME NEW target \in Pathnames PROVE Push(target, rest) \in Seq(Parts)
  BY PushIs, PathnamesAre
<1>2. CASE redirect # NoRedirect
  <2>1. redirect \o rest \in Seq(Parts)
    BY <1>2, PathnamesAre, ConcatProperties
  <2>2. [r EXCEPT !.stack = redirect \o rest] \in Resolutions
    BY <2>1 DEF Resolutions
  <2> QED BY <1>2, <2>2 DEF Follow
<1>3. CASE redirect = NoRedirect /\ link.err = ""
  <2> DEFINE target == IF IsAbsolute(link.target) /\ root # Slash
                       THEN Prepend(root, link.target) ELSE link.target
  <2>1. target \in Pathnames
    BY <1>3, PrependIs DEF Roots
  <2>2. FollowLink(r, root, link.target, rest) =
           IF r.cnt + 1 = SYMLOOP_MAX THEN [r EXCEPT !.err = "ELOOP"]
           ELSE [r EXCEPT !.cnt = @ + 1, !.stack = Push(target, rest)]
    BY DEF FollowLink
  <2> HIDE DEF target
  <2>3. Push(target, rest) \in Seq(Parts) /\ r.cnt + 1 \in Nat /\ "ELOOP" \in Errors
    <3>1. Push(target, rest) \in Seq(Parts)
      BY <1>1, <2>1
    <3>2. r.cnt + 1 \in Nat /\ "ELOOP" \in Errors
      BY CountIs DEF Errors
    <3> QED BY <3>1, <3>2
  <2>4. [r EXCEPT !.err = "ELOOP"] \in Resolutions
    BY <2>3 DEF Resolutions
  <2>5. [r EXCEPT !.cnt = @ + 1, !.stack = Push(target, rest)] \in Resolutions
    BY <2>3 DEF Resolutions
  <2>6. FollowLink(r, root, link.target, rest) \in Resolutions
    BY <2>2, <2>4, <2>5
  <2> QED BY <1>3, <2>6 DEF Follow
<1>4. CASE redirect = NoRedirect /\ link.err \in {"ENOENT", "EINVAL"}
  <2>1. SkipReadlink(r, part, rest) \in Resolutions
    BY RestIs
  <2> QED BY <1>4, <2>1 DEF Follow
<1>5. CASE redirect = NoRedirect /\ link.err \notin {"", "ENOENT", "EINVAL"}
  <2>1. [r EXCEPT !.err = link.err] \in Resolutions
    BY <1>5 DEF Resolutions
  <2> QED BY <1>5, <2>1 DEF Follow
<1> QED BY <1>2, <1>3, <1>4, <1>5

LEMMA LookAtIs ==
    ASSUME NEW fs, IsTree(fs), NEW cwd \in Seq(FileNames), NEW r \in Resolutions,
           NEW root \in Pathnames, NEW part \in Parts, NEW rest \in Seq(Parts),
           NEW path \in Seq(Parts)
    PROVE  LookAt(fs, cwd, r, root, part, rest, path) \in Resolutions
<1> DEFINE l == Lookup(fs, <<>>, cwd, path, FALSE)
           at == IF Found(fs, l) /\ IsLink(fs, l.at) THEN Lookup(fs, <<>>, cwd, path, TRUE) ELSE l
           redirect == RedirectAt(fs, at)
           link == LinkAt(fs, l)
<1>1. <<>> \in Seq(FileNames)
  OBVIOUS
<1>2. l \in Final
  BY <1>1, LookupTyped
<1>3. LookAt(fs, cwd, r, root, part, rest, path) = Follow(r, root, part, rest, redirect, link)
  BY DEF LookAt
<1> HIDE DEF l, at
<1>4. redirect = NoRedirect \/ redirect \in Pathnames
  BY RedirectIs
<1>5. /\ link.err \in Errors \cup {"EINVAL"}
      /\ link.err = "" => link.target \in Pathnames
  BY <1>2, LinkIs
<1> HIDE DEF redirect, link
<1>6. Follow(r, root, part, rest, redirect, link) \in Resolutions
  BY <1>4, <1>5, FollowIs
<1> QED BY <1>3, <1>6

LEMMA RealpathPartIs ==
    ASSUME NEW fs, IsTree(fs), NEW cwd \in Seq(FileNames), NEW root \in Pathnames, NEW follow,
           NEW r \in Resolutions, NEW part \in Parts, NEW rest \in Seq(Parts)
    PROVE  RealpathPart(fs, cwd, root, follow, r, part, rest) \in Resolutions
<1>1. SkipSlashes(rest) \in Seq(Parts) /\ DotDot \in Parts
  BY SkippedIs, PartsAre
<1>2. Append(r.out, DotDot) \in Seq(Parts) /\ r.nup + 1 \in Nat
  BY <1>1, AppendProperties DEF Resolutions
<1>3. [r EXCEPT !.stack = SkipSlashes(rest)] \in Resolutions
  BY <1>1 DEF Resolutions
<1>4. [r EXCEPT !.stack = SkipSlashes(rest), !.out = Append(@, DotDot), !.nup = @ + 1]
         \in Resolutions
  BY <1>1, <1>2 DEF Resolutions
<1>5. SkipReadlink(r, part, rest) \in Resolutions
  BY RestIs
<1>6. LookAt(fs, cwd, r, root, part, rest, Output(r, part)) \in Resolutions
  BY OutputIs, LookAtIs
<1> QED BY <1>3, <1>4, <1>5, <1>6 DEF RealpathPart

LEMMA RealpathStepIs ==
    ASSUME NEW fs, IsTree(fs), NEW cwd \in Seq(FileNames), NEW root \in Pathnames, NEW follow,
           NEW r \in Resolutions
    PROVE  RealpathStep(fs, cwd, root, follow, r) \in Resolutions
<1> DEFINE end == r.stack \in {<<>>, Empty}
           part == IF end THEN "" ELSE Head(r.stack)
           rest == IF end THEN <<>> ELSE Tail(r.stack)
           m == RealpathStep(fs, cwd, root, follow, r)
<1>1. r.stack \in Seq(Parts)
  BY DEF Resolutions
<1>2. part \in Parts /\ rest \in Seq(Parts)
  <2>1. CASE end
    <3>1. part = "" /\ rest = <<>>
      BY <2>1
    <3>2. <<>> \in Seq(Parts)
      OBVIOUS
    <3> QED BY <3>1, <3>2, PartsAre
  <2>2. CASE ~end
    <3>1. r.stack # <<>>
      BY <2>2
    <3> QED BY <1>1, <2>2, <3>1, HeadTailProperties
  <2> QED BY <2>1, <2>2
<1> HIDE DEF part, rest
<1>3. RealpathPart(fs, cwd, root, follow, r, part, rest) \in Resolutions
  BY <1>2, RealpathPartIs
<1>4. [r EXCEPT !.stack = SkipSlashes(@), !.abs = TRUE, !.two = Doubled(r.stack), !.out = <<>>,
                !.nup = 0, !.check = FALSE]
         \in Resolutions
  <2> DEFINE two == Doubled(r.stack)
  <2>1. SkipSlashes(r.stack) \in Seq(Parts) /\ <<>> \in Seq(Parts) /\ 0 \in Nat
    BY <1>1, SkippedIs
  <2>2. two \in BOOLEAN
    BY DEF Doubled
  <2> HIDE DEF two
  <2>3. [r EXCEPT !.stack = SkipSlashes(@), !.abs = TRUE, !.two = two, !.out = <<>>,
                  !.nup = 0, !.check = FALSE] \in Resolutions
    BY <2>1, <2>2 DEF Resolutions
  <2> QED BY <2>3 DEF two
<1>5. [r EXCEPT !.done = TRUE] \in Resolutions
  BY DEF Resolutions
<1> QED BY <1>3, <1>4, <1>5 DEF RealpathStep, part, rest

(***************************************************************************)
(* The steps one after the other, and what the resolution returns.         *)
(***************************************************************************)
Runs(run, fs, cwd, root, path, follow) ==
    /\ run \in [0..MaxSteps -> Resolutions]
    /\ run[0] = RealpathStart(path)
    /\ \A n \in 1..MaxSteps : run[n] = RealpathStep(fs, cwd, root, follow, run[n - 1])

LEMMA RealpathRuns ==
    ASSUME NEW fs, IsTree(fs), NEW cwd \in Seq(FileNames), NEW root \in Pathnames, NEW follow,
           NEW path \in Pathnames
    PROVE  \E run : /\ Runs(run, fs, cwd, root, path, follow)
                    /\ RealpathRun(fs, cwd, root, path, follow) = run[MaxSteps]
                    /\ __realpathat(fs, cwd, root, path, follow)
                          = RealpathResult(cwd, path, run[MaxSteps])
<1> DEFINE Step(r) == RealpathStep(fs, cwd, root, follow, r)
           start == RealpathStart(path)
           step == [n \in 1..MaxSteps |-> [r \in Resolutions |-> Step(r)]]
           F(f) == [n \in 0..MaxSteps |-> IF n = 0 THEN start ELSE Step(f[n - 1])]
           run == CHOOSE f : f = F(f)
<1>1. start \in Resolutions
  <2>1. path \in Seq(Parts) /\ <<>> \in Seq(Parts) /\ 0 \in Nat /\ "" \in Errors
    BY PathnamesAre DEF Errors
  <2> QED BY <2>1 DEF RealpathStart, Resolutions
<1>2. \A r \in Resolutions : Step(r) \in Resolutions
  BY RealpathStepIs
<1>3. /\ RealpathRun(fs, cwd, root, path, follow) = run[MaxSteps]
      /\ __realpathat(fs, cwd, root, path, follow) = RealpathResult(cwd, path, run[MaxSteps])
  <2>1. path # Empty
    BY PathnamesAre
  <2>2. RealpathRun(fs, cwd, root, path, follow) = run[MaxSteps]
    BY DEF RealpathRun
  <2> QED BY <2>1, <2>2 DEF __realpathat
<1> HIDE DEF Step, start
<1>4. step \in [1..MaxSteps -> [Resolutions -> Resolutions]]
  BY <1>2
<1>5. \A n, T, a, g : n \in Nat /\ a \in T /\ g \in [1..n -> [T -> T]]
                     => \E f \in [0..n -> T] : Steps(f, n, a, g)
  BY Recursion
<1>6. PICK f \in [0..MaxSteps -> Resolutions] : Steps(f, MaxSteps, start, step)
  <2> HIDE DEF step
  <2> QED BY <1>1, <1>4, <1>5, StepsAssumption
<1>7. \A n \in 1..MaxSteps : f[n] = Step(f[n - 1])
  <2> SUFFICES ASSUME NEW n \in 1..MaxSteps PROVE f[n] = Step(f[n - 1])
    OBVIOUS
  <2>1. n - 1 \in 0..MaxSteps
    BY StepsAssumption
  <2>2. f[n - 1] \in Resolutions
    BY <2>1
  <2> QED BY <1>6, <2>2 DEF Steps
<1>8. f = F(f)
  BY <1>6, <1>7, StepsAssumption DEF Steps
<1>9. run = F(run)
  BY <1>8
<1> HIDE DEF run
<1>10. run[0] = start /\ \A n \in 1..MaxSteps : run[n] = Step(run[n - 1])
  BY <1>9, StepsAssumption
<1>11. \A n \in 0..MaxSteps : run[n] \in Resolutions
  <2> DEFINE T == {n \in Nat : n <= MaxSteps => run[n] \in Resolutions}
  <2>1. 0 \in T
    BY <1>1, <1>10
  <2>2. ASSUME NEW n \in Nat, n \in T PROVE n + 1 \in T
    <3> SUFFICES ASSUME n + 1 <= MaxSteps PROVE run[n + 1] \in Resolutions
      OBVIOUS
    <3>1. n + 1 \in 1..MaxSteps /\ (n + 1) - 1 = n /\ n <= MaxSteps
      BY StepsAssumption
    <3> QED BY <1>2, <1>10, <2>2, <3>1
  <2> HIDE DEF T
  <2>3. Nat \subseteq T
    BY <2>1, <2>2, Induction
  <2> QED BY <2>3, StepsAssumption DEF T
<1>12. run \in [0..MaxSteps -> Resolutions]
  <2>1. run = [n \in 0..MaxSteps |-> run[n]]
    BY <1>9
  <2> QED BY <1>11, <2>1
<1> QED BY <1>3, <1>10, <1>12 DEF Runs, Step, start

LEMMA RealpathIs ==
    ASSUME NEW fs, IsTree(fs), NEW cwd \in Seq(FileNames), NEW root \in Pathnames, NEW follow,
           NEW path \in Pathnames
    PROVE  __realpathat(fs, cwd, root, path, follow) \in Pathnames
<1>1. PICK run : /\ Runs(run, fs, cwd, root, path, follow)
                 /\ __realpathat(fs, cwd, root, path, follow)
                       = RealpathResult(cwd, path, run[MaxSteps])
  BY RealpathRuns
<1> DEFINE r == run[MaxSteps]
           up == IF r.nup > Len(cwd) THEN Len(cwd) ELSE r.nup
<1>2. r \in Resolutions
  BY <1>1, StepsAssumption DEF Runs
<1> HIDE DEF r
<1>3. r.out \in Seq(Parts) /\ cwd \in Seq(Parts) /\ r.nup \in Nat /\ Len(r.out) \in Nat
      /\ Len(cwd) \in Nat /\ up \in Nat /\ up <= Len(cwd)
  <2>1. r.out \in Seq(Parts) /\ cwd \in Seq(Parts) /\ r.nup \in Nat
    BY <1>2, PartsAre, SeqMonotonic DEF Resolutions
  <2> QED BY <2>1
<1> HIDE DEF up
<1>4. ASSUME NEW loc \in Seq(Parts) PROVE HostPath(loc) \in Pathnames
  <2>1. CASE loc = <<>>
    BY <2>1, PathnamesAre DEF HostPath
  <2>2. CASE loc # <<>>
    <3>1. Empty \o loc \in Pathnames
      BY <2>2, EmptyIs, LongerIs
    <3> QED BY <2>2, <3>1 DEF HostPath, Empty
  <2> QED BY <2>1, <2>2
<1>5. SubSeq(cwd, 1, Len(cwd) - up) \in Seq(Parts)
  <2>1. 1 \in Int /\ Len(cwd) - up \in Int /\ \A i \in 1..(Len(cwd) - up) : i \in 1..Len(cwd)
    BY <1>3
  <2>2. \A i \in 1..(Len(cwd) - up) : cwd[i] \in Parts
    BY <1>3, <2>1
  <2> QED BY <2>1, <2>2, SubSeqProperties
<1>6. SubSeq(r.out, r.nup + 1, Len(r.out)) \in Seq(Parts)
  <2>1. r.nup + 1 \in Int /\ Len(r.out) \in Int
        /\ \A i \in (r.nup + 1)..Len(r.out) : i \in 1..Len(r.out)
    BY <1>3
  <2>2. \A i \in (r.nup + 1)..Len(r.out) : r.out[i] \in Parts
    BY <1>3, <2>1
  <2> QED BY <2>1, <2>2, SubSeqProperties
<1>7. SubSeq(cwd, 1, Len(cwd) - up) \o SubSeq(r.out, r.nup + 1, Len(r.out)) \in Seq(Parts)
  BY <1>5, <1>6, ConcatProperties
<1>8. Empty \o HostPath(r.out) \in Pathnames
  BY <1>3, <1>4, EmptyIs, LongerIs, PathnamesAre
<1>9. RealpathResult(cwd, path, r) \in Pathnames
  BY <1>3, <1>4, <1>7, <1>8 DEF RealpathResult, up
<1> QED BY <1>1, <1>9 DEF r

(***************************************************************************)
(* What a wrapper gives the kernel is a path, and not an empty one.        *)
(***************************************************************************)
LEMMA ResolutionIs ==
    ASSUME NEW fs, IsTree(fs), NEW cwd \in Seq(FileNames), NEW rootdir \in Pathnames,
           NEW dir \in Roots, NEW path \in Pathnames, NEW follow, NEW prflags
    PROVE  path_resolution2(fs, cwd, rootdir, dir, path, follow, prflags) \in Pathnames
<1> DEFINE root == IF InJail(rootdir) THEN rootdir ELSE Empty
           Realpath(p, follows) == IF follows THEN __realpathat(fs, cwd, rootdir, p, follow) ELSE p
           clean == __path_sanitize(JoinPath(root, dir, path))
           kept  == StripIgnored(rootdir, root,
                        KeepInRoot(root, dir, path, Realpath(clean, follow)), prflags)
<1>1. root \in Roots
  BY DEF Roots
<1>2. ASSUME NEW p \in Pathnames, NEW follows PROVE Realpath(p, follows) \in Pathnames
  BY RealpathIs
<1>3. path_resolution2(fs, cwd, rootdir, dir, path, follow, prflags)
         \in {Slash, path, Realpath(kept, NOWALKALONG \notin prflags)}
  BY DEF path_resolution2, Sanitized
<1> HIDE DEF Realpath, root
<1>4. clean \in Pathnames
  <2>1. JoinPath(root, dir, path) \in Pathnames
    BY <1>1, JoinIs
  <2> QED BY <2>1, SanitizeIs
<1> HIDE DEF clean
<1>5. kept \in Pathnames
  <2>1. Realpath(clean, follow) \in Pathnames
    BY <1>2, <1>4
  <2> QED BY <1>1, <2>1, KeepIs
<1> HIDE DEF kept
<1> QED BY <1>2, <1>3, <1>5, PathnamesAre

(***************************************************************************)
(* A location cut in two: the directory walked to and the names to walk.   *)
(***************************************************************************)
Begin(loc, k) == SubSeq(loc, 1, k)
Rest(loc, k)  == SubSeq(loc, k + 1, Len(loc))

LEMMA CutIs ==
    ASSUME NEW S, NEW loc \in Seq(S), NEW k \in 0..Len(loc)
    PROVE  /\ Begin(loc, k) \in Seq(S) /\ Len(Begin(loc, k)) = k
           /\ \A i \in 1..k : Begin(loc, k)[i] = loc[i]
           /\ Rest(loc, k) \in Seq(S) /\ Len(Rest(loc, k)) = Len(loc) - k
           /\ \A i \in 1..(Len(loc) - k) : Rest(loc, k)[i] = loc[k + i]
<1>1. Len(loc) \in Nat /\ k \in Nat /\ k <= Len(loc)
  OBVIOUS
<1>2. /\ 1 \in 1..(Len(loc) + 1) /\ k + 1 \in 1..(Len(loc) + 1) /\ Len(loc) \in 0..Len(loc)
      /\ k - 1 + 1 = k /\ Len(loc) - (k + 1) + 1 = Len(loc) - k
  BY <1>1
<1>3. \A m \in 1..(Len(loc) + 1), n \in 0..Len(loc) :
         /\ SubSeq(loc, m, n) \in Seq(S)
         /\ Len(SubSeq(loc, m, n)) = IF m <= n THEN n - m + 1 ELSE 0
         /\ \A i \in 1..(n - m + 1) : SubSeq(loc, m, n)[i] = loc[m + i - 1]
  BY SubSeqIs
<1>4. Begin(loc, k) \in Seq(S) /\ Rest(loc, k) \in Seq(S)
  BY <1>2, <1>3 DEF Begin, Rest
<1>5. Len(Begin(loc, k)) = k
  <2>1. Len(Begin(loc, k)) = IF 1 <= k THEN k - 1 + 1 ELSE 0
    BY <1>2, <1>3 DEF Begin
  <2> QED BY <1>1, <2>1
<1>6. Len(Rest(loc, k)) = Len(loc) - k
  <2>1. Len(Rest(loc, k)) = IF k + 1 <= Len(loc) THEN Len(loc) - (k + 1) + 1 ELSE 0
    BY <1>2, <1>3 DEF Rest
  <2> QED BY <1>1, <2>1
<1>7. \A i \in 1..k : Begin(loc, k)[i] = loc[i]
  <2> SUFFICES ASSUME NEW i \in 1..k PROVE Begin(loc, k)[i] = loc[i]
    OBVIOUS
  <2>1. i \in 1..(k - 1 + 1) /\ 1 + i - 1 = i
    BY <1>1
  <2>2. Begin(loc, k)[i] = loc[1 + i - 1]
    BY <1>2, <1>3, <2>1 DEF Begin
  <2> QED BY <2>1, <2>2
<1>8. \A i \in 1..(Len(loc) - k) : Rest(loc, k)[i] = loc[k + i]
  <2> SUFFICES ASSUME NEW i \in 1..(Len(loc) - k) PROVE Rest(loc, k)[i] = loc[k + i]
    OBVIOUS
  <2>1. i \in 1..(Len(loc) - (k + 1) + 1) /\ (k + 1) + i - 1 = k + i
    BY <1>1
  <2>2. Rest(loc, k)[i] = loc[(k + 1) + i - 1]
    BY <1>2, <1>3, <2>1 DEF Rest
  <2> QED BY <2>1, <2>2
<1> QED BY <1>4, <1>5, <1>6, <1>7, <1>8

LEMMA CutEnds ==
    ASSUME NEW S, NEW loc \in Seq(S)
    PROVE  /\ Begin(loc, 0) = <<>> /\ Rest(loc, 0) = loc
           /\ Begin(loc, Len(loc)) = loc /\ Rest(loc, Len(loc)) = <<>>
           /\ \A k \in 0..Len(loc) : Rest(loc, k) = <<>> <=> k = Len(loc)
<1>1. Len(loc) \in Nat /\ 0 \in 0..Len(loc) /\ Len(loc) \in 0..Len(loc)
      /\ Len(loc) - 0 = Len(loc) /\ Len(loc) - Len(loc) = 0
  OBVIOUS
<1>2. \A s \in Seq(S) : Len(s) = 0 <=> s = <<>>
  <2>1. Len(<<>>) = 0
    OBVIOUS
  <2> QED BY <2>1, EmptySeq
<1>3. Begin(loc, 0) = <<>> /\ Rest(loc, Len(loc)) = <<>>
  BY <1>1, <1>2, CutIs
<1>4. Begin(loc, Len(loc)) = loc
  <2>1. \A i \in 1..Len(loc) : Begin(loc, Len(loc))[i] = loc[i]
    BY <1>1, CutIs
  <2>2. Begin(loc, Len(loc)) \in Seq(S) /\ Len(Begin(loc, Len(loc))) = Len(loc)
    BY <1>1, CutIs
  <2> QED BY <2>1, <2>2, SeqEqual
<1>5. Rest(loc, 0) = loc
  <2>1. Rest(loc, 0) \in Seq(S) /\ Len(Rest(loc, 0)) = Len(loc)
    BY <1>1, CutIs
  <2>2. \A i \in 1..Len(loc) : Rest(loc, 0)[i] = loc[i]
    <3>1. \A i \in 1..(Len(loc) - 0) : Rest(loc, 0)[i] = loc[0 + i]
      BY <1>1, CutIs
    <3>2. \A i \in 1..Len(loc) : 0 + i = i
      BY <1>1
    <3> QED BY <1>1, <3>1, <3>2
  <2> QED BY <2>1, <2>2, SeqEqual
<1>6. ASSUME NEW k \in 0..Len(loc) PROVE Rest(loc, k) = <<>> <=> k = Len(loc)
  <2>1. Rest(loc, k) \in Seq(S) /\ Len(Rest(loc, k)) = Len(loc) - k
    BY CutIs
  <2>2. Len(loc) - k = 0 <=> k = Len(loc)
    BY <1>1
  <2> QED BY <1>2, <2>1, <2>2
<1> QED BY <1>3, <1>4, <1>5, <1>6

LEMMA CutSteps ==
    ASSUME NEW S, NEW loc \in Seq(S), NEW k \in 0..Len(loc), k # Len(loc)
    PROVE  /\ k + 1 \in 0..Len(loc) /\ loc[k + 1] \in S
           /\ Rest(loc, k) # <<>> /\ Head(Rest(loc, k)) = loc[k + 1]
           /\ Tail(Rest(loc, k)) = Rest(loc, k + 1)
           /\ Append(Begin(loc, k), loc[k + 1]) = Begin(loc, k + 1)
           /\ Parent(Begin(loc, k + 1)) = Begin(loc, k)
<1>1. Len(loc) \in Nat /\ k \in Nat /\ k + 1 <= Len(loc) /\ k + 1 \in 0..Len(loc)
      /\ k + 1 \in 1..Len(loc) /\ (k + 1) - 1 = k /\ Len(loc) - k \in Nat /\ 1 <= Len(loc) - k
  OBVIOUS
<1>2. loc[k + 1] \in S
  BY <1>1
<1> DEFINE r == Rest(loc, k)
           t == Rest(loc, k + 1)
           b == Begin(loc, k)
           c == Begin(loc, k + 1)
<1>3. /\ b \in Seq(S) /\ Len(b) = k /\ \A i \in 1..k : b[i] = loc[i]
      /\ r \in Seq(S) /\ Len(r) = Len(loc) - k
      /\ \A i \in 1..(Len(loc) - k) : r[i] = loc[k + i]
  BY CutIs
<1>4. /\ c \in Seq(S) /\ Len(c) = k + 1 /\ \A i \in 1..(k + 1) : c[i] = loc[i]
      /\ t \in Seq(S) /\ Len(t) = Len(loc) - (k + 1)
      /\ \A i \in 1..(Len(loc) - (k + 1)) : t[i] = loc[(k + 1) + i]
  <2>1. \A j \in 0..Len(loc) :
           /\ Begin(loc, j) \in Seq(S) /\ Len(Begin(loc, j)) = j
           /\ \A i \in 1..j : Begin(loc, j)[i] = loc[i]
           /\ Rest(loc, j) \in Seq(S) /\ Len(Rest(loc, j)) = Len(loc) - j
           /\ \A i \in 1..(Len(loc) - j) : Rest(loc, j)[i] = loc[j + i]
    BY CutIs
  <2> QED BY <1>1, <2>1
<1>5. r # <<>>
  BY CutEnds
<1> HIDE DEF r, t, b, c
<1>6. Head(r) = loc[k + 1]
  <2>1. 1 \in 1..(Len(loc) - k)
    BY <1>1
  <2> QED BY <1>3, <2>1
<1>7. Tail(r) = t
  <2>1. Tail(r) \in Seq(S) /\ Len(Tail(r)) = Len(r) - 1
        /\ \A i \in 1..Len(Tail(r)) : Tail(r)[i] = r[i + 1]
    BY <1>3, <1>5, HeadTailProperties
  <2>2. Len(Tail(r)) = Len(loc) - (k + 1) /\ Len(Tail(r)) = Len(t)
    BY <1>1, <1>3, <1>4, <2>1
  <2>3. ASSUME NEW i \in 1..Len(Tail(r)) PROVE Tail(r)[i] = t[i]
    <3>1. i \in 1..(Len(loc) - (k + 1))
      BY <2>2
    <3>2. i + 1 \in 1..(Len(loc) - k) /\ k + (i + 1) = (k + 1) + i
      BY <1>1, <3>1
    <3> QED BY <1>3, <1>4, <2>1, <3>1, <3>2
  <2> QED BY <1>4, <2>1, <2>2, <2>3, SeqEqual
<1>8. Append(b, loc[k + 1]) = c
  <2> DEFINE a == Append(b, loc[k + 1])
  <2>1. /\ a \in Seq(S) /\ Len(a) = k + 1
        /\ \A i \in 1..k : a[i] = b[i]
        /\ a[k + 1] = loc[k + 1]
    BY <1>2, <1>3, AppendProperties
  <2> HIDE DEF a
  <2>2. ASSUME NEW i \in 1..(k + 1) PROVE a[i] = c[i]
    <3>1. i \in 1..k \/ i = k + 1
      BY <1>1
    <3>2. c[i] = loc[i]
      BY <1>4
    <3> QED BY <1>3, <2>1, <3>1, <3>2
  <2>3. a = c
    BY <1>4, <2>1, <2>2, SeqEqual
  <2> QED BY <2>3 DEF a
<1>9. Parent(c) = b
  <2> DEFINE p == SubSeq(c, 1, k)
  <2>1. c # <<>>
    <3>1. Len(<<>>) = 0 /\ k + 1 # 0
      BY <1>1
    <3> QED BY <1>4, <3>1
  <2>2. Parent(c) = p
    BY <1>1, <1>4, <2>1 DEF Parent
  <2>3. p = Begin(c, k) /\ k \in 0..Len(c)
    BY <1>1, <1>4 DEF Begin
  <2>4. p \in Seq(S) /\ Len(p) = k /\ \A i \in 1..k : p[i] = c[i]
    BY <1>4, <2>3, CutIs
  <2> HIDE DEF p
  <2>5. \A i \in 1..k : i \in 1..(k + 1)
    BY <1>1
  <2>6. \A i \in 1..k : p[i] = b[i]
    BY <1>3, <1>4, <2>4, <2>5
  <2> QED BY <1>3, <2>2, <2>4, <2>6, SeqEqual
<1> QED BY <1>1, <1>2, <1>5, <1>6, <1>7, <1>8, <1>9 DEF r, t, b, c


(***************************************************************************)
(* The path a location has leads to it: each name on the way is that of a  *)
(* directory.                                                              *)
(***************************************************************************)
LEMMA OnTheWay ==
    ASSUME NEW fs, IsTree(fs), NEW loc \in DOMAIN fs, NEW k \in 0..Len(loc)
    PROVE  Exists(fs, Begin(loc, k)) /\ (k # Len(loc) => IsDir(fs, Begin(loc, k)))
<1>1. loc \in Seq(FileNames)
  BY DEF IsTree
<1>2. Len(loc) \in Nat
  BY <1>1
<1> DEFINE Good(j) == Exists(fs, Begin(loc, j)) /\ (j # Len(loc) => IsDir(fs, Begin(loc, j)))
           T == {d \in Nat : d <= Len(loc) => Good(Len(loc) - d)}
<1>3. 0 \in T
  <2>1. Good(Len(loc))
    BY <1>1, CutEnds DEF Exists
  <2>2. Len(loc) - 0 = Len(loc)
    BY <1>2
  <2> QED BY <2>1, <2>2
<1>4. ASSUME NEW d \in Nat, d \in T PROVE d + 1 \in T
  <2> SUFFICES ASSUME d + 1 <= Len(loc) PROVE Good(Len(loc) - (d + 1))
    OBVIOUS
  <2> DEFINE j == Len(loc) - (d + 1)
  <2>1. j \in 0..Len(loc) /\ j # Len(loc) /\ j + 1 = Len(loc) - d /\ d <= Len(loc)
    <3> HIDE DEF T
    <3> QED BY <1>2
  <2>2. Good(j + 1)
    BY <1>4, <2>1
  <2> HIDE DEF j, T
  <2>3. Parent(Begin(loc, j + 1)) = Begin(loc, j)
    BY <1>1, <2>1, CutSteps
  <2>4. IsDir(fs, Begin(loc, j))
    BY <2>2, <2>3 DEF Exists, IsTree
  <2>5. Good(j)
    BY <2>4 DEF IsDir
  <2> QED BY <2>5 DEF j
<1> HIDE DEF T
<1>5. Nat \subseteq T
  BY <1>3, <1>4, Induction
<1>6. Len(loc) - k \in Nat /\ Len(loc) - k <= Len(loc) /\ Len(loc) - (Len(loc) - k) = k
  BY <1>2
<1>7. Good(Len(loc) - (Len(loc) - k))
  BY <1>5, <1>6 DEF T
<1> QED BY <1>6, <1>7

LEMMA SlashParts ==
    /\ IsAbsolute(Slash) /\ Head(Slash) = "" /\ Tail(Slash) = Empty
    /\ Empty[1] = "" /\ Head(Empty) = "" /\ Tail(Empty) = <<>>
<1>1. \A x : /\ Head(<<x>>) = x /\ Tail(<<x>>) = <<>> /\ <<x>>[1] = x
             /\ Head(<<x, x>>) = x /\ Tail(<<x, x>>) = <<x>> /\ <<x, x>>[1] = x
             /\ Len(<<x, x>>) = 2
  OBVIOUS
<1>2. 2 > 1
  OBVIOUS
<1> QED BY <1>1, <1>2 DEF Slash, Empty, IsAbsolute

LEMMA HostPathParts ==
    ASSUME NEW loc \in Seq(FileNames)
    PROVE  /\ HostPath(loc) \in Pathnames /\ IsAbsolute(HostPath(loc))
           /\ Head(HostPath(loc)) = ""
           /\ Tail(HostPath(loc)) = IF loc = <<>> THEN Empty ELSE loc
           /\ HostPath(loc) = Slash <=> loc = <<>>
<1>1. HostPath(loc) \in Pathnames /\ Location(HostPath(loc)) = loc
  BY HostPathIs
<1>2. CASE loc = <<>>
  BY <1>1, <1>2, SlashParts DEF HostPath
<1>3. CASE loc # <<>>
  <2>1. HostPath(loc) # Slash
    BY <1>1, <1>3 DEF Location
  <2>2. Tail(HostPath(loc)) = loc
    BY <1>1, <2>1 DEF Location
  <2>3. HostPath(loc) = Empty \o loc
    BY <1>3 DEF HostPath, Empty
  <2>4. loc \in Seq(Parts) /\ Len(loc) \in Nat \ {0} /\ Empty \in Seq(Parts) /\ Len(Empty) = 1
    BY <1>3, EmptySeq, EmptyIs, PartsAre, SeqMonotonic
  <2>5. /\ Len(Empty \o loc) = 1 + Len(loc)
        /\ \A i \in 1..(1 + Len(loc)) : (Empty \o loc)[i] = IF i <= 1 THEN Empty[i] ELSE loc[i - 1]
    BY <2>4, ConcatProperties, SMTT(30)
  <2>6. 1 \in 1..(1 + Len(loc)) /\ 1 + Len(loc) > 1
    BY <2>4
  <2>7. (Empty \o loc)[1] = ""
    <3>1. (Empty \o loc)[1] = IF 1 <= 1 THEN Empty[1] ELSE loc[1 - 1]
      BY <2>5, <2>6
    <3>2. 1 <= 1
      OBVIOUS
    <3> QED BY <3>1, <3>2, SlashParts
  <2> DEFINE s == Empty \o loc
  <2>8. IsAbsolute(s)
    BY <2>5, <2>6, <2>7 DEF IsAbsolute
  <2>9. Head(s) = ""
    <3>1. s \in Seq(Parts) /\ s # <<>>
      BY <1>1, <2>3, PathnamesAre
    <3> HIDE DEF s
    <3>2. Head(s) = s[1]
      BY <3>1
    <3> QED BY <2>7, <3>2 DEF s
  <2> QED BY <1>1, <1>3, <2>1, <2>2, <2>3, <2>8, <2>9
<1> QED BY <1>2, <1>3

LEMMA CanonicalLookup ==
    ASSUME NEW fs, IsTree(fs), NEW loc \in DOMAIN fs, NEW cwd \in Seq(FileNames),
           NEW follow, follow => ~IsLink(fs, loc)
    PROVE  LET l == Lookup(fs, <<>>, cwd, HostPath(loc), follow)
           IN  l \in Final /\ Ended(l) /\ l.at = loc
<1>1. loc \in Seq(FileNames) /\ <<>> \in Seq(FileNames)
  BY DEF IsTree
<1>2. /\ HostPath(loc) \in Pathnames /\ IsAbsolute(HostPath(loc))
      /\ Head(HostPath(loc)) = ""
      /\ Tail(HostPath(loc)) = IF loc = <<>> THEN Empty ELSE loc
  BY <1>1, HostPathParts
<1>3. HostPath(loc) \in Seq(Parts) /\ HostPath(loc) # Empty /\ HostPath(loc) # <<>>
  BY <1>2, PathnamesAre
<1> DEFINE Walked(l) == \E k \in 0..Len(loc) : l.at = Begin(loc, k) /\ l.todo = Rest(loc, k)
           Before(l) == l.at = <<>> /\ (l.todo = HostPath(loc) \/ (loc = <<>> /\ l.todo = Empty))
           I == {l \in Lookups : l.err = "" /\ (Walked(l) \/ Before(l))}
<1>4. LookupStart(<<>>, cwd, HostPath(loc)) \in I
  <2>1. LookupStart(<<>>, cwd, HostPath(loc)) \in Lookups
    BY <1>1, <1>3, LookupTyped
  <2>2. LET l == LookupStart(<<>>, cwd, HostPath(loc)) IN l.err = "" /\ Before(l)
    BY <1>2, <1>3 DEF LookupStart
  <2> HIDE DEF Walked, Before
  <2> QED BY <2>1, <2>2
<1>5. Len(loc) \in Nat /\ 0 \in 0..Len(loc) /\ Begin(loc, 0) = <<>> /\ Rest(loc, 0) = loc
      /\ Begin(loc, Len(loc)) = loc
  BY <1>1, CutEnds
<1>6. IsDir(fs, <<>>)
  <2>1. CASE loc = <<>>
    BY <2>1 DEF IsTree, Parent
  <2>2. CASE loc # <<>>
    BY <1>1, <1>5, <2>2, EmptySeq, OnTheWay
  <2> QED BY <2>1, <2>2
<1>7. ASSUME NEW l \in I, l \notin Final PROVE LookupStep(fs, <<>>, follow, l) \in I
  <2> DEFINE m == LookupStep(fs, <<>>, follow, l)
             part == Head(l.todo)
             rest == Tail(l.todo)
             next == Append(l.at, part)
  <2> SUFFICES m \in I
    OBVIOUS
  <2>1. m \in Lookups
    BY <1>1, <1>7, LookupStepIs
  <2>2. /\ l = [at |-> l.at, todo |-> l.todo, links |-> l.links,
                clamped |-> l.clamped, err |-> l.err]
        /\ l.todo # <<>> /\ l.err = "" /\ (Walked(l) \/ Before(l))
    <3> HIDE DEF Walked, Before
    <3> QED BY <1>7 DEF Lookups, Final
  <2> HIDE DEF part, rest, next
  <2>3. CASE Before(l)
    <3>1. part = "" /\ IsDir(fs, l.at)
      BY <1>2, <1>6, <2>3, SlashParts DEF part
    <3>2. m = [l EXCEPT !.todo = rest]
      BY <3>1 DEF LookupStep, part, rest, IsDir
    <3> HIDE DEF m
    <3>3. m.at = <<>> /\ m.todo = rest /\ m.err = ""
      BY <2>2, <2>3, <3>2
    <3>4. CASE loc # <<>>
      <4>1. m.at = Begin(loc, 0) /\ m.todo = Rest(loc, 0)
        BY <1>2, <1>5, <2>3, <3>3, <3>4 DEF rest
      <4>2. Walked(m)
        BY <1>5, <4>1
      <4> HIDE DEF Walked, Before
      <4> QED BY <2>1, <3>3, <4>2
    <3>5. CASE loc = <<>> /\ l.todo = Empty
      <4>1. rest = <<>>
        BY <3>5, SlashParts DEF rest
      <4>2. Walked(m)
        BY <1>5, <3>3, <3>5, <4>1
      <4> HIDE DEF Walked, Before
      <4> QED BY <2>1, <3>3, <4>2
    <3>6. CASE loc = <<>> /\ l.todo = HostPath(loc)
      <4>1. Before(m)
        BY <1>2, <3>3, <3>6 DEF rest
      <4> HIDE DEF Walked, Before
      <4> QED BY <2>1, <3>3, <4>1
    <3> QED BY <2>3, <3>4, <3>5, <3>6
  <2>4. CASE Walked(l)
    <3>1. PICK k \in 0..Len(loc) : l.at = Begin(loc, k) /\ l.todo = Rest(loc, k)
      BY <2>4
    <3>2. k # Len(loc)
      BY <1>1, <2>2, <3>1, CutEnds
    <3>3. k + 1 \in 0..Len(loc) /\ part = loc[k + 1] /\ part \in FileNames
          /\ rest = Rest(loc, k + 1) /\ next = Begin(loc, k + 1)
      <4>1. /\ k + 1 \in 0..Len(loc) /\ loc[k + 1] \in FileNames
            /\ Head(Rest(loc, k)) = loc[k + 1] /\ Tail(Rest(loc, k)) = Rest(loc, k + 1)
            /\ Append(Begin(loc, k), loc[k + 1]) = Begin(loc, k + 1)
        BY <1>1, <3>2, CutSteps
      <4> QED BY <3>1, <4>1 DEF part, rest, next
    <3>4. IsDir(fs, l.at) /\ Exists(fs, next) /\ (k + 1 # Len(loc) => IsDir(fs, next))
      BY <3>1, <3>2, <3>3, OnTheWay
    <3>5. ~(IsLink(fs, next) /\ (follow \/ rest # <<>>))
      <4>1. CASE k + 1 # Len(loc)
        BY <3>4, <4>1 DEF IsLink, IsDir
      <4>2. CASE k + 1 = Len(loc)
        <5>1. next = loc /\ rest = <<>>
          BY <1>1, <1>5, <3>3, <4>2, CutEnds
        <5> QED BY <5>1
      <4> QED BY <4>1, <4>2
    <3>6. part \notin {"", Dot, DotDot}
      BY <3>3, PartsAre
    <3>7. m = [l EXCEPT !.at = next, !.todo = rest]
      BY <3>4, <3>5, <3>6 DEF LookupStep, part, rest, next, IsDir
    <3> HIDE DEF m
    <3>8. m.err = "" /\ m.at = Begin(loc, k + 1) /\ m.todo = Rest(loc, k + 1)
      BY <2>2, <3>3, <3>7
    <3>9. Walked(m)
      BY <3>3, <3>8
    <3> HIDE DEF Walked, Before
    <3> QED BY <2>1, <3>8, <3>9
  <2> HIDE DEF I
  <2> QED BY <2>2, <2>3, <2>4
<1>8. ASSUME NEW l \in I, l \in Final PROVE Ended(l) /\ l.at = loc
  <2>1. l.todo = <<>> /\ l.err = "" /\ l \in Lookups
    <3> HIDE DEF Walked, Before
    <3> QED BY <1>8 DEF Final
  <2>2. Walked(l)
    <3>1. l.todo # HostPath(loc) /\ l.todo # Empty
      BY <1>3, <2>1, EmptyIs
    <3> QED BY <3>1
  <2>3. PICK k \in 0..Len(loc) : l.at = Begin(loc, k) /\ l.todo = Rest(loc, k)
    BY <2>2
  <2>4. k = Len(loc)
    BY <1>1, <2>1, <2>3, CutEnds
  <2> QED BY <1>5, <2>1, <2>3, <2>4 DEF Ended
<1> HIDE DEF I
<1>9. Lookup(fs, <<>>, cwd, HostPath(loc), follow) \in I \cap Final
  <2>1. I \in SUBSET Lookups
    BY DEF I
  <2> QED BY <1>1, <1>4, <1>7, <2>1, LookupKeeps
<1> QED BY <1>8, <1>9


LEMMA Counting ==
    /\ \A n \in Nat : \A j \in 1..(n + 1) : j = 1 \/ 1 \in 1..(j - 1)
    /\ \A n \in Nat : \A j \in 1..(n + 1) : n = 0 => j = 1
    /\ \A n \in Nat : \A j \in 1..(n + 1) : j = 1 \/ j = 2 \/ 2 \in 1..(j - 1)
    /\ \A n \in Nat : n # 0 => 1 # n + 1
    /\ \A n \in Nat : n \in Nat \ {0} => 2 \in 1..(n + 1)
  OBVIOUS

Concat(a, b) == a \o b

LEMMA ConcatThree ==
    \A S : \A a, b, c \in Seq(S) : Concat(Concat(a, b), c) = Concat(a, Concat(b, c))
  BY ConcatAssociative DEF Concat

\* No slash is skipped before a name; all those before the names of a location are.
LEMMA SkipNone ==
    ASSUME NEW stack \in Seq(Parts), stack = <<>> \/ stack[1] # ""
    PROVE  SkipSlashes(stack) = stack
<1>1. PICK n \in 1..(Len(stack) + 1) :
              /\ n = Len(stack) + 1 \/ stack[n] # ""
              /\ \A m \in 1..(n - 1) : stack[m] = ""
              /\ SkipSlashes(stack) = SubSeq(stack, n, Len(stack))
  BY SkipSlashesIs
<1>2. Len(stack) \in Nat /\ SubSeq(stack, 1, Len(stack)) = stack /\ Len(<<>>) = 0
  <2>1. SubSeq(stack, 1, Len(stack)) = stack
    BY SubSeqFull
  <2>2. Len(<<>>) = 0
    OBVIOUS
  <2> QED BY <2>1, <2>2, LenProperties
<1>3. n = 1
  <2>1. CASE stack = <<>>
    <3>1. Len(stack) = 0
      BY <1>2, <2>1
    <3> QED BY <1>2, <3>1, Counting
  <2>2. CASE stack # <<>>
    <3> SUFFICES ASSUME n # 1 PROVE FALSE
      OBVIOUS
    <3>1. 1 \in 1..(n - 1)
      BY <1>2, Counting
    <3> QED BY <1>1, <2>2, <3>1
  <2> QED BY <2>1, <2>2
<1> QED BY <1>1, <1>2, <1>3

LEMMA SkipFirst ==
    ASSUME NEW loc \in Seq(FileNames)
    PROVE  SkipSlashes(HostPath(loc)) = loc
<1> DEFINE s == HostPath(loc)
<1>1. /\ s \in Pathnames /\ IsAbsolute(s) /\ Tail(s) = (IF loc = <<>> THEN Empty ELSE loc)
      /\ s = Slash <=> loc = <<>>
  BY HostPathParts
<1>2. s \in Seq(Parts) /\ s # <<>> /\ Len(s) \in Nat /\ s[1] = ""
  BY <1>1, AbsoluteIs, PathnamesAre
<1> HIDE DEF s
<1>3. PICK n \in 1..(Len(s) + 1) :
              /\ n = Len(s) + 1 \/ s[n] # ""
              /\ \A m \in 1..(n - 1) : s[m] = ""
              /\ SkipSlashes(s) = SubSeq(s, n, Len(s))
  BY <1>2, SkipSlashesIs
<1>4. CASE loc = <<>>
  <2>1. s = <<"", "">>
    BY <1>1, <1>4 DEF Slash
  <2>2. Len(s) = 2 /\ s[1] = "" /\ s[2] = ""
    <3>1. \A x : Len(<<x, x>>) = 2 /\ <<x, x>>[1] = x /\ <<x, x>>[2] = x
      OBVIOUS
    <3> QED BY <2>1, <3>1
  <2>3. n = 3
    <3>1. \A k \in 1..(2 + 1) : k = 1 \/ k = 2 \/ k = 3
      OBVIOUS
    <3>2. 1 # 2 + 1 /\ 2 # 2 + 1
      OBVIOUS
    <3> QED BY <1>3, <2>2, <3>1, <3>2
  <2>4. SubSeq(s, 3, 2) = <<>>
    BY SubSeqEmpty
  <2> QED BY <1>3, <1>4, <2>2, <2>3, <2>4 DEF s
<1>5. CASE loc # <<>>
  <2>1. Tail(s) = loc /\ Len(Tail(s)) = Len(s) - 1 /\ \A i \in 1..Len(Tail(s)) : Tail(s)[i] = s[i + 1]
    BY <1>1, <1>2, <1>5, HeadTailProperties
  <2>2. Len(loc) \in Nat \ {0}
    BY <1>5, EmptySeq
  <2>3. s[2] # "" /\ 2 \in 1..Len(s)
    <3>1. 1 \in 1..Len(loc) /\ 1 + 1 = 2
      BY <2>2
    <3>2. s[2] = loc[1] /\ loc[1] \in FileNames
      <4>1. loc[1] = s[1 + 1]
        BY <2>1, <3>1
      <4> QED BY <3>1, <4>1
    <3>3. 2 \in 1..Len(s)
      <4>1. Len(s) = Len(loc) + 1
        <5>1. \A m, j \in Nat : m = j - 1 => j = m + 1
          OBVIOUS
        <5>2. Len(loc) = Len(s) - 1 /\ Len(loc) \in Nat
          BY <2>1, <2>2
        <5> QED BY <1>2, <5>1, <5>2
      <4> QED BY <2>2, <4>1, Counting
    <3> QED BY <3>2, <3>3, PartsAre
  <2>4. n = 2
    <3>1. CASE n = 1
      <4>1. n # Len(s) + 1
        <5>1. Len(s) # 0
          BY <1>2, EmptySeq
        <5> QED BY <1>2, <3>1, <5>1, Counting
      <4> QED BY <1>2, <1>3, <3>1, <4>1
    <3>2. CASE n # 1 /\ n # 2
      <4>1. 2 \in 1..(n - 1)
        BY <1>2, <3>2, Counting
      <4> QED BY <1>3, <2>3, <4>1
    <3> QED BY <3>1, <3>2
  <2>5. Tail(s) = SubSeq(s, 2, Len(s))
    BY <1>2, TailIsSubSeq
  <2> QED BY <1>3, <2>1, <2>4, <2>5 DEF s
<1> QED BY <1>4, <1>5

\* What the resolution looks at, of a location it has come to the k-th name of.
LEMMA OutputOfNames ==
    ASSUME NEW loc \in Seq(FileNames), NEW k \in 0..Len(loc), k # Len(loc),
           NEW r, r.abs, ~r.two, r.out = Begin(loc, k)
    PROVE  Output(r, loc[k + 1]) = HostPath(Begin(loc, k + 1))
<1> DEFINE b == Begin(loc, k)
           c == Begin(loc, k + 1)
           part == loc[k + 1]
<1>1. part \in FileNames /\ Append(b, part) = c
  BY CutSteps
<1>2. part # "" /\ b \in Seq(FileNames)
  BY <1>1, CutIs, PartsAre
<1> HIDE DEF b, c, part
<1>3. c = b \o <<part>> /\ c # <<>>
  BY <1>1, <1>2, AppendIsConcat, AppendProperties
<1>4. HostPath(c) = <<"">> \o (b \o <<part>>)
  BY <1>3 DEF HostPath
<1>5. Output(r, part) = (<<"">> \o b) \o <<part>>
  BY <1>2 DEF Output, Lead, Empty, b
<1>6. b \in Seq(Parts) /\ <<part>> \in Seq(Parts) /\ <<"">> \in Seq(Parts)
  <2>1. \A x \in Parts : <<x>> \in Seq(Parts)
    OBVIOUS
  <2> QED BY <1>1, <1>2, <2>1, PartsAre, SeqMonotonic
<1>7. (<<"">> \o b) \o <<part>> = <<"">> \o (b \o <<part>>)
  <2> DEFINE slash == <<"">>
             last == <<part>>
  <2>1. slash \in Seq(Parts) /\ last \in Seq(Parts)
    BY <1>6
  <2> HIDE DEF slash, last
  <2>2. Concat(Concat(slash, b), last) = Concat(slash, Concat(b, last))
    <3>1. \A x, y, z \in Seq(Parts) : Concat(Concat(x, y), z) = Concat(x, Concat(y, z))
      BY ConcatThree
    <3>2. b \in Seq(Parts)
      BY <1>6
    <3> QED BY <2>1, <3>1, <3>2
  <2> QED BY <2>2 DEF Concat, slash, last
<1> QED BY <1>4, <1>5, <1>7 DEF part, c

LEMMA LookAtName ==
    ASSUME NEW fs, IsTree(fs), NEW cwd \in Seq(FileNames), NEW loc \in DOMAIN fs,
           ~IsLink(fs, loc), NotRedirected(fs, loc),
           NEW k \in 0..Len(loc), k # Len(loc)
    PROVE  \A root, r, rest :
              LookAt(fs, cwd, r, root, loc[k + 1], rest, HostPath(Begin(loc, k + 1)))
                 = SkipReadlink(r, loc[k + 1], rest)
<1> TAKE root, r, rest
<1> DEFINE c == Begin(loc, k + 1)
           l == Lookup(fs, <<>>, cwd, HostPath(c), FALSE)
<1>1. loc \in Seq(FileNames)
  BY DEF IsTree
<1>2. k + 1 \in 0..Len(loc)
  BY <1>1, CutSteps
<1>3. Exists(fs, c) /\ (k + 1 # Len(loc) => IsDir(fs, c))
  BY <1>2, OnTheWay
<1>4. ~IsLink(fs, c)
  <2>1. CASE k + 1 # Len(loc)
    BY <1>3, <2>1 DEF IsDir, IsLink
  <2>2. CASE k + 1 = Len(loc)
    BY <1>1, <2>2, CutEnds
  <2> QED BY <2>1, <2>2
<1>5. "redirect" \notin DOMAIN fs[c]
  <2>1. Len(c) = k + 1 /\ k + 1 <= Len(loc)
    <3>1. Len(c) = k + 1
      BY <1>1, <1>2, CutIs
    <3>2. Len(loc) \in Nat
      BY <1>1
    <3> QED BY <1>2, <3>1, <3>2
  <2>2. Below(loc, c)
    BY <2>1 DEF Below, Begin
  <2> QED BY <1>3, <2>2 DEF NotRedirected, Exists
<1> HIDE DEF c
<1>6. Ended(l) /\ l.at = c
  BY <1>3, CanonicalLookup, ZenonT(30) DEF Exists
<1>7. LookAt(fs, cwd, r, root, loc[k + 1], rest, HostPath(c)) =
         Follow(r, root, loc[k + 1], rest,
                RedirectAt(fs, IF Found(fs, l) /\ IsLink(fs, l.at)
                               THEN Lookup(fs, <<>>, cwd, HostPath(c), TRUE) ELSE l),
                LinkAt(fs, l))
  BY DEF LookAt
<1> HIDE DEF l
<1>8. RedirectAt(fs, l) = NoRedirect
  BY <1>5, <1>6 DEF RedirectAt
<1>9. LinkAt(fs, l) = [err |-> "EINVAL"]
  BY <1>3, <1>4, <1>6 DEF LinkAt
<1>10. LookAt(fs, cwd, r, root, loc[k + 1], rest, HostPath(c)) =
          Follow(r, root, loc[k + 1], rest, NoRedirect, [err |-> "EINVAL"])
  BY <1>4, <1>6, <1>7, <1>8, <1>9
<1> QED BY <1>10 DEF Follow, c


LEMMA NothingIsRelative == ~IsAbsolute(<<>>)
<1>1. Len(<<>>) = 0 /\ ~(0 > 1)
  OBVIOUS
<1> QED BY <1>1 DEF IsAbsolute

LEMMA FirstIs ==
    ASSUME NEW S, NEW s \in Seq(S), s # <<>>
    PROVE  s[1] \in S /\ Head(s) = s[1]
<1>1. Len(s) \in Nat \ {0}
  BY EmptySeq
<1>2. 1 \in 1..Len(s)
  BY <1>1
<1> QED BY <1>2

\* One slash, and a name: two slashes are what a location never begins with.
LEMMA NoneLeft ==
    /\ Len(<<>>) = 0 /\ 0 \in 0..0 /\ (\A n : n \in 0..0 => n = 0) /\ (\A i : i \notin 1..0)
    /\ \A S : <<>> \in Seq(S)
  OBVIOUS

LEMMA Lengths == \A S : \A s \in Seq(S) : Len(s) \in Nat
  OBVIOUS

LEMMA LongEnough ==
    \A n \in Nat : n > 2 => n # 0 /\ n > 1 /\ n \in Nat \ {0} /\ 1 \in 1..(n - 1) /\ 1 + 1 = 2
  OBVIOUS

LEMMA DoubledIs ==
    \A s \in Seq(Parts) :
       Doubled(s) => /\ Len(s) > 2 /\ Len(s) > 1 /\ s[1] = "" /\ s[2] = ""
                     /\ s # <<>> /\ Tail(s)[1] = ""
<1> SUFFICES ASSUME NEW s \in Seq(Parts), Doubled(s)
             PROVE  /\ Len(s) > 2 /\ Len(s) > 1 /\ s[1] = "" /\ s[2] = ""
                    /\ s # <<>> /\ Tail(s)[1] = ""
  OBVIOUS
<1>1. Len(s) \in Nat
  BY Lengths
<1>2. Len(s) > 2 /\ s[1] = "" /\ s[2] = ""
  BY Zenon DEF Doubled
<1> DEFINE n == Len(s)
<1>3. n # 0 /\ n > 1 /\ 1 \in 1..(n - 1) /\ 1 + 1 = 2
  <2>1. n \in Nat /\ n > 2
    BY <1>1, <1>2
  <2> HIDE DEF n
  <2> QED BY <2>1, LongEnough
<1>4. s # <<>>
  BY <1>3, NoneLeft
<1>5. Tail(s)[1] = s[1 + 1]
  <2>1. Len(Tail(s)) = n - 1 /\ \A i \in 1..Len(Tail(s)) : Tail(s)[i] = s[i + 1]
    BY <1>4, HeadTailProperties
  <2> HIDE DEF n
  <2> QED BY <1>3, <2>1
<1> QED BY <1>2, <1>3, <1>4, <1>5

LEMMA NotDoubled ==
    \A loc \in Seq(FileNames) : Doubled(HostPath(loc)) = FALSE
<1> SUFFICES ASSUME NEW loc \in Seq(FileNames), Doubled(HostPath(loc)) PROVE FALSE
  BY DEF Doubled
<1> DEFINE path == HostPath(loc)
<1>1. path \in Seq(Parts) /\ Tail(path) = IF loc = <<>> THEN Empty ELSE loc
  BY HostPathParts, PathnamesAre
<1>2. Len(path) > 2 /\ Tail(path)[1] = ""
  BY <1>1, DoubledIs
<1>3. CASE loc = <<>>
  <2>1. path = Slash /\ Len(Slash) = 2
    BY <1>3 DEF HostPath, Slash
  <2>2. \A n : n = 2 => ~(n > 2)
    OBVIOUS
  <2> HIDE DEF path
  <2> QED BY <1>2, <2>1, <2>2
<1>4. CASE loc # <<>>
  <2>1. loc[1] \in FileNames
    BY <1>4, FirstIs
  <2> QED BY <1>1, <1>2, <1>4, <2>1, PartsAre
<1> QED BY <1>3, <1>4

\* What the steps of a resolution keep is true of each of its states.
LEMMA RunKeeps ==
    ASSUME NEW run, NEW fs, NEW cwd, NEW root, NEW path, NEW follow,
           Runs(run, fs, cwd, root, path, follow),
           NEW I, RealpathStart(path) \in I,
           \A r \in I : RealpathStep(fs, cwd, root, follow, r) \in I
    PROVE  run[MaxSteps] \in I
<1> DEFINE T == {n \in Nat : n <= MaxSteps => run[n] \in I}
<1>1. 0 \in T
  BY DEF Runs
<1>2. ASSUME NEW n \in Nat, n \in T PROVE n + 1 \in T
  <2> SUFFICES ASSUME n + 1 <= MaxSteps PROVE run[n + 1] \in I
    OBVIOUS
  <2>1. n + 1 \in 1..MaxSteps /\ (n + 1) - 1 = n /\ n <= MaxSteps
    BY StepsAssumption
  <2>2. run[n] \in I
    BY <1>2, <2>1
  <2>3. run[n + 1] = RealpathStep(fs, cwd, root, follow, run[n])
    BY <2>1 DEF Runs
  <2> QED BY <2>2, <2>3
<1> HIDE DEF T
<1>3. Nat \subseteq T
  BY <1>1, <1>2, Induction
<1> QED BY <1>3, StepsAssumption DEF T

\* The resolution of the path of a location, when k of its names are out.
Halfway(r, loc, k) ==
    /\ r.abs /\ ~r.two /\ r.err = "" /\ r.out = Begin(loc, k) /\ r.stack = Rest(loc, k)
    /\ (k = Len(loc) => ~r.check) /\ (r.done => k = Len(loc))

LEMMA NameStep ==
    ASSUME NEW fs, IsTree(fs), NEW cwd \in Seq(FileNames), NEW loc \in DOMAIN fs,
           ~IsLink(fs, loc), NotRedirected(fs, loc), NEW root, NEW follow,
           NEW k \in 0..Len(loc), k # Len(loc), NEW r \in Resolutions, ~r.done,
           Halfway(r, loc, k)
    PROVE  k + 1 \in 0..Len(loc) /\ Halfway(RealpathStep(fs, cwd, root, follow, r), loc, k + 1)
<1> DEFINE m == RealpathStep(fs, cwd, root, follow, r)
           part == loc[k + 1]
           rest == Rest(loc, k + 1)
<1> SUFFICES k + 1 \in 0..Len(loc) /\ Halfway(m, loc, k + 1)
  OBVIOUS
<1>0. loc \in Seq(FileNames)
  BY DEF IsTree
<1>r. /\ r.abs /\ ~r.two /\ r.err = "" /\ r.out = Begin(loc, k) /\ r.stack = Rest(loc, k)
  BY DEF Halfway
<1>1. /\ k + 1 \in 0..Len(loc) /\ part \in FileNames
      /\ r.stack # <<>> /\ Head(r.stack) = part /\ Tail(r.stack) = rest
      /\ Append(r.out, part) = Begin(loc, k + 1)
  <2>1. /\ k + 1 \in 0..Len(loc) /\ loc[k + 1] \in FileNames
        /\ Rest(loc, k) # <<>> /\ Head(Rest(loc, k)) = loc[k + 1]
        /\ Tail(Rest(loc, k)) = Rest(loc, k + 1)
        /\ Append(Begin(loc, k), loc[k + 1]) = Begin(loc, k + 1)
    <3> HIDE DEF m, part, rest
    <3> QED BY <1>0, CutSteps
  <2> QED BY <1>r, <2>1
<1>2. part # "" /\ part # Dot /\ part # DotDot
  BY <1>1, PartsAre
<1>3. ~IsAbsolute(r.stack) /\ r.stack # Empty
  <2>1. r.stack \in Seq(FileNames)
    BY <1>0, <1>r, CutIs, ZenonT(30)
  <2> HIDE DEF part
  <2>2. r.stack[1] = part
    BY <1>1, <2>1, FirstIs
  <2> QED BY <1>2, <2>2, SlashParts DEF IsAbsolute
<1>4. rest \in Seq(Parts) /\ SkipSlashes(rest) = rest
  <2>1. rest \in Seq(FileNames)
    BY <1>0, <1>1, CutIs
  <2>2. rest = <<>> \/ rest[1] \in FileNames
    BY <2>1, FirstIs
  <2>3. rest \in Seq(Parts)
    BY <2>1, PartsAre, SeqMonotonic
  <2>4. rest = <<>> \/ rest[1] # ""
    BY <2>2, PartsAre
  <2> HIDE DEF rest
  <2> QED BY <2>3, <2>4, SkipNone
<1>5. rest # <<>> <=> k + 1 # Len(loc)
  BY <1>0, <1>1, CutEnds
<1>6. m = RealpathPart(fs, cwd, root, follow, r, part, rest)
  BY <1>r, <1>1, <1>3 DEF RealpathStep
<1>7. LookAt(fs, cwd, r, root, part, rest, Output(r, part)) = SkipReadlink(r, part, rest)
  <2>1. Output(r, part) = HostPath(Begin(loc, k + 1))
    BY <1>0, <1>r, OutputOfNames
  <2>2. \A g, q, x : LookAt(fs, cwd, q, g, loc[k + 1], x, HostPath(Begin(loc, k + 1)))
                       = SkipReadlink(q, loc[k + 1], x)
    <3> HIDE DEF m, part, rest
    <3> QED BY LookAtName
  <2> QED BY <2>1, <2>2
<1> HIDE DEF part, rest
<1>8. m = SkipReadlink(r, part, rest)
  BY <1>2, <1>6, <1>7 DEF RealpathPart
<1>9. m = [r EXCEPT !.check = rest # <<>>, !.stack = rest, !.out = Append(@, part)]
  BY <1>2, <1>4, <1>8 DEF SkipReadlink
<1> HIDE DEF m
<1>10. /\ m.abs /\ ~m.two /\ m.out = Append(r.out, part) /\ m.stack = rest /\ m.err = ""
       /\ ~m.done /\ (m.check <=> rest # <<>>)
  BY <1>r, <1>9 DEF Resolutions
<1> QED BY <1>1, <1>5, <1>10 DEF Halfway, rest

(***************************************************************************)
(* __realpathat() returns the path of a location as it is, be it given     *)
(* enough steps or not.                                                    *)
(***************************************************************************)
LEMMA RealpathCanonical ==
    ASSUME NEW fs, IsTree(fs), NEW cwd \in Seq(FileNames), NEW loc \in DOMAIN fs,
           ~IsLink(fs, loc), NotRedirected(fs, loc), NEW root \in Pathnames, NEW follow
    PROVE  __realpathat(fs, cwd, root, HostPath(loc), follow) = HostPath(loc)
<1> DEFINE path == HostPath(loc)
           Named(r) == \E k \in 0..Len(loc) : Halfway(r, loc, k)
           I == {r \in Resolutions : r.err = "" /\ (r = RealpathStart(path) \/ Named(r))}
<1>1. loc \in Seq(FileNames) /\ path \in Pathnames /\ path \in Seq(Parts)
  BY HostPathIs, PathnamesAre DEF IsTree
<1>2. PICK run : /\ Runs(run, fs, cwd, root, path, follow)
                 /\ __realpathat(fs, cwd, root, path, follow)
                       = RealpathResult(cwd, path, run[MaxSteps])
  BY <1>1, RealpathRuns
<1>3. RealpathStart(path) \in I
  <2>1. RealpathStart(path) \in Resolutions
    BY <1>2, StepsAssumption DEF Runs
  <2>2. RealpathStart(path).err = ""
    BY DEF RealpathStart
  <2> HIDE DEF Named
  <2> QED BY <2>1, <2>2
<1>4. /\ Len(loc) \in Nat /\ 0 \in 0..Len(loc) /\ Begin(loc, 0) = <<>> /\ Rest(loc, 0) = loc
      /\ Begin(loc, Len(loc)) = loc /\ Rest(loc, Len(loc)) = <<>>
  BY <1>1, CutEnds
<1>5. ASSUME NEW r \in I PROVE RealpathStep(fs, cwd, root, follow, r) \in I
  <2> DEFINE m == RealpathStep(fs, cwd, root, follow, r)
  <2> SUFFICES m \in I
    OBVIOUS
  <2>1. r \in Resolutions /\ r.err = "" /\ (r = RealpathStart(path) \/ Named(r))
    <3> HIDE DEF Named
    <3> QED OBVIOUS
  <2>2. m \in Resolutions
    BY <2>1, RealpathStepIs
  <2>3. ASSUME m.err = "", Named(m) PROVE m \in I
    <3> HIDE DEF Named, m
    <3> QED BY <2>2, <2>3
  <2>4. CASE r = RealpathStart(path)
    <3>1. ~r.done /\ IsAbsolute(r.stack) /\ r.stack = path
      BY <1>1, <2>4, HostPathParts DEF RealpathStart
    <3>2. m = [r EXCEPT !.stack = SkipSlashes(path), !.abs = TRUE, !.two = Doubled(path),
                        !.out = <<>>, !.nup = 0, !.check = FALSE]
      BY <2>1, <3>1 DEF RealpathStep
    <3>3. SkipSlashes(path) = loc /\ Doubled(path) = FALSE
      BY <1>1, SkipFirst, NotDoubled
    <3>4. m = [r EXCEPT !.stack = loc, !.abs = TRUE, !.two = FALSE, !.out = <<>>, !.nup = 0,
                        !.check = FALSE]
      BY <3>2, <3>3
    <3> HIDE DEF m
    <3>5. m.abs /\ ~m.two /\ m.out = <<>> /\ m.stack = loc /\ ~m.check /\ ~m.done /\ m.err = ""
      BY <2>1, <3>1, <3>4 DEF Resolutions
    <3>6. Halfway(m, loc, 0)
      BY <1>4, <3>5 DEF Halfway
    <3> QED BY <1>4, <2>3, <3>5, <3>6
  <2>5. CASE Named(r) /\ r.done
    <3>1. m = r
      BY <2>5 DEF RealpathStep
    <3> QED BY <3>1
  <2>6. CASE Named(r) /\ ~r.done
    <3>1. PICK k \in 0..Len(loc) : Halfway(r, loc, k)
      BY <2>6
    <3>2. CASE k = Len(loc)
      <4>1. r.stack = <<>> /\ ~r.check
        BY <1>4, <3>1, <3>2 DEF Halfway
      <4>2. ~IsAbsolute(r.stack)
        BY <4>1, NothingIsRelative
      <4>3. m = [r EXCEPT !.done = TRUE]
        BY <2>1, <2>6, <4>1, <4>2 DEF RealpathStep
      <4> HIDE DEF m
      <4>4. m.abs /\ ~m.two /\ m.out = r.out /\ m.stack = r.stack /\ ~m.check /\ m.err = ""
        BY <2>1, <2>6, <3>1, <4>1, <4>3 DEF Resolutions, Halfway
      <4>5. Halfway(m, loc, k)
        BY <3>1, <3>2, <4>4 DEF Halfway
      <4> QED BY <2>3, <4>4, <4>5
    <3>3. CASE k # Len(loc)
      <4>1. k + 1 \in 0..Len(loc) /\ Halfway(m, loc, k + 1)
        <5> HIDE DEF I, Named, path
        <5> QED BY <2>1, <2>6, <3>1, <3>3, NameStep
      <4> HIDE DEF m
      <4> QED BY <2>3, <4>1 DEF Halfway
    <3> QED BY <3>2, <3>3
  <2> QED BY <2>1, <2>4, <2>5, <2>6
<1> HIDE DEF path
<1>6. run[MaxSteps] \in I
  <2> HIDE DEF I
  <2> QED BY <1>2, <1>3, <1>5, RunKeeps
<1>7. ASSUME NEW r \in I PROVE RealpathResult(cwd, path, r) = path
  <2>1. CASE ~r.done
    BY <2>1 DEF RealpathResult
  <2>2. CASE r.done
    <3>1. r # RealpathStart(path)
      <4>1. ~RealpathStart(path).done
        BY DEF RealpathStart
      <4> HIDE DEF I
      <4> QED BY <2>2, <4>1
    <3>2. Named(r)
      <4> HIDE DEF Named
      <4> QED BY <3>1
    <3>3. r.out = loc /\ ~r.two
      BY <1>4, <2>2, <3>2 DEF Halfway
    <3> QED BY <2>2, <3>2, <3>3 DEF RealpathResult, path, Halfway
  <2> QED BY <2>1, <2>2
<1> HIDE DEF I
<1>8. __realpathat(fs, cwd, root, path, follow) = path
  BY <1>2, <1>6, <1>7
<1> QED BY <1>8 DEF path

-----------------------------------------------------------------------------
(***************************************************************************)
(* __strleq() of iamroot.h holds of a directory and each one below it, if  *)
(* the former is not the root of the host: its path begins the other's.    *)
(***************************************************************************)
LEMMA BelowBegins ==
    ASSUME NEW loc \in Seq(FileNames), NEW dir \in Seq(FileNames),
           dir # <<>>, Below(loc, dir)
    PROVE  __strleq(HostPath(loc), HostPath(dir))
<1> DEFINE s == <<"">> \o loc
           t == <<"">> \o dir
<1>1. Len(dir) \in Nat /\ Len(loc) \in Nat /\ Len(dir) <= Len(loc) /\ Len(dir) >= 1
  BY DEF Below
<1>2. HostPath(loc) = s /\ HostPath(dir) = t
  <2>1. loc # <<>>
    BY <1>1
  <2> QED
    BY <2>1 DEF HostPath
<1>3. Len(s) = Len(loc) + 1 /\ Len(t) = Len(dir) + 1
  OBVIOUS
<1>4. ASSUME NEW i \in 1..Len(dir)
      PROVE  loc[i] = dir[i]
  <2>1. SubSeq(loc, 1, Len(dir))[i] = loc[i]
    BY <1>1
  <2> QED
    BY <2>1 DEF Below
<1>5. ASSUME NEW i \in 1..Len(t)
      PROVE  s[i] = t[i]
  <2>1. CASE i = 1
    BY <2>1, <1>1
  <2>2. CASE i # 1
    <3>1. i - 1 \in 1..Len(dir) /\ i - 1 \in 1..Len(loc)
      BY <2>2, <1>1, <1>3
    <3>2. \A l \in {loc, dir} :
             (<<"">> \o l)[i] = IF i <= Len(<<"">>) THEN <<"">>[i] ELSE l[i - Len(<<"">>)]
      <4> SUFFICES ASSUME NEW l \in {loc, dir}
                   PROVE  (<<"">> \o l)[i] = IF i <= Len(<<"">>) THEN <<"">>[i]
                                             ELSE l[i - Len(<<"">>)]
        OBVIOUS
      <4>1. FileNames \subseteq FileNames \cup {""} /\ l \in Seq(FileNames)
        OBVIOUS
      <4>2. l \in Seq(FileNames \cup {""})
        BY <4>1, SeqMonotonic
      <4>3. <<"">> \in Seq(FileNames \cup {""}) /\ Len(<<"">>) = 1
        OBVIOUS
      <4>4. i \in 1..(Len(<<"">>) + Len(l))
        BY <1>1, <1>3, <4>3, <2>2, <3>1
      <4> QED
        BY <4>2, <4>3, <4>4, ConcatProperties
    <3>3. Len(<<"">>) = 1 /\ ~(i <= 1)
      BY <1>1, <1>3, <2>2
    <3> HIDE DEF s, t
    <3>4. s[i] = loc[i - 1] /\ t[i] = dir[i - 1]
      BY <3>2, <3>3 DEF s, t
    <3> QED
      BY <3>1, <3>4, <1>4
  <2> QED
    BY <2>1, <2>2
<1> HIDE DEF s, t
<1>6. s[Len(t)] = t[Len(t)]
  BY <1>1, <1>3, <1>5
<1>7. \A i \in 1..(Len(t) - 1) : s[i] = t[i]
  BY <1>1, <1>3, <1>5
<1> QED
  BY <1>1, <1>2, <1>3, <1>6, <1>7 DEF __strleq

(***************************************************************************)
(* __path_sanitize() leaves the path of a location, and takes the slash    *)
(* off that JoinPath puts after the root directory for the path "/".       *)
(***************************************************************************)
LEMMA LeadKept ==
    ASSUME NEW path \in Pathnames, IsAbsolute(path)
    PROVE  StripLead(path) = path
<1>0. \A n \in Nat \ {0} : 1 \in 1..n /\ \A j \in 1..n : j = 1 \/ 1 \in 1..(j - 1)
  OBVIOUS
<1> DEFINE Kept(n) == \/ path[n] # Dot
                      \/ n = Len(path)
                      \/ path[n + 1] = ""
                      \/ path[n + 1] = Dot /\ n + 1 = Len(path)
           Is(n) == Kept(n) /\ \A m \in 1..(n - 1) : ~Kept(m)
           first == CHOOSE n \in 1..Len(path) : Is(n)
<1>1. Len(path) \in Nat \ {0} /\ path \in Seq(Parts) /\ path[1] = ""
  BY AbsoluteIs
<1>2. Kept(1)
  BY <1>1 DEF Dot
<1>3. 1 \in 1..Len(path) /\ \A n \in 1..Len(path) : n = 1 \/ 1 \in 1..(n - 1)
  BY <1>0, <1>1
<1>4. StripLead(path) = SubSeq(path, first, Len(path))
  BY DEF StripLead
<1> HIDE DEF Kept
<1>5. Is(1)
  BY <1>2
<1>6. first \in 1..Len(path) /\ Is(first)
  <2> HIDE DEF Is
  <2> QED BY <1>3, <1>5
<1>7. first = 1
  BY <1>2, <1>3, <1>6
<1>8. SubSeq(path, 1, Len(path)) = path
  BY <1>1, SubSeqFull
<1> QED BY <1>4, <1>7, <1>8

\* Of an absolute path, all but the parts at its end is left.
LEMMA TrailCut ==
    ASSUME NEW path \in Pathnames, IsAbsolute(path), NEW part, NEW k \in 2..Len(path),
           k = 2 \/ path[k] # part,
           \A m \in (k + 1)..Len(path) : path[m] = part
    PROVE  StripTrail(path, part) = SubSeq(path, 1, k)
<1> DEFINE Is(n) == /\ n = 2 \/ path[n] # part
                    /\ \A m \in (n + 1)..Len(path) : path[m] = part
           last == CHOOSE n \in 2..Len(path) : Is(n)
<1>1. Len(path) \in Nat
  BY AbsoluteIs
<1>2. StripTrail(path, part) = SubSeq(path, 1, last)
  BY DEF StripTrail
<1>3. Is(k)
  OBVIOUS
<1>4. ASSUME NEW n \in 2..Len(path), Is(n) PROVE n = k
  <2>1. \A i, j \in 2..Len(path) : i < j => j \in (i + 1)..Len(path) /\ j # 2
    BY <1>1
  <2>2. ~(n < k)
    BY <1>3, <1>4, <2>1
  <2>3. ~(k < n)
    BY <1>3, <1>4, <2>1
  <2> HIDE DEF Is
  <2> QED BY <1>1, <2>2, <2>3
<1>5. last \in 2..Len(path) /\ Is(last)
  <2> HIDE DEF Is
  <2> QED BY <1>3
<1>6. last = k
  <2> HIDE DEF Is, last
  <2> QED BY <1>4, <1>5
<1> QED BY <1>2, <1>6

\* The path of a location ends with a name, or is "/".
LEMMA SanitizeKeeps ==
    ASSUME NEW path \in Pathnames, IsAbsolute(path),
           Len(path) = 2 \/ path[Len(path)] \in FileNames
    PROVE  __path_sanitize(path) = path
<1>1. Len(path) \in Nat /\ Len(path) >= 2 /\ path \in Seq(Parts)
  BY AbsoluteIs
<1>2. Len(path) \in 2..Len(path) /\ (Len(path) + 1)..Len(path) = {}
  BY <1>1
<1>3. SubSeq(path, 1, Len(path)) = path
  BY <1>1, SubSeqFull
<1>4. ASSUME NEW part \in {Dot, ""} PROVE StripTrail(path, part) = path
  <2>1. Len(path) = 2 \/ path[Len(path)] # part
    BY PartsAre
  <2>2. \A m \in (Len(path) + 1)..Len(path) : path[m] = part
    BY <1>2
  <2> QED BY <1>2, <1>3, <2>1, <2>2, TrailCut
<1> QED BY <1>4, LeadKept DEF __path_sanitize

LEMMA OneMore ==
    \A n \in Nat : n >= 2 =>
        /\ 1 \in 1..(n + 1) /\ n \in 1..(n + 1) /\ n + 1 \in 1..(n + 1) /\ ~(n + 1 <= n)
        /\ 1 <= n /\ n <= n /\ (n + 1) - n = 1 /\ n + 1 > 1 /\ ((n + 1) + 1)..(n + 1) = {}
        /\ (\A m \in (n + 1)..(n + 1) : m = n + 1) /\ n \in 2..(n + 1) /\ n + 1 \in 2..(n + 1)
        /\ 1 \in 1..((n + 1) + 1) /\ n \in 0..(n + 1) /\ (n - 1) + 1 = n
        /\ \A i \in 1..n : (1 + i) - 1 = i /\ i \in 1..(n + 1) /\ i <= n
  OBVIOUS

LEMMA SanitizeCuts ==
    ASSUME NEW path \in Pathnames, IsAbsolute(path), path[Len(path)] \in FileNames
    PROVE  path \o Empty \in Pathnames /\ __path_sanitize(path \o Empty) = path
<1> DEFINE q == path \o Empty
           n == Len(path)
<1>1. n \in Nat /\ n >= 2 /\ path \in Seq(Parts) /\ path # <<>> /\ path[1] = ""
  BY AbsoluteIs, PathnamesAre
<1>2. q \in Pathnames
  BY <1>1, EmptyIs, LongerIs
<1>3. Len(q) = n + 1 /\ \A i \in 1..(n + 1) : q[i] = IF i <= n THEN path[i] ELSE Empty[i - n]
  <2>1. \A s, t \in Seq(Parts) :
           /\ Len(s \o t) = Len(s) + Len(t)
           /\ \A i \in 1..(Len(s) + Len(t)) :
                 (s \o t)[i] = IF i <= Len(s) THEN s[i] ELSE t[i - Len(s)]
    BY ConcatProperties
  <2> DEFINE e == Empty
  <2>2. e \in Seq(Parts) /\ Len(e) = 1
    BY EmptyIs
  <2>3. q = path \o e
    OBVIOUS
  <2> HIDE DEF e, q
  <2>4. /\ Len(path \o e) = Len(path) + 1
        /\ \A i \in 1..(Len(path) + 1) :
              (path \o e)[i] = IF i <= Len(path) THEN path[i] ELSE e[i - Len(path)]
    BY <1>1, <2>1, <2>2
  <2> QED BY <2>3, <2>4 DEF e
<1> HIDE DEF q, n
<1>4. /\ 1 \in 1..(n + 1) /\ n \in 1..(n + 1) /\ n + 1 \in 1..(n + 1) /\ ~(n + 1 <= n)
      /\ 1 <= n /\ n <= n /\ (n + 1) - n = 1 /\ n + 1 > 1 /\ ((n + 1) + 1)..(n + 1) = {}
      /\ (\A m \in (n + 1)..(n + 1) : m = n + 1) /\ n \in 2..(n + 1) /\ n + 1 \in 2..(n + 1)
      /\ 1 \in 1..((n + 1) + 1) /\ n \in 0..(n + 1) /\ (n - 1) + 1 = n
      /\ \A i \in 1..n : (1 + i) - 1 = i /\ i \in 1..(n + 1) /\ i <= n
  BY <1>1, OneMore
<1>5. q[1] = "" /\ q[n] = path[n] /\ q[n + 1] = ""
  BY <1>1, <1>3, <1>4, SlashParts
<1>6. IsAbsolute(q)
  BY <1>3, <1>4, <1>5 DEF IsAbsolute
<1>7. StripLead(q) = q
  BY <1>2, <1>6, LeadKept
<1>8. StripTrail(q, Dot) = q
  <2>1. q[Len(q)] # Dot
    BY <1>3, <1>5 DEF Dot
  <2>2. \A m \in (Len(q) + 1)..Len(q) : q[m] = Dot
    BY <1>3, <1>4
  <2>3. Len(q) \in 2..Len(q)
    BY <1>3, <1>4
  <2>4. StripTrail(q, Dot) = SubSeq(q, 1, Len(q))
    BY <1>2, <1>6, <2>1, <2>2, <2>3, TrailCut
  <2>5. q \in Seq(Parts)
    BY <1>2, PathnamesAre
  <2> QED BY <2>4, <2>5, SubSeqFull
<1>9. StripTrail(q, "") = SubSeq(q, 1, n)
  <2>1. q[n] # ""
    BY <1>5, PartsAre DEF n
  <2>2. \A m \in (n + 1)..Len(q) : q[m] = ""
    BY <1>3, <1>4, <1>5
  <2>3. n \in 2..Len(q)
    BY <1>3, <1>4
  <2> QED BY <1>2, <1>6, <2>1, <2>2, <2>3, TrailCut
<1>10. SubSeq(q, 1, n) = path
  <2> DEFINE s == SubSeq(q, 1, n)
  <2>0. q \in Seq(Parts) /\ 1 \in 1..(Len(q) + 1) /\ n \in 0..Len(q)
    BY <1>2, <1>3, <1>4, PathnamesAre
  <2>1. /\ s \in Seq(Parts)
        /\ Len(s) = IF 1 <= n THEN n - 1 + 1 ELSE 0
        /\ \A i \in 1..(n - 1 + 1) : s[i] = q[1 + i - 1]
    BY <2>0, SubSeqIs
  <2> HIDE DEF s
  <2>2. Len(s) = n
    BY <1>4, <2>1
  <2>3. ASSUME NEW i \in 1..n PROVE s[i] = path[i]
    <3>1. 1 + i - 1 = i /\ i \in 1..(n + 1) /\ i <= n
      BY <1>4
    <3>2. i \in 1..(n - 1 + 1)
      BY <1>4
    <3>3. s[i] = q[1 + i - 1]
      BY <2>1, <3>2
    <3>4. s[i] = q[i]
      BY <3>1, <3>3
    <3> QED BY <1>3, <3>1, <3>4
  <2>4. s = path
    BY <1>1, <2>1, <2>2, <2>3, SeqEqual DEF n
  <2> QED BY <2>4 DEF s
<1>11. __path_sanitize(q) = path
  BY <1>7, <1>8, <1>9, <1>10 DEF __path_sanitize
<1> QED BY <1>2, <1>11 DEF q

(***************************************************************************)
(* The path of a location, less that of a directory it is below, is the    *)
(* path of the names it has more.                                          *)
(***************************************************************************)
LEMMA HostPathNames ==
    ASSUME NEW loc \in Seq(FileNames), loc # <<>>
    PROVE  /\ HostPath(loc) = Empty \o loc /\ Len(HostPath(loc)) = Len(loc) + 1
           /\ \A i \in 1..Len(loc) : HostPath(loc)[i + 1] = loc[i]
           /\ HostPath(loc)[Len(HostPath(loc))] \in FileNames
<1> DEFINE s == HostPath(loc)
<1>1. s = Empty \o loc
  BY DEF HostPath, Empty
<1>2. Tail(s) = loc /\ s \in Seq(Parts) /\ s # <<>>
  BY HostPathParts, PathnamesAre
<1> HIDE DEF s
<1>3. /\ Len(Tail(s)) = Len(s) - 1 /\ Len(s) \in Nat
      /\ \A i \in 1..Len(Tail(s)) : Tail(s)[i] = s[i + 1]
  BY <1>2, HeadTailProperties
<1>4. Len(loc) \in Nat /\ Len(loc) # 0
  BY EmptySeq
<1>5. \A m, n \in Nat : m = n - 1 => n = m + 1
  OBVIOUS
<1>6. Len(s) = Len(loc) + 1
  BY <1>2, <1>3, <1>4, <1>5
<1>7. \A i \in 1..Len(loc) : s[i + 1] = loc[i]
  BY <1>2, <1>3
<1>8. Len(loc) \in 1..Len(loc)
  BY <1>4
<1>9. s[Len(s)] \in FileNames
  BY <1>6, <1>7, <1>8
<1> QED BY <1>1, <1>6, <1>7, <1>9 DEF s

LEMMA CutJoins ==
    ASSUME NEW S, NEW loc \in Seq(S), NEW k \in 0..Len(loc)
    PROVE  Begin(loc, k) \o Rest(loc, k) = loc
<1> DEFINE a == Begin(loc, k)
           b == Rest(loc, k)
           s == a \o b
<1>1. /\ a \in Seq(S) /\ Len(a) = k /\ \A i \in 1..k : a[i] = loc[i]
      /\ b \in Seq(S) /\ Len(b) = Len(loc) - k
      /\ \A i \in 1..(Len(loc) - k) : b[i] = loc[k + i]
  BY CutIs
<1> HIDE DEF a, b
<1>2. /\ s \in Seq(S) /\ Len(s) = Len(a) + Len(b)
      /\ \A i \in 1..(Len(a) + Len(b)) : s[i] = IF i <= Len(a) THEN a[i] ELSE b[i - Len(a)]
  BY <1>1, ConcatProperties
<1> HIDE DEF s
<1>3. Len(loc) \in Nat /\ k \in Nat /\ k <= Len(loc)
  OBVIOUS
<1>4. \A n, j \in Nat : j <= n =>
         /\ j + (n - j) = n
         /\ \A i \in 1..n : IF i <= j THEN i \in 1..j
                            ELSE i - j \in 1..(n - j) /\ j + (i - j) = i
  OBVIOUS
<1>5. /\ k + (Len(loc) - k) = Len(loc)
      /\ \A i \in 1..Len(loc) : IF i <= k THEN i \in 1..k
                                ELSE i - k \in 1..(Len(loc) - k) /\ k + (i - k) = i
  BY <1>3, <1>4
<1>6. Len(s) = Len(loc) /\ \A i \in 1..Len(loc) : s[i] = IF i <= k THEN a[i] ELSE b[i - k]
  BY <1>1, <1>2, <1>5
<1>7. ASSUME NEW i \in 1..Len(loc) PROVE s[i] = loc[i]
  <2>1. CASE i <= k
    BY <1>1, <1>5, <1>6, <2>1
  <2>2. CASE ~(i <= k)
    <3>1. s[i] = b[i - k] /\ i - k \in 1..(Len(loc) - k) /\ k + (i - k) = i
      BY <1>5, <1>6, <2>2
    <3> QED BY <1>1, <3>1
  <2> QED BY <2>1, <2>2
<1>8. s = loc
  BY <1>2, <1>6, <1>7, SeqEqual
<1> QED BY <1>8 DEF s, a, b

LEMMA AfterBegins ==
    ASSUME NEW loc \in Seq(FileNames), NEW dir \in Seq(FileNames), dir # <<>>, Below(loc, dir)
    PROVE  /\ Len(dir) \in 0..Len(loc) /\ Begin(loc, Len(dir)) = dir
           /\ After(HostPath(loc), HostPath(dir)) = Empty \o Rest(loc, Len(dir))
<1> DEFINE s == HostPath(loc)
           t == HostPath(dir)
           n == Len(dir)
<1>1. n \in Nat \ {0} /\ Len(loc) \in Nat /\ n <= Len(loc) /\ Begin(loc, n) = dir /\ loc # <<>>
  BY EmptySeq DEF Below, Begin
<1>2. n \in 0..Len(loc) /\ n \in 1..Len(loc) /\ n \in 1..n
  BY <1>1
<1>3. Len(t) = n + 1 /\ t[n + 1] = dir[n] /\ dir[n] \in FileNames
  <2>1. \A i \in 1..Len(dir) : t[i + 1] = dir[i]
    BY HostPathNames
  <2>2. Len(t) = Len(dir) + 1
    BY HostPathNames
  <2> QED BY <1>2, <2>1, <2>2
<1>4. s \in Seq(Parts) /\ Tail(s) = loc /\ Len(s) = Len(loc) + 1
      /\ \A i \in 1..Len(loc) : s[i + 1] = loc[i]
  BY <1>1, HostPathNames, HostPathParts, PathnamesAre
<1>5. s[n + 1] = dir[n]
  <2>1. \A i \in 1..n : Begin(loc, n)[i] = loc[i]
    BY <1>2, CutIs
  <2> HIDE DEF n, s
  <2> QED BY <1>1, <1>2, <1>4, <2>1
<1>6. SubSeq(s, (n + 1) + 1, Len(s)) = Rest(loc, n)
  <2> HIDE DEF n, s
  <2> DEFINE u == SubSeq(s, (n + 1) + 1, Len(s))
             v == Rest(loc, n)
  <2>0. \A m, j \in Nat : j <= m =>
           /\ (j + 1) + 1 \in 1..((m + 1) + 1) /\ m + 1 \in 0..(m + 1)
           /\ (IF (j + 1) + 1 <= m + 1 THEN (m + 1) - ((j + 1) + 1) + 1 ELSE 0) = m - j
           /\ (m + 1) - ((j + 1) + 1) + 1 = m - j
           /\ \A i \in 1..(m - j) : (j + 1) + 1 + i - 1 = (j + i) + 1 /\ j + i \in 1..m
    OBVIOUS
  <2>1. /\ (n + 1) + 1 \in 1..(Len(s) + 1) /\ Len(s) \in 0..Len(s)
        /\ (IF (n + 1) + 1 <= Len(s) THEN Len(s) - ((n + 1) + 1) + 1 ELSE 0) = Len(loc) - n
        /\ Len(s) - ((n + 1) + 1) + 1 = Len(loc) - n
        /\ \A i \in 1..(Len(loc) - n) :
              (n + 1) + 1 + i - 1 = (n + i) + 1 /\ n + i \in 1..Len(loc)
    BY <1>1, <1>4, <2>0
  <2>2. /\ u \in Seq(Parts)
        /\ Len(u) = IF (n + 1) + 1 <= Len(s) THEN Len(s) - ((n + 1) + 1) + 1 ELSE 0
        /\ \A i \in 1..(Len(s) - ((n + 1) + 1) + 1) : u[i] = s[(n + 1) + 1 + i - 1]
    <3>1. \A m \in 1..(Len(s) + 1), j \in 0..Len(s) :
              /\ SubSeq(s, m, j) \in Seq(Parts)
              /\ Len(SubSeq(s, m, j)) = IF m <= j THEN j - m + 1 ELSE 0
              /\ \A i \in 1..(j - m + 1) : SubSeq(s, m, j)[i] = s[m + i - 1]
      BY <1>4, SubSeqIs
    <3> QED BY <2>1, <3>1
  <2>3. /\ v \in Seq(FileNames) /\ Len(v) = Len(loc) - n
        /\ \A i \in 1..(Len(loc) - n) : v[i] = loc[n + i]
    BY <1>2, CutIs
  <2>4. v \in Seq(Parts)
    BY <2>3, PartsAre, SeqMonotonic
  <2> HIDE DEF u, v
  <2>5. Len(u) = Len(v)
    BY <2>1, <2>2, <2>3
  <2>6. ASSUME NEW i \in 1..(Len(loc) - n) PROVE u[i] = v[i]
    <3>1. u[i] = s[(n + 1) + 1 + i - 1]
      BY <2>1, <2>2
    <3>2. s[(n + i) + 1] = loc[n + i]
      BY <1>4, <2>1
    <3>3. (n + 1) + 1 + i - 1 = (n + i) + 1
      BY <2>1
    <3>4. v[i] = loc[n + i]
      BY <2>3
    <3> QED BY <3>1, <3>2, <3>3, <3>4
  <2>7. u = v
    BY <2>2, <2>3, <2>4, <2>5, <2>6, SeqEqual
  <2> QED BY <2>7 DEF u, v
<1>7. After(s, t) = <<"">> \o SubSeq(s, (n + 1) + 1, Len(s))
  <2> HIDE DEF s, t, n
  <2>1. t[Len(t)] # "" /\ t[Len(t)] = s[Len(t)]
    BY <1>3, <1>5, PartsAre
  <2> QED BY <1>3, <2>1 DEF After
<1> QED BY <1>1, <1>2, <1>6, <1>7 DEF Empty

\* A location is its root directory and what the program is told of it.
LEMMA StrippedIs ==
    ASSUME NEW loc \in Seq(FileNames), NEW jail \in Seq(FileNames), jail # <<>>, Below(loc, jail)
    PROVE  LET root == HostPath(jail)
               rest == Rest(loc, Len(jail))
           IN  /\ rest \in Seq(FileNames) /\ root # Slash
               /\ __strleq(HostPath(loc), root)
               /\ After(HostPath(loc), root) = Empty \o rest
               /\ __striprootdir(root, HostPath(loc)) = HostPath(rest)
               /\ __path_sanitize(Prepend(root, HostPath(rest))) = HostPath(loc)
<1> DEFINE root == HostPath(jail)
           rest == Rest(loc, Len(jail))
           s == HostPath(loc)
<1>1. /\ Len(jail) \in 0..Len(loc) /\ Begin(loc, Len(jail)) = jail
      /\ After(s, root) = Empty \o rest
  BY AfterBegins
<1>2. __strleq(s, root)
  BY BelowBegins
<1>3. rest \in Seq(FileNames)
  BY <1>1, CutIs
<1>4. /\ root \in Pathnames /\ root # Slash /\ IsAbsolute(root) /\ root = Empty \o jail
      /\ root[Len(root)] \in FileNames /\ root \in Seq(Parts) /\ root # Empty
  BY HostPathParts, HostPathNames, PathnamesAre
<1>5. loc = jail \o rest
  BY <1>1, CutJoins
<1>6. /\ jail \in Seq(Parts) /\ rest \in Seq(Parts) /\ Empty \in Seq(Parts) /\ Len(Empty) = 1
  BY <1>3, EmptyIs, PartsAre, SeqMonotonic
<1> HIDE DEF root, rest, s
<1>7. CASE rest = <<>>
  <2>1. Empty \o rest = Empty /\ HostPath(rest) = Slash /\ jail \o rest = jail
    <3>1. \A t \in Seq(Parts) : t \o <<>> = t
      BY ConcatEmptySeq
    <3> QED BY <1>6, <1>7, <3>1 DEF HostPath
  <2>2. __striprootdir(root, s) = Slash
    BY <1>1, <1>2, <1>4, <2>1 DEF __striprootdir
  <2>3. s = root
    BY <1>5, <2>1 DEF s, root
  <2>4. Prepend(root, Slash) = root \o Empty
    BY <1>4, SlashParts DEF Prepend
  <2>5. __path_sanitize(Prepend(root, Slash)) = root
    BY <1>4, <2>4, SanitizeCuts
  <2>6. __path_sanitize(Prepend(root, HostPath(rest))) = s
    BY <2>1, <2>3, <2>5
  <2> QED BY <1>1, <1>2, <1>3, <1>4, <2>1, <2>2, <2>6 DEF root, rest, s
<1>8. CASE rest # <<>>
  <2>1. HostPath(rest) = Empty \o rest /\ Tail(HostPath(rest)) = rest
    BY <1>3, <1>8, HostPathNames, HostPathParts
  <2>2. Empty \o rest # Empty
    <3>1. \A e, t \in Seq(Parts) : e \o t = e => t = <<>>
      BY ConcatEqualIffEmpty
    <3> DEFINE e == Empty
    <3>2. e \in Seq(Parts)
      BY <1>6
    <3> HIDE DEF e
    <3>3. e \o rest # e
      BY <1>6, <1>8, <3>1, <3>2
    <3> QED BY <3>3 DEF e
  <2>3. __striprootdir(root, s) = HostPath(rest)
    BY <1>1, <1>2, <1>4, <2>1, <2>2 DEF __striprootdir
  <2>4. Prepend(root, HostPath(rest)) = root \o rest
    BY <1>4, <2>1 DEF Prepend
  <2>5. loc # <<>>
    <3>1. \A u, t \in Seq(Parts) : u \o t = <<>> => u = <<>>
      BY ConcatEqualIffEmpty
    <3> QED BY <1>5, <1>6, <3>1
  <2>6. s = Empty \o loc /\ s \in Pathnames /\ IsAbsolute(s) /\ s[Len(s)] \in FileNames
    BY <2>5, HostPathNames, HostPathParts DEF s
  <2>7. root \o rest = s
    <3> DEFINE e == Empty
    <3>1. e \in Seq(Parts) /\ root = Concat(e, jail) /\ s = Concat(e, Concat(jail, rest))
      BY <1>4, <1>5, <1>6, <2>6 DEF Concat
    <3> HIDE DEF e
    <3>2. Concat(Concat(e, jail), rest) = Concat(e, Concat(jail, rest))
      BY <1>6, <3>1, ConcatThree
    <3>3. Concat(root, rest) = s
      BY <3>1, <3>2
    <3> QED BY <3>3 DEF Concat
  <2>8. __path_sanitize(s) = s
    BY <2>6, SanitizeKeeps
  <2>9. __path_sanitize(Prepend(root, HostPath(rest))) = s
    BY <2>4, <2>7, <2>8
  <2> QED BY <1>1, <1>2, <1>3, <1>4, <2>3, <2>9 DEF root, rest, s
<1> QED BY <1>7, <1>8

LEMMA TwiceEmpty == Empty \o Empty = Slash
<1> DEFINE e == Empty
           s == Slash
           t == e \o e
<1>1. e \in Seq(Parts) /\ Len(e) = 1 /\ e[1] = ""
  BY EmptyIs, SlashParts
<1>2. s \in Seq(Parts) /\ Len(s) = 2 /\ s[1] = "" /\ s[2] = ""
  <2>1. \A x : Len(<<x, x>>) = 2 /\ <<x, x>>[1] = x /\ <<x, x>>[2] = x
    OBVIOUS
  <2> QED BY <2>1, PathnamesAre DEF Slash
<1> HIDE DEF e, s
<1>3. /\ t \in Seq(Parts) /\ Len(t) = Len(e) + Len(e)
      /\ \A i \in 1..(Len(e) + Len(e)) : t[i] = IF i <= Len(e) THEN e[i] ELSE e[i - Len(e)]
  BY <1>1, ConcatProperties
<1> HIDE DEF t
<1>4. /\ 1 + 1 = 2 /\ 1 \in 1..2 /\ 2 \in 1..2 /\ 1 <= 1 /\ ~(2 <= 1) /\ 2 - 1 = 1
      /\ \A i \in 1..2 : i = 1 \/ i = 2
  OBVIOUS
<1>5. Len(t) = 2 /\ t[1] = "" /\ t[2] = ""
  BY <1>1, <1>3, <1>4
<1>6. t = s
  BY <1>2, <1>3, <1>4, <1>5, SeqEqual, ZenonT(30)
<1> QED BY <1>6 DEF t, e, s

\* Without a root directory nothing is taken off.
LEMMA UnstrippedIs ==
    ASSUME NEW loc \in Seq(FileNames)
    PROVE  /\ After(HostPath(loc), Empty) = HostPath(loc)
           /\ __path_sanitize(Prepend(Empty, HostPath(loc))) = HostPath(loc)
<1> DEFINE s == HostPath(loc)
<1>1. s \in Pathnames /\ IsAbsolute(s) /\ Tail(s) = IF loc = <<>> THEN Empty ELSE loc
  BY HostPathParts
<1>2. s \in Seq(Parts) /\ s # <<>> /\ s[1] = ""
  BY <1>1, AbsoluteIs, PathnamesAre
<1>3. s = Empty \o Tail(s)
  <2>1. CASE loc = <<>>
    <3>1. s = Slash
      BY <2>1 DEF HostPath
    <3> QED BY <3>1, SlashParts, TwiceEmpty
  <2>2. CASE loc # <<>>
    BY <1>1, <2>2, HostPathNames
  <2> QED BY <2>1, <2>2
<1>4. __path_sanitize(s) = s
  <2>1. CASE loc = <<>>
    <3>1. s = <<"", "">>
      BY <2>1 DEF HostPath, Slash
    <3>2. \A x : Len(<<x, x>>) = 2
      OBVIOUS
    <3>3. Len(s) = 2
      BY <3>1, <3>2
    <3> HIDE DEF s
    <3> QED BY <1>1, <3>3, SanitizeKeeps
  <2>2. CASE loc # <<>>
    <3>1. s[Len(s)] \in FileNames
      BY <2>2, HostPathNames
    <3> HIDE DEF s
    <3> QED BY <1>1, <3>1, SanitizeKeeps
  <2> QED BY <2>1, <2>2
<1> HIDE DEF s
<1>5. Tail(s) = SubSeq(s, 2, Len(s))
  BY <1>2, TailIsSubSeq
<1>6. Len(Empty) = 1 /\ Empty[1] = "" /\ 1 + 1 = 2
  <2>1. 1 + 1 = 2
    OBVIOUS
  <2> QED BY <2>1, EmptyIs, SlashParts
<1>7. After(s, Empty) = <<s[1]>> \o SubSeq(s, 1 + 1, Len(s))
  BY <1>6 DEF After
<1>8. After(s, Empty) = s
  BY <1>2, <1>3, <1>5, <1>6, <1>7 DEF Empty
<1>9. Prepend(Empty, s) = s
  BY DEF Prepend
<1> QED BY <1>4, <1>8, <1>9 DEF s


\* What the code takes for the way out of the jail is left to the host anyway.
LEMMA MagicIgnored ==
    ASSUME NEW path \in Seq(Parts), path # Empty, ~ignore(path)
    PROVE  path # MagicRoot /\ ~__strleq(path, MagicFds)
<1>1. <<"", "proc", "">> \in Ignored /\ <<"", "dev", "">> \in Ignored
  BY PathsAssumption
<1>2. ~__strleq(path, <<"", "proc", "">>) /\ ~__strleq(path, <<"", "dev", "">>)
  BY <1>1 DEF ignore
<1>3. \A n \in Nat : n >= 4 => /\ 3 <= n /\ 1 \in 1..(4 - 1) /\ 2 \in 1..(4 - 1)
                               /\ \A i \in 1..(3 - 1) : i = 1 \/ i = 2
  OBVIOUS
<1>4. Len(path) \in Nat
  OBVIOUS
<1>5. ASSUME NEW x, NEW y, path[1] = x, path[2] = y, Len(path) >= 4
      PROVE  __strleq(path, <<x, y, "">>)
  <2> DEFINE q == <<x, y, "">>
  <2>1. Len(q) = 3 /\ q[1] = x /\ q[2] = y /\ q[3] = ""
    <3>1. \A z : LET t == <<x, y, z>> IN Len(t) = 3 /\ t[1] = x /\ t[2] = y /\ t[3] = z
      OBVIOUS
    <3> QED BY <3>1
  <2> HIDE DEF q
  <2>2. __strleq(path, q)
    BY <1>3, <1>4, <1>5, <2>1 DEF __strleq
  <2> QED BY <2>2 DEF q
<1>6. \A a, b, c, d : LET t == <<a, b, c, d>>
                      IN  Len(t) = 4 /\ t[1] = a /\ t[2] = b /\ t[3] = c /\ t[4] = d
  OBVIOUS
<1>7. path # MagicRoot
  <2> SUFFICES ASSUME path = MagicRoot PROVE FALSE
    OBVIOUS
  <2>1. Len(path) = 4 /\ path[1] = "" /\ path[2] = "proc"
    BY <1>6 DEF MagicRoot
  <2>2. \A n \in Nat : n = 4 => n >= 4
    OBVIOUS
  <2>3. Len(path) >= 4
    BY <1>4, <2>1, <2>2
  <2> QED BY <1>2, <1>5, <2>1, <2>3
<1>8. ~__strleq(path, MagicFds)
  <2> SUFFICES ASSUME __strleq(path, MagicFds) PROVE FALSE
    OBVIOUS
  <2>1. Len(MagicFds) = 4 /\ MagicFds[1] = "" /\ MagicFds[2] = "dev"
    BY <1>6 DEF MagicFds
  <2>2. /\ Len(MagicFds) <= Len(path)
        /\ \A i \in 1..(Len(MagicFds) - 1) : path[i] = MagicFds[i]
    BY DEF __strleq
  <2>3. 4 <= Len(path) /\ \A i \in 1..(4 - 1) : path[i] = MagicFds[i]
    BY <2>1, <2>2
  <2>4. Len(path) >= 4
    BY <1>4, <2>3
  <2>5. path[1] = "" /\ path[2] = "dev"
    BY <1>3, <1>4, <2>1, <2>3, <2>4
  <2> QED BY <1>2, <1>5, <2>4, <2>5
<1> QED BY <1>7, <1>8


(***************************************************************************)
(* The resolution of what the program is told of a location: its path on   *)
(* the host.                                                               *)
(***************************************************************************)
LEMMA NameLeadsBack ==
    ASSUME NEW fs, IsTree(fs), NEW cwd \in Seq(FileNames), NEW loc \in DOMAIN fs,
           ~IsLink(fs, loc), NotRedirected(fs, loc),
           NEW jail \in Seq(FileNames), Below(loc, jail),
           NEW name, name = __striprootdir(HostPath(jail), HostPath(loc)), ~ignore(name),
           InJail(HostPath(jail)) => ~__strleq(name, HostPath(jail))
    PROVE  \A follow, prflags :
              path_resolution2(fs, cwd, HostPath(jail), NoDir, name, follow, prflags)
                 = HostPath(loc)
<1> TAKE follow, prflags
<1> DEFINE rootdir == HostPath(jail)
           root == IF InJail(rootdir) THEN rootdir ELSE Empty
           s == HostPath(loc)
           Realpath(p, follows) ==
               IF follows THEN __realpathat(fs, cwd, rootdir, p, follow) ELSE p
           clean == __path_sanitize(JoinPath(root, NoDir, name))
           kept  == StripIgnored(rootdir, root,
                        KeepInRoot(root, NoDir, name, Realpath(clean, follow)), prflags)
<1>1. loc \in Seq(FileNames) /\ rootdir \in Pathnames
  BY HostPathIs DEF IsTree
<1>2. /\ name \in Pathnames /\ IsAbsolute(name)
      /\ clean = s
      /\ ~(root # Empty /\ __strleq(s, root) /\ ignore(After(s, root)))
      /\ root = Empty => ~ignore(After(s, root))
  <2>1. CASE ~InJail(rootdir)
    <3>1. root = Empty /\ name = s /\ rootdir = Slash
      BY <2>1 DEF InJail, __striprootdir
    <3>2. s \in Pathnames /\ IsAbsolute(s)
      BY <1>1, HostPathParts
    <3>3. JoinPath(root, NoDir, name) = Prepend(Empty, s)
      BY <3>1, <3>2 DEF JoinPath
    <3>4. clean = s /\ After(s, root) = s
      BY <1>1, <3>1, <3>3, UnstrippedIs
    <3> HIDE DEF s, clean, root, rootdir
    <3> QED BY <3>1, <3>2, <3>4 DEF s, rootdir
  <2>2. CASE InJail(rootdir)
    <3>1. jail # <<>>
      BY <2>2 DEF InJail, HostPath
    <3> DEFINE rest == Rest(loc, Len(jail))
    <3>2. /\ rest \in Seq(FileNames) /\ rootdir # Slash
          /\ __strleq(s, rootdir) /\ After(s, rootdir) = Empty \o rest
          /\ name = HostPath(rest) /\ __path_sanitize(Prepend(rootdir, HostPath(rest))) = s
      BY <1>1, <3>1, StrippedIs
    <3>3. root = rootdir /\ root # Empty
      BY <1>1, <2>2, PathnamesAre
    <3>4. name \in Pathnames /\ IsAbsolute(name)
      <4> HIDE DEF rest, s, rootdir
      <4> QED BY <3>2, HostPathParts
    <3>5. ~ignore(name) /\ ~__strleq(name, rootdir)
      BY <2>2
    <3>6. JoinPath(root, NoDir, name) = Prepend(rootdir, HostPath(rest))
      <4> HIDE DEF rest, s, rootdir, root
      <4> QED BY <3>2, <3>3, <3>4, <3>5 DEF JoinPath
    <3>7. clean = s
      BY <3>2, <3>6
    <3>8. ~ignore(After(s, rootdir))
      <4>1. CASE rest = <<>>
        <5>1. \A t \in Seq(Parts) : t \o <<>> = t
          BY ConcatEmptySeq
        <5>2. Empty \o <<>> = Empty
          BY <5>1, EmptyIs
        <5> HIDE DEF rest, s, rootdir
        <5> QED BY <3>2, <4>1, <5>2 DEF ignore
      <4>2. CASE rest # <<>>
        <5>1. HostPath(rest) = Empty \o rest
          BY <3>2, <4>2, HostPathNames
        <5> HIDE DEF rest, s, rootdir
        <5> QED BY <3>2, <3>5, <5>1
      <4> QED BY <4>1, <4>2
    <3> HIDE DEF s, clean, root, rootdir
    <3> QED BY <3>3, <3>4, <3>7, <3>8
  <2> QED BY <2>1, <2>2
<1>3. ~ignore(name) /\ name \in Seq(Parts) /\ name # Empty
  <2>1. ~ignore(name)
    OBVIOUS
  <2> HIDE DEF s, clean, root, rootdir
  <2> QED BY <1>2, <2>1, PathnamesAre
<1>4. name # MagicRoot /\ ~__strleq(name, MagicFds)
  <2> QED BY <1>3, MagicIgnored
<1>5. \A follows : Realpath(s, follows) = s
  <2>1. __realpathat(fs, cwd, rootdir, s, follow) = s
    BY <1>1, RealpathCanonical
  <2> HIDE DEF s, rootdir
  <2> QED BY <2>1
<1>6. kept = s
  <2>1. KeepInRoot(root, NoDir, name, s) = s
    BY DEF KeepInRoot, NoDir
  <2>2. StripIgnored(rootdir, root, s, prflags) = s
    <3> HIDE DEF s, clean, root, rootdir
    <3> QED BY <1>2 DEF StripIgnored
  <2>3. Realpath(clean, follow) = s
    <3> HIDE DEF s, clean, Realpath
    <3> QED BY <1>2, <1>5
  <2> HIDE DEF s, clean, root, rootdir, Realpath
  <2> QED BY <2>1, <2>2, <2>3
<1>7. path_resolution2(fs, cwd, rootdir, NoDir, name, follow, prflags)
         = Realpath(kept, NOWALKALONG \notin prflags)
  <2>1. path_resolution2(fs, cwd, rootdir, NoDir, name, follow, prflags)
         = IF NOMAGICLINKS \notin prflags /\ name = MagicRoot THEN Slash
           ELSE IF NOMAGICLINKS \notin prflags /\ __strleq(name, MagicFds) THEN name
           ELSE IF NOIGNORE \notin prflags /\ ignore(name) THEN name
           ELSE Realpath(kept, NOWALKALONG \notin prflags)
    BY DEF path_resolution2, Sanitized
  <2> HIDE DEF s, clean, root, rootdir, Realpath, kept
  <2> QED BY <1>3, <1>4, <2>1
<1> HIDE DEF kept, Realpath
<1>8. Realpath(kept, NOWALKALONG \notin prflags) = s
  BY <1>5, <1>6
<1> QED BY <1>7, <1>8

-----------------------------------------------------------------------------

(***************************************************************************)
(* A location is below a directory when its names come after those of the  *)
(* directory.                                                              *)
(***************************************************************************)
LEMMA BelowIs ==
    ASSUME NEW loc \in Seq(FileNames), NEW dir \in Seq(FileNames)
    PROVE  /\ \A tail \in Seq(FileNames) : loc = dir \o tail => Below(loc, dir)
           /\ Below(loc, dir) => /\ Rest(loc, Len(dir)) \in Seq(FileNames)
                                 /\ loc = dir \o Rest(loc, Len(dir))
<1>1. ASSUME NEW tail \in Seq(FileNames), loc = dir \o tail PROVE Below(loc, dir)
  <2>1. /\ Len(loc) = Len(dir) + Len(tail)
        /\ \A i \in 1..(Len(dir) + Len(tail)) :
              loc[i] = IF i <= Len(dir) THEN dir[i] ELSE tail[i - Len(dir)]
    BY <1>1, ConcatProperties
  <2>2. Len(dir) \in Nat /\ Len(tail) \in Nat
    OBVIOUS
  <2>3. \A m, n \in Nat : m <= m + n /\ m \in 0..(m + n)
                          /\ \A i \in 1..m : i \in 1..(m + n) /\ i <= m
    OBVIOUS
  <2>4. Len(dir) <= Len(loc) /\ Len(dir) \in 0..Len(loc)
        /\ \A i \in 1..Len(dir) : i \in 1..(Len(dir) + Len(tail)) /\ i <= Len(dir)
    BY <2>1, <2>2, <2>3
  <2> DEFINE a == Begin(loc, Len(dir))
  <2>5. a \in Seq(FileNames) /\ Len(a) = Len(dir) /\ \A i \in 1..Len(dir) : a[i] = loc[i]
    BY <2>4, CutIs
  <2> HIDE DEF a
  <2>6. \A i \in 1..Len(dir) : a[i] = dir[i]
    BY <2>1, <2>4, <2>5
  <2>7. a = dir
    BY <2>5, <2>6, SeqEqual
  <2> QED BY <2>4, <2>7 DEF Below, Begin, a
<1>2. ASSUME Below(loc, dir)
      PROVE  Rest(loc, Len(dir)) \in Seq(FileNames) /\ loc = dir \o Rest(loc, Len(dir))
  <2>1. Len(dir) \in 0..Len(loc) /\ Begin(loc, Len(dir)) = dir
    BY <1>2 DEF Below, Begin
  <2>2. Rest(loc, Len(dir)) \in Seq(FileNames)
    BY <2>1, CutIs
  <2>3. Begin(loc, Len(dir)) \o Rest(loc, Len(dir)) = loc
    BY <2>1, CutJoins
  <2> QED BY <2>1, <2>2, <2>3
<1> QED BY <1>1, <1>2

LEMMA BelowParts ==
    ASSUME NEW loc \in Seq(FileNames), NEW dir \in Seq(FileNames)
    PROVE  Below(loc, dir) <=> \E tail \in Seq(FileNames) : loc = dir \o tail
  BY BelowIs

LEMMA BelowTwice ==
    \A a, b, c \in Seq(FileNames) : Below(a, b) /\ Below(b, c) => Below(a, c)
<1> TAKE a, b, c \in Seq(FileNames)
<1> HAVE Below(a, b) /\ Below(b, c)
<1>1. PICK s \in Seq(FileNames) : a = b \o s
  BY BelowParts
<1>2. PICK t \in Seq(FileNames) : b = c \o t
  BY BelowParts
<1>3. t \o s \in Seq(FileNames)
  BY ConcatProperties
<1>4. a = c \o (t \o s)
  BY <1>1, <1>2, ConcatAssociative
<1> QED BY <1>3, <1>4, BelowParts

\* The last name.
LEMMA ParentParts ==
    ASSUME NEW loc \in Seq(FileNames), loc # <<>>
    PROVE  /\ Parent(loc) \in Seq(FileNames) /\ Parent(loc) # loc
           /\ \E name \in FileNames : loc = Parent(loc) \o <<name>>
           /\ \A dir \in Seq(FileNames) : Parent(dir \o loc) = dir \o Parent(loc)
<1> DEFINE n == Len(loc)
           up == Parent(loc)
<1>1. n \in Nat \ {0}
  BY EmptySeq
<1>2. n - 1 \in 0..n /\ n - (n - 1) = 1 /\ n - 1 # n /\ 1 \in 1..1 /\ (n - 1) + 1 = n /\ n \in 1..n
  BY <1>1
<1>3. up = Begin(loc, n - 1)
  BY DEF Parent, Begin
<1> DEFINE last == Rest(loc, n - 1)
<1>4. /\ Begin(loc, n - 1) \in Seq(FileNames) /\ Len(Begin(loc, n - 1)) = n - 1
      /\ last \in Seq(FileNames) /\ Len(last) = n - (n - 1)
      /\ \A i \in 1..(n - (n - 1)) : last[i] = loc[(n - 1) + i]
  BY <1>2, CutIs, ZenonT(30)
<1>5. loc = up \o last
  BY <1>2, <1>3, CutJoins
<1>6. loc[n] \in FileNames
  <2>1. \A i \in 1..Len(loc) : loc[i] \in FileNames
    OBVIOUS
  <2> QED BY <1>2, <2>1
<1> HIDE DEF n, up, last
<1>7. last = <<loc[n]>>
  <2>1. Len(last) = 1 /\ last[1] = loc[n]
    BY <1>2, <1>4
  <2> QED BY <1>4, <2>1, SinglePart
<1>8. up \in Seq(FileNames) /\ up # loc
  BY <1>2, <1>3, <1>4 DEF n
<1>9. ASSUME NEW dir \in Seq(FileNames) PROVE Parent(dir \o loc) = dir \o up
  <2> DEFINE x == dir \o up
  <2>1. x \in Seq(FileNames)
    BY <1>8, ConcatProperties
  <2>2. dir \o loc = x \o last
    <3>1. Concat(dir, Concat(up, last)) = Concat(Concat(dir, up), last)
      BY <1>4, <1>8, ConcatThree
    <3>2. loc = Concat(up, last)
      BY <1>5 DEF Concat
    <3>3. Concat(dir, loc) = Concat(Concat(dir, up), last)
      BY <3>1, <3>2
    <3> QED BY <3>3 DEF Concat
  <2> HIDE DEF x
  <2>3. x \o <<loc[n]>> = Append(x, loc[n])
    BY <1>6, <2>1, AppendIsConcat
  <2>4. Parent(Append(x, loc[n])) = x
    BY <1>6, <2>1, ParentOfChild
  <2>5. Parent(dir \o loc) = x
    BY <1>7, <2>2, <2>3, <2>4
  <2> QED BY <2>5 DEF x
<1> QED BY <1>5, <1>6, <1>7, <1>8, <1>9 DEF up

\* What is above a location: its parent, and all that is above that.
LEMMA BelowParent ==
    ASSUME NEW loc \in Seq(FileNames), NEW dir \in Seq(FileNames)
    PROVE  /\ Below(loc, loc) /\ Below(loc, <<>>)
           /\ loc # <<>> => Below(loc, Parent(loc))
           /\ Below(loc, dir) /\ loc # dir => Below(Parent(loc), dir)
           /\ Below(Parent(loc), dir) => Below(loc, dir)
<1>1. /\ <<>> \in Seq(FileNames) /\ \A t \in Seq(FileNames) : t \o <<>> = t /\ <<>> \o t = t
  BY ConcatEmptySeq
<1>2. Below(loc, loc) /\ Below(loc, <<>>)
  <2>1. loc = loc \o <<>> /\ loc = <<>> \o loc
    BY <1>1
  <2> QED BY <1>1, <2>1, BelowIs
<1>3. ASSUME loc # <<>> PROVE Below(loc, Parent(loc))
  <2>1. PICK name \in FileNames : loc = Parent(loc) \o <<name>>
    BY <1>3, ParentParts
  <2>2. <<name>> \in Seq(FileNames) /\ Parent(loc) \in Seq(FileNames)
    BY ParentIs
  <2> QED BY <2>1, <2>2, BelowIs
<1>4. ASSUME Below(loc, dir), loc # dir PROVE Below(Parent(loc), dir)
  <2>1. PICK tail \in Seq(FileNames) : loc = dir \o tail
    BY <1>4, BelowParts
  <2>2. tail # <<>>
    BY <1>1, <1>4, <2>1
  <2>3. Parent(loc) = dir \o Parent(tail) /\ Parent(tail) \in Seq(FileNames)
    BY <2>1, <2>2, ParentParts
  <2> QED BY <2>3, ParentIs, BelowIs
<1>5. ASSUME Below(Parent(loc), dir) PROVE Below(loc, dir)
  <2>1. CASE loc = <<>>
    BY <1>5, <2>1 DEF Parent
  <2>2. CASE loc # <<>>
    BY <1>3, <1>5, <2>2, ParentIs, BelowTwice
  <2> QED BY <2>1, <2>2
<1> QED BY <1>2, <1>3, <1>4, <1>5

-----------------------------------------------------------------------------
(***************************************************************************)
(* The resolution imitates the lookup of the kernel in the jail: it leads  *)
(* the kernel of the host where the path leads in chroot(2).  The lookup   *)
(* is taken as what it leads to from a location and the parts to walk.     *)
(***************************************************************************)

\* What the kernel comes to from l.
Walked(fs, root, follow, l) ==
    LET walk[m \in Lookups] ==
            IF m.err # "" \/ m.todo = <<>> THEN m ELSE walk[LookupStep(fs, root, follow, m)]
    IN  walk[l]

LEMMA WalkedIs ==
    ASSUME NEW fs, IsTree(fs), NEW root \in Seq(FileNames), NEW follow
    PROVE  /\ \A l \in Lookups :
                 Walked(fs, root, follow, l)
                    = IF l \in Final THEN l
                      ELSE Walked(fs, root, follow, LookupStep(fs, root, follow, l))
           /\ \A I \in SUBSET Lookups :
                 (\A l \in I : l \notin Final => LookupStep(fs, root, follow, l) \in I)
                 => \A l \in I : Walked(fs, root, follow, l) \in I \cap Final
<1> DEFINE step == Stepped(fs, root, follow)
           F(f) == [m \in Lookups |->
                       IF m.err # "" \/ m.todo = <<>> THEN m ELSE f[LookupStep(fs, root, follow, m)]]
           walk == CHOOSE f : f = F(f)
<1>1. step \in [Lookups -> Lookups] /\ Terminates(Lookups, Final, step)
  BY LookupTerminates
<1>2. \A l \in Lookups : l \notin Final => step[l] = LookupStep(fs, root, follow, l)
  BY DEF Stepped
<1>3. \A l \in Lookups : l \in Final <=> l.err # "" \/ l.todo = <<>>
  BY DEF Final
<1>4. Final \in SUBSET Lookups
  BY DEF Final
<1> HIDE DEF step
<1>5. \E f : UntilFinal(f, Lookups, Final, step)
  BY <1>1, <1>4, Iteration
<1>6. ASSUME NEW f PROVE UntilFinal(f, Lookups, Final, step) <=> f = F(f)
  <2> DEFINE G == [l \in Lookups |-> IF l \in Final THEN l ELSE f[step[l]]]
  <2>1. \A l \in Lookups : G[l] = F(f)[l]
    BY <1>2, <1>3
  <2>2. G = F(f)
    BY <2>1
  <2> QED BY <2>2 DEF UntilFinal
<1>7. \A l : Walked(fs, root, follow, l) = walk[l]
  BY DEF Walked
<1> HIDE DEF F
<1>8. walk = F(walk)
  BY <1>5, <1>6
<1>9. UntilFinal(walk, Lookups, Final, step)
  BY <1>6, <1>8
<1> HIDE DEF walk
<1>10. ASSUME NEW l \in Lookups
       PROVE  walk[l] = IF l \in Final THEN l ELSE walk[LookupStep(fs, root, follow, l)]
  <2> DEFINE G == [m \in Lookups |-> IF m \in Final THEN m ELSE walk[step[m]]]
  <2>1. walk = G
    BY <1>9 DEF UntilFinal
  <2>2. G[l] = IF l \in Final THEN l ELSE walk[step[l]]
    OBVIOUS
  <2> HIDE DEF G
  <2> QED BY <1>2, <2>1, <2>2
<1>11. ASSUME NEW I \in SUBSET Lookups,
              \A l \in I : l \notin Final => LookupStep(fs, root, follow, l) \in I
       PROVE  \A l \in I : walk[l] \in I \cap Final
  <2>1. \A l \in I : l \notin Final => step[l] \in I
    BY <1>2, <1>11
  <2>2. \A l \in I : walk[l] \in I /\ walk[l] \in Final
    BY <1>1, <1>4, <1>9, <2>1, IterationKeeps
  <2> QED BY <2>2
<1>12. ASSUME NEW l \in Lookups
       PROVE  Walked(fs, root, follow, l)
                 = IF l \in Final THEN l
                   ELSE Walked(fs, root, follow, LookupStep(fs, root, follow, l))
  BY <1>7, <1>10
<1>13. ASSUME NEW I \in SUBSET Lookups,
              \A l \in I : l \notin Final => LookupStep(fs, root, follow, l) \in I
       PROVE  \A l \in I : Walked(fs, root, follow, l) \in I \cap Final
  BY <1>7, <1>11, <1>13
<1> QED BY <1>12, <1>13

\* From the lookups that ended back, by steps, to all of them.
LEMMA LookupInduction ==
    ASSUME NEW fs, IsTree(fs), NEW root \in Seq(FileNames), NEW follow,
           NEW T, Final \subseteq T,
           \A l \in Lookups : l \notin Final /\ LookupStep(fs, root, follow, l) \in T => l \in T
    PROVE  Lookups \subseteq T
<1> DEFINE step == Stepped(fs, root, follow)
           U == T \cap Lookups
<1>1. step \in [Lookups -> Lookups] /\ Terminates(Lookups, Final, step)
  BY LookupTerminates
<1>2. \A l \in Lookups : l \notin Final => step[l] = LookupStep(fs, root, follow, l)
  BY DEF Stepped
<1> HIDE DEF step
<1>3. Final \subseteq U
  BY DEF Final
<1>4. \A l \in Lookups : step[l] \in U => l \in U
  BY <1>2, <1>3
<1> HIDE DEF U
<1>5. U \in SUBSET Lookups
  BY DEF U
<1>6. Lookups \subseteq U
  BY <1>1, <1>3, <1>4, <1>5 DEF Terminates
<1> QED BY <1>6 DEF U

-----------------------------------------------------------------------------
(***************************************************************************)
(* The rules of the lookup: where the kernel comes to from a directory     *)
(* with parts to walk, without ".." at the root.                           *)
(***************************************************************************)
On(at, todo, links) ==
    [at |-> at, todo |-> todo, links |-> links, clamped |-> FALSE, err |-> ""]

Reaches(fs, root, follow, at, todo, links, end) ==
    /\ at \in Seq(FileNames) /\ todo \in Seq(Parts) /\ links \in 0..SYMLOOP_MAX
    /\ Walked(fs, root, follow, On(at, todo, links)) = end
    /\ Ended(end) /\ ~end.clamped

LEMMA OnIs ==
    ASSUME NEW at \in Seq(FileNames), NEW todo \in Seq(Parts), NEW links \in 0..SYMLOOP_MAX
    PROVE  /\ On(at, todo, links) \in Lookups
           /\ On(at, todo, links) \in Final <=> todo = <<>>
           /\ Ended(On(at, <<>>, links))
<1>1. \A rest \in Seq(Parts) : On(at, rest, links) \in Lookups
  BY DEF On, Lookups, Errors
<1>2. <<>> \in Seq(Parts)
  OBVIOUS
<1>3. Ended(On(at, <<>>, links))
  <2> DEFINE l == On(at, <<>>, links)
  <2>1. l \in Lookups
    BY <1>1, <1>2
  <2>2. l.err = "" /\ l.todo = <<>>
    BY DEF On
  <2> HIDE DEF l
  <2>3. Ended(l)
    BY <2>1, <2>2 DEF Ended
  <2> QED BY <2>3 DEF l
<1>4. \A l \in Lookups : l \in Final <=> l.err # "" \/ l.todo = <<>>
  BY DEF Final
<1>5. On(at, todo, links) \in Final <=> todo = <<>>
  <2> DEFINE l == On(at, todo, links)
  <2>1. l \in Lookups
    BY <1>1
  <2>2. l.err = "" /\ l.todo = todo
    BY DEF On
  <2> HIDE DEF l
  <2>3. l \in Final <=> todo = <<>>
    BY <1>4, <2>1, <2>2
  <2> QED BY <2>3 DEF l
<1> QED BY <1>1, <1>3, <1>5

LEMMA OnAll ==
    \A l \in Lookups : l.err = "" /\ ~l.clamped => l = On(l.at, l.todo, l.links)
<1> SUFFICES ASSUME NEW l \in Lookups, l.err = "", ~l.clamped
             PROVE  l = On(l.at, l.todo, l.links)
  OBVIOUS
<1>1. l.clamped = FALSE
  BY DEF Lookups
<1>2. l = [at |-> l.at, todo |-> l.todo, links |-> l.links, clamped |-> l.clamped, err |-> l.err]
  BY DEF Lookups
<1> QED BY <1>1, <1>2 DEF On

LEMMA LeqNext == \A i, j \in Nat : i <= j => i <= j + 1
  OBVIOUS

LEMMA WalkedMonotone ==
    ASSUME NEW fs, IsTree(fs), NEW root \in Seq(FileNames), NEW follow, NEW l \in Lookups,
           Ended(Walked(fs, root, follow, l)), ~Walked(fs, root, follow, l).clamped
    PROVE  l.err = "" /\ ~l.clamped /\ l.links <= Walked(fs, root, follow, l).links
<1> DEFINE end == Walked(fs, root, follow, l)
           I == {m \in Lookups : /\ (m.clamped \/ ~l.clamped) /\ l.links <= m.links
                                 /\ l.err # "" => m = l}
<1>0. \A m \in Lookups : m.links \in Nat
  <2>1. \A m \in Lookups : m.links \in 0..SYMLOOP_MAX
    BY DEF Lookups
  <2> QED BY <2>1, KernelAssumption
<1>1. l \in I /\ I \in SUBSET Lookups
  <2>1. l.links \in Nat /\ l.clamped \in BOOLEAN
    BY <1>0 DEF Lookups
  <2>2. l.links <= l.links
    BY <2>1
  <2> QED BY <2>1, <2>2
<1>2. ASSUME NEW m \in I, m \notin Final
      PROVE  LookupStep(fs, root, follow, m) \in I
  <2> DEFINE s == LookupStep(fs, root, follow, m)
  <2>1. m \in Lookups /\ s \in Lookups /\ m.err = ""
    BY <1>2, LookupStepIs DEF Final
  <2>2. l.err = ""
    BY <2>1
  <2>3. s.clamped = m.clamped \/ s.clamped = TRUE
    <3>1. m = [at |-> m.at, todo |-> m.todo, links |-> m.links,
               clamped |-> m.clamped, err |-> m.err]
          /\ m.clamped \in BOOLEAN
      BY <2>1 DEF Lookups
    <3>2. DOMAIN m = {"at", "todo", "links", "clamped", "err"}
      BY <3>1
    <3>3. s.clamped \in {m.clamped, TRUE, m.clamped \/ (m.at = root /\ root # <<>>)}
      BY <3>2 DEF LookupStep
    <3> QED BY <3>1, <3>3
  <2>4. s.links = m.links \/ s.links = m.links + 1
    <3>1. m = [at |-> m.at, todo |-> m.todo, links |-> m.links,
               clamped |-> m.clamped, err |-> m.err]
      BY <2>1 DEF Lookups
    <3>2. DOMAIN m = {"at", "todo", "links", "clamped", "err"}
      BY <3>1
    <3> QED BY <3>2 DEF LookupStep
  <2>5. m.links \in Nat /\ l.links \in Nat /\ l.links <= m.links
    BY <1>0, <2>1
  <2> HIDE DEF s
  <2>6. l.links <= s.links
    BY <2>4, <2>5, LeqNext
  <2>7. s.clamped \/ ~l.clamped
    BY <2>3
  <2>8. s \in I
    BY <2>1, <2>2, <2>6, <2>7
  <2> QED BY <2>8 DEF s
<1>3. end \in I
  <2> HIDE DEF I, end
  <2>1. \A m \in I : Walked(fs, root, follow, m) \in I \cap Final
    BY <1>1, <1>2, WalkedIs
  <2> QED BY <1>1, <2>1 DEF end
<1> QED BY <1>3 DEF Ended

\* Where a link leads from.
Leading(root, at, target) == IF IsAbsolute(target) THEN root ELSE at

\* The part before the last slash the kernel looks at, which is a name, is a link to follow.
Follows(fs, follow, at, todo) ==
    IsLink(fs, Append(at, Head(todo))) /\ (follow \/ Tail(todo) # <<>>)

\* The step of the kernel is m.
Stepping(fs, root, follow, at, todo, links, m) ==
    LET part == Head(todo)
        next == Append(at, part)
        target == fs[next].target
    IN  /\ ~IsDir(fs, at) => m.err # ""
        /\ IsDir(fs, at) /\ part \in {"", Dot} => m = On(at, Tail(todo), links)
        /\ IsDir(fs, at) /\ part = DotDot =>
              IF at = root /\ root # <<>> THEN m.clamped
              ELSE m = On(Parent(at), Tail(todo), links)
        /\ IsDir(fs, at) /\ part \notin {"", Dot, DotDot} /\ Follows(fs, follow, at, todo) =>
              IF links = SYMLOOP_MAX THEN m.err # ""
              ELSE m = On(Leading(root, at, target), Concat(target, Tail(todo)), links + 1)
        /\ IsDir(fs, at) /\ part \notin {"", Dot, DotDot} /\ ~Follows(fs, follow, at, todo) =>
              \/ m.err # "" /\ ~Exists(fs, next) /\ Tail(todo) # <<>>
              \/ m = On(next, Tail(todo), links)

LEMMA OnSteps ==
    ASSUME NEW fs, NEW root, NEW follow, NEW at, NEW todo, NEW links
    PROVE  Stepping(fs, root, follow, at, todo, links,
                    LookupStep(fs, root, follow, On(at, todo, links)))
<1> DEFINE l == On(at, todo, links)
           m == LookupStep(fs, root, follow, l)
           part == Head(todo)
           rest == Tail(todo)
           next == Append(at, part)
           target == fs[next].target
<1>1. l = [at |-> at, todo |-> todo, links |-> links, clamped |-> FALSE, err |-> ""]
  BY DEF On
<1> HIDE DEF l
<1>2. /\ "" # Dot /\ "" # DotDot /\ Dot # DotDot
  BY DEF Dot, DotDot
<1>3. \A e : [l EXCEPT !.err = e].err = e
  BY <1>1
<1>4. "" # "ENOENT" /\ "" # "ENOTDIR" /\ "" # "ELOOP"
  OBVIOUS
<1>5. CASE ~IsDir(fs, at)
  <2>1. m \in {[l EXCEPT !.err = "ENOENT"], [l EXCEPT !.err = "ENOTDIR"]}
    BY <1>1, <1>5 DEF LookupStep, IsDir
  <2>2. m.err # ""
    BY <1>3, <1>4, <2>1
  <2> QED BY <1>5, <2>2 DEF l, Stepping
<1>6. CASE IsDir(fs, at)
  <2>0. Exists(fs, at) /\ l.at = at /\ l.todo = todo /\ l.links = links /\ l.clamped = FALSE
    BY <1>1, <1>6 DEF IsDir
  <2>1. ASSUME part \in {"", Dot} PROVE m = On(at, rest, links)
    <3>1. m = [l EXCEPT !.todo = rest]
      BY <1>6, <2>0, <2>1 DEF LookupStep
    <3> QED BY <1>1, <3>1 DEF On
  <2>2. ASSUME part = DotDot
        PROVE  IF at = root /\ root # <<>> THEN m.clamped ELSE m = On(Parent(at), rest, links)
    <3>1. m = [l EXCEPT !.todo = rest, !.at = IF @ = root THEN root ELSE Parent(@),
                        !.clamped = @ \/ (l.at = root /\ root # <<>>)]
      BY <1>2, <1>6, <2>0, <2>2 DEF LookupStep
    <3>2. m.clamped = (l.clamped \/ (at = root /\ root # <<>>))
      BY <1>1, <2>0, <3>1
    <3>3. ~(at = root /\ root # <<>>) => m.clamped = FALSE
      BY <2>0, <3>2
    <3>4. m.at = (IF at = root THEN root ELSE Parent(at)) /\ m.todo = rest
          /\ m.links = links /\ m.err = ""
          /\ m = [at |-> m.at, todo |-> m.todo, links |-> m.links, clamped |-> m.clamped,
                  err |-> m.err]
      BY <1>1, <3>1
    <3>5. at = root /\ root = <<>> => Parent(at) = root
      BY DEF Parent
    <3> HIDE DEF m
    <3>6. CASE at = root /\ root # <<>>
      BY <3>2, <3>6
    <3>7. CASE ~(at = root /\ root # <<>>)
      <4>1. m.at = Parent(at) /\ m.clamped = FALSE
        BY <3>3, <3>4, <3>5, <3>7
      <4>2. m = On(Parent(at), rest, links)
        BY <3>4, <4>1 DEF On
      <4> QED BY <3>7, <4>2
    <3> QED BY <3>6, <3>7
  <2>3. ASSUME part \notin {"", Dot, DotDot}, Follows(fs, follow, at, todo)
        PROVE  IF links = SYMLOOP_MAX THEN m.err # ""
               ELSE m = On(Leading(root, at, target), Concat(target, rest), links + 1)
    <3>1. m = IF links = SYMLOOP_MAX THEN [l EXCEPT !.err = "ELOOP"]
              ELSE [l EXCEPT !.links = @ + 1, !.at = IF IsAbsolute(target) THEN root ELSE @,
                             !.todo = target \o rest]
      BY <1>6, <2>0, <2>3 DEF LookupStep, Follows
    <3>2. CASE links = SYMLOOP_MAX
      BY <1>3, <1>4, <3>1, <3>2
    <3>3. CASE links # SYMLOOP_MAX
      BY <1>1, <3>1, <3>3 DEF On, Leading, Concat
    <3> QED BY <3>2, <3>3
  <2>4. ASSUME part \notin {"", Dot, DotDot}, ~Follows(fs, follow, at, todo)
        PROVE  \/ m.err # "" /\ ~Exists(fs, next) /\ rest # <<>>
               \/ m = On(next, rest, links)
    <3>1. m = IF ~Exists(fs, next) /\ (\E i \in 1..Len(rest) : rest[i] # "")
              THEN [l EXCEPT !.err = "ENOENT"]
              ELSE [l EXCEPT !.at = next, !.todo = rest]
      BY <1>6, <2>0, <2>4 DEF LookupStep, Follows
    <3>2. CASE ~Exists(fs, next) /\ (\E i \in 1..Len(rest) : rest[i] # "")
      <4>1. Len(<<>>) = 0 /\ 1..0 = {}
        OBVIOUS
      <4>2. rest # <<>>
        BY <3>2, <4>1
      <4> QED BY <1>3, <1>4, <3>1, <3>2, <4>2
    <3>3. CASE ~(~Exists(fs, next) /\ (\E i \in 1..Len(rest) : rest[i] # ""))
      BY <1>1, <3>1, <3>3 DEF On
    <3> QED BY <3>2, <3>3
  <2> QED BY <1>6, <2>1, <2>2, <2>3, <2>4 DEF l, Stepping
<1> QED BY <1>5, <1>6

LEMMA ReachesEnd ==
    ASSUME NEW fs, IsTree(fs), NEW root \in Seq(FileNames), NEW follow,
           NEW at \in Seq(FileNames), NEW links \in 0..SYMLOOP_MAX, NEW end
    PROVE  Reaches(fs, root, follow, at, <<>>, links, end) <=> end = On(at, <<>>, links)
<1>1. <<>> \in Seq(Parts)
  OBVIOUS
<1> DEFINE l == On(at, <<>>, links)
<1>2. l \in Lookups /\ l \in Final /\ Ended(l)
  BY <1>1, OnIs
<1>3. ~l.clamped
  BY DEF On
<1> HIDE DEF l
<1>4. Walked(fs, root, follow, l) = l
  BY <1>2, WalkedIs
<1> QED BY <1>1, <1>2, <1>3, <1>4 DEF Reaches, l

\* What is reached from a state is reached from m, the next.
SameEnd(fs, root, follow, at, todo, links, end, m) ==
    /\ Reaches(fs, root, follow, at, todo, links, end) =>
          /\ m = On(m.at, m.todo, m.links) /\ m.err = "" /\ ~m.clamped
          /\ Reaches(fs, root, follow, m.at, m.todo, m.links, end)
          /\ links <= end.links
    /\ \A at2, todo2, links2 :
          /\ m = On(at2, todo2, links2)
          /\ Reaches(fs, root, follow, at2, todo2, links2, end)
          => Reaches(fs, root, follow, at, todo, links, end)

LEMMA ReachesStep ==
    ASSUME NEW fs, IsTree(fs), NEW root \in Seq(FileNames), NEW follow,
           NEW at \in Seq(FileNames), NEW todo \in Seq(Parts), todo # <<>>,
           NEW links \in 0..SYMLOOP_MAX, NEW end
    PROVE  SameEnd(fs, root, follow, at, todo, links, end,
                   LookupStep(fs, root, follow, On(at, todo, links)))
<1> DEFINE l == On(at, todo, links)
           m == LookupStep(fs, root, follow, l)
<1>1. l \in Lookups /\ l \notin Final /\ l.links = links
  <2>1. l \in Lookups /\ l \notin Final
    BY OnIs
  <2>2. l.links = links
    BY DEF On
  <2> QED BY <2>1, <2>2
<1> HIDE DEF l
<1>2. m \in Lookups
  BY <1>1, LookupStepIs
<1>3. Walked(fs, root, follow, l) = Walked(fs, root, follow, m)
  BY <1>1, WalkedIs
<1> HIDE DEF m
<1>4. ASSUME Reaches(fs, root, follow, at, todo, links, end)
      PROVE  /\ m = On(m.at, m.todo, m.links) /\ m.err = "" /\ ~m.clamped
             /\ Reaches(fs, root, follow, m.at, m.todo, m.links, end)
             /\ links <= end.links
  <2>1. Walked(fs, root, follow, l) = end /\ Ended(end) /\ ~end.clamped
    BY <1>4 DEF Reaches, l
  <2>2. links <= end.links
    BY <1>1, <2>1, WalkedMonotone
  <2>3. m.err = "" /\ ~m.clamped
    BY <1>2, <1>3, <2>1, WalkedMonotone
  <2>4. m = On(m.at, m.todo, m.links)
    BY <1>2, <2>3, OnAll
  <2>5. m.at \in Seq(FileNames) /\ m.todo \in Seq(Parts) /\ m.links \in 0..SYMLOOP_MAX
    BY <1>2 DEF Lookups
  <2> QED BY <1>3, <2>1, <2>2, <2>3, <2>4, <2>5 DEF Reaches
<1>5. ASSUME NEW at2, NEW todo2, NEW links2, m = On(at2, todo2, links2),
             Reaches(fs, root, follow, at2, todo2, links2, end)
      PROVE  Reaches(fs, root, follow, at, todo, links, end)
  BY <1>3, <1>5 DEF Reaches, l
<1>6. SameEnd(fs, root, follow, at, todo, links, end, m)
  BY <1>4, <1>5 DEF SameEnd
<1> QED BY <1>6 DEF m, l

\* There is something to walk in a directory only.
LEMMA ReachesNeeds ==
    ASSUME NEW fs, IsTree(fs), NEW root \in Seq(FileNames), NEW follow,
           NEW at \in Seq(FileNames), NEW todo \in Seq(Parts), todo # <<>>,
           NEW links \in 0..SYMLOOP_MAX, NEW end,
           Reaches(fs, root, follow, at, todo, links, end)
    PROVE  IsDir(fs, at)
<1> DEFINE m == LookupStep(fs, root, follow, On(at, todo, links))
<1>1. SameEnd(fs, root, follow, at, todo, links, end, m)
  BY ReachesStep
<1>2. Stepping(fs, root, follow, at, todo, links, m)
  BY OnSteps
<1> HIDE DEF m
<1>3. m.err = ""
  BY <1>1 DEF SameEnd
<1>4. ~IsDir(fs, at) => m.err # ""
  BY <1>2 DEF Stepping
<1> QED BY <1>3, <1>4

\* Where the next part leads.
Rule(fs, root, follow, at, todo, links, end) ==
    LET R(a, s, n) == Reaches(fs, root, follow, a, s, n, end)
        part == Head(todo)
        rest == Tail(todo)
        next == Append(at, part)
        target == fs[next].target
    IN  /\ R(at, todo, links) => IsDir(fs, at) /\ links <= end.links
        /\ IsDir(fs, at) /\ part \in {"", Dot} => (R(at, todo, links) <=> R(at, rest, links))
        /\ IsDir(fs, at) /\ part = DotDot =>
              (R(at, todo, links) <=> (at = root => root = <<>>) /\ R(Parent(at), rest, links))
        /\ IsDir(fs, at) /\ part \notin {"", Dot, DotDot} /\ Follows(fs, follow, at, todo) =>
              (R(at, todo, links) <=>
                  links # SYMLOOP_MAX
                  /\ R(Leading(root, at, target), Concat(target, rest), links + 1))
        /\ IsDir(fs, at) /\ part \notin {"", Dot, DotDot} /\ ~Follows(fs, follow, at, todo) =>
              (R(at, todo, links) <=> R(next, rest, links))

LEMMA ReachesIs ==
    ASSUME NEW fs, IsTree(fs), NEW root \in Seq(FileNames), NEW follow,
           NEW at \in Seq(FileNames), NEW todo \in Seq(Parts), todo # <<>>,
           NEW links \in 0..SYMLOOP_MAX, NEW end
    PROVE  Rule(fs, root, follow, at, todo, links, end)
<1> DEFINE R(a, s, n) == Reaches(fs, root, follow, a, s, n, end)
           part == Head(todo)
           rest == Tail(todo)
           next == Append(at, part)
           target == fs[next].target
           m == LookupStep(fs, root, follow, On(at, todo, links))
<1>1. Stepping(fs, root, follow, at, todo, links, m)
  BY OnSteps
<1>2. SameEnd(fs, root, follow, at, todo, links, end, m)
  BY ReachesStep
<1> HIDE DEF m
<1>3. \A at2, todo2, links2 : m = On(at2, todo2, links2) =>
         m.at = at2 /\ m.todo = todo2 /\ m.links = links2
  <2>1. ASSUME NEW at2, NEW todo2, NEW links2, m = On(at2, todo2, links2)
        PROVE  m.at = at2 /\ m.todo = todo2 /\ m.links = links2
    BY <2>1 DEF On
  <2> QED BY <2>1
<1> DEFINE A == R(at, todo, links)
<1>5. \A at2, todo2, links2 : m = On(at2, todo2, links2) => (A <=> R(at2, todo2, links2))
  <2>1. ASSUME NEW at2, NEW todo2, NEW links2, m = On(at2, todo2, links2)
        PROVE  A <=> R(at2, todo2, links2)
    <3>1. m.at = at2 /\ m.todo = todo2 /\ m.links = links2
      BY <1>3, <2>1
    <3>2. A => R(at2, todo2, links2)
      BY <1>2, <3>1 DEF SameEnd
    <3>3. R(at2, todo2, links2) => A
      BY <1>2, <2>1 DEF SameEnd
    <3> QED BY <3>2, <3>3
  <2> HIDE DEF R, A
  <2> QED BY <2>1
<1>6. m.err # "" => ~A
  BY <1>2 DEF SameEnd
<1>7. m.clamped => ~A
  BY <1>2 DEF SameEnd
<1>8. A => links <= end.links
  BY <1>2 DEF SameEnd
<1>9. R(next, rest, links) /\ rest # <<>> => Exists(fs, next)
  <2>1. R(next, rest, links) => next \in Seq(FileNames) /\ rest \in Seq(Parts)
    BY DEF Reaches
  <2> HIDE DEF next, rest
  <2> QED BY <2>1, ReachesNeeds DEF IsDir
<1> HIDE DEF R, A
<1>10. A => IsDir(fs, at)
  BY <1>1, <1>6 DEF Stepping
<1>11. IsDir(fs, at) /\ part \in {"", Dot} => (A <=> R(at, rest, links))
  BY <1>1, <1>5 DEF Stepping
<1>12. IsDir(fs, at) /\ part = DotDot => (A <=> (at = root => root = <<>>) /\ R(Parent(at), rest, links))
  BY <1>1, <1>5, <1>7 DEF Stepping
<1>13. IsDir(fs, at) /\ part \notin {"", Dot, DotDot} /\ Follows(fs, follow, at, todo) =>
          (A <=> links # SYMLOOP_MAX /\ R(Leading(root, at, target), Concat(target, rest), links + 1))
  BY <1>1, <1>5, <1>6 DEF Stepping
<1>14. IsDir(fs, at) /\ part \notin {"", Dot, DotDot} /\ ~Follows(fs, follow, at, todo) =>
          (A <=> R(next, rest, links))
  BY <1>1, <1>5, <1>6, <1>9 DEF Stepping
<1> QED BY <1>8, <1>10, <1>11, <1>12, <1>13, <1>14 DEF R, A, Rule

LEMMA HeadOfConcat ==
    ASSUME NEW S, NEW a \in Seq(S), NEW b \in Seq(S)
    PROVE  /\ a # <<>> => Head(a \o b) = Head(a) /\ Tail(a \o b) = Tail(a) \o b
                          /\ a \o b # <<>> /\ Tail(a) \in Seq(S)
           /\ \A x \in S : /\ <<x>> \o b \in Seq(S) /\ <<x>> \o b # <<>>
                           /\ Head(<<x>> \o b) = x /\ Tail(<<x>> \o b) = b
<1>1. ASSUME a # <<>>
      PROVE  Head(a \o b) = Head(a) /\ Tail(a \o b) = Tail(a) \o b /\ a \o b # <<>>
             /\ Tail(a) \in Seq(S)
  <2>1. /\ Head(a) \in S /\ Tail(a) \in Seq(S) /\ Len(Tail(a)) = Len(a) - 1
        /\ \A i \in 1..Len(Tail(a)) : Tail(a)[i] = a[i + 1]
    BY <1>1, HeadTailProperties
  <2>2. Len(a) \in Nat \ {0} /\ Len(b) \in Nat
    BY <1>1, EmptySeq
  <2>3. /\ a \o b \in Seq(S) /\ Len(a \o b) = Len(a) + Len(b)
        /\ \A i \in 1..(Len(a) + Len(b)) :
              (a \o b)[i] = IF i <= Len(a) THEN a[i] ELSE b[i - Len(a)]
    BY ConcatProperties
  <2>4. a \o b # <<>>
    BY <1>1, ConcatEqualIffEmpty
  <2>5. /\ Tail(a \o b) \in Seq(S) /\ Len(Tail(a \o b)) = Len(a \o b) - 1
        /\ \A i \in 1..Len(Tail(a \o b)) : Tail(a \o b)[i] = (a \o b)[i + 1]
    BY <2>3, <2>4, HeadTailProperties
  <2>6. /\ Tail(a) \o b \in Seq(S) /\ Len(Tail(a) \o b) = Len(Tail(a)) + Len(b)
        /\ \A i \in 1..(Len(Tail(a)) + Len(b)) :
              (Tail(a) \o b)[i] = IF i <= Len(Tail(a)) THEN Tail(a)[i] ELSE b[i - Len(Tail(a))]
    BY <2>1, ConcatProperties
  <2>7. Head(a \o b) = Head(a)
    <3>1. Head(a \o b) = (a \o b)[1] /\ Head(a) = a[1]
      BY <1>1, <2>3, <2>4, FirstIs
    <3>2. (a \o b)[1] = a[1]
      BY <2>2, <2>3
    <3> QED BY <3>1, <3>2
  <2>8. Tail(a \o b) = Tail(a) \o b
    <3> DEFINE s == Tail(a \o b)
               t == Tail(a) \o b
               m == Len(a)
               n == Len(b)
    <3>1. m \in Nat \ {0} /\ n \in Nat /\ Len(s) = (m + n) - 1 /\ Len(t) = (m - 1) + n
      BY <2>1, <2>2, <2>3, <2>5, <2>6
    <3>2. /\ \A i \in 1..((m + n) - 1) : s[i] = (a \o b)[i + 1]
          /\ \A i \in 1..(m + n) : (a \o b)[i] = IF i <= m THEN a[i] ELSE b[i - m]
          /\ \A i \in 1..((m - 1) + n) : t[i] = IF i <= m - 1 THEN Tail(a)[i] ELSE b[i - (m - 1)]
          /\ \A i \in 1..(m - 1) : Tail(a)[i] = a[i + 1]
      BY <2>1, <2>3, <2>5, <2>6
    <3>3. s \in Seq(S) /\ t \in Seq(S)
      BY <2>5, <2>6
    <3> HIDE DEF s, t, m, n
    <3>4. Len(s) = Len(t)
      BY <3>1
    <3>5. ASSUME NEW i \in 1..Len(s) PROVE s[i] = t[i]
      <4>1. i \in 1..((m + n) - 1) /\ i \in 1..((m - 1) + n) /\ i + 1 \in 1..(m + n)
        BY <3>1
      <4>2. CASE i <= m - 1
        <5>1. i + 1 <= m /\ i \in 1..(m - 1)
          BY <3>1, <4>1, <4>2
        <5> QED BY <3>2, <4>1, <4>2, <5>1
      <4>3. CASE ~(i <= m - 1)
        <5>1. ~(i + 1 <= m) /\ (i + 1) - m = i - (m - 1)
          BY <3>1, <4>1, <4>3
        <5> QED BY <3>2, <4>1, <4>3, <5>1
      <4> QED BY <4>2, <4>3
    <3>6. s = t
      BY <3>3, <3>4, <3>5, SeqEqual
    <3> QED BY <3>6 DEF s, t
  <2> QED BY <2>1, <2>4, <2>7, <2>8
<1>2. ASSUME NEW x \in S
      PROVE  /\ <<x>> \o b \in Seq(S) /\ <<x>> \o b # <<>>
             /\ Head(<<x>> \o b) = x /\ Tail(<<x>> \o b) = b
  <2> DEFINE o == <<x>>
             s == o \o b
  <2>1. o \in Seq(S) /\ Len(o) = 1 /\ o[1] = x /\ o # <<>>
    OBVIOUS
  <2> HIDE DEF o
  <2>2. Len(b) \in Nat
    OBVIOUS
  <2>3. /\ s \in Seq(S) /\ Len(s) = 1 + Len(b)
        /\ \A i \in 1..(1 + Len(b)) : s[i] = IF i <= 1 THEN o[i] ELSE b[i - 1]
    <3>1. /\ s \in Seq(S) /\ Len(s) = Len(o) + Len(b)
          /\ \A i \in 1..(Len(o) + Len(b)) : s[i] = IF i <= Len(o) THEN o[i] ELSE b[i - Len(o)]
      BY <2>1, ConcatProperties
    <3> HIDE DEF s
    <3> QED BY <2>1, <3>1
  <2>4. s # <<>>
    BY <2>1, ConcatEqualIffEmpty
  <2> HIDE DEF s
  <2>5. s[1] = x
    BY <2>1, <2>2, <2>3
  <2>6. Head(s) = x
    BY <2>3, <2>4, <2>5, FirstIs
  <2>7. /\ Tail(s) \in Seq(S) /\ Len(Tail(s)) = Len(s) - 1
        /\ \A i \in 1..Len(Tail(s)) : Tail(s)[i] = s[i + 1]
    BY <2>3, <2>4, HeadTailProperties
  <2>8. Len(Tail(s)) = Len(b)
    BY <2>2, <2>3, <2>7
  <2>9. ASSUME NEW i \in 1..Len(Tail(s)) PROVE Tail(s)[i] = b[i]
    <3>1. i + 1 \in 1..(1 + Len(b)) /\ ~(i + 1 <= 1) /\ (i + 1) - 1 = i
      BY <2>2, <2>8
    <3> QED BY <2>3, <2>7, <3>1
  <2>10. Tail(s) = b
    BY <2>7, <2>8, <2>9, SeqEqual
  <2> QED BY <2>3, <2>4, <2>6, <2>10 DEF s, o
<1> QED BY <1>1, <1>2

LEMMA Concats ==
    ASSUME NEW a \in Seq(Parts), NEW b \in Seq(Parts)
    PROVE  /\ Concat(a, b) \in Seq(Parts)
           /\ Concat(a, b) = <<>> <=> a = <<>> /\ b = <<>>
           /\ Concat(<<>>, a) = a /\ Concat(a, <<>>) = a
           /\ a # <<>> => Head(Concat(a, b)) = Head(a) /\ Tail(Concat(a, b)) = Concat(Tail(a), b)
<1>1. a \o b \in Seq(Parts)
  BY ConcatProperties
<1>2. a \o b = <<>> <=> a = <<>> /\ b = <<>>
  BY ConcatEqualIffEmpty
<1>3. <<>> \o a = a /\ a \o <<>> = a
  BY ConcatEmptySeq
<1>4. a # <<>> => Head(a \o b) = Head(a) /\ Tail(a \o b) = Tail(a) \o b
  BY HeadOfConcat
<1> QED BY <1>1, <1>2, <1>3, <1>4 DEF Concat

LEMMA ConcatParts ==
    \A a, b, c \in Seq(Parts) : Concat(Concat(a, b), c) = Concat(a, Concat(b, c))
  BY ConcatThree

\* A path of a part, or with one before it.
One(part) == <<part>>

LEMMA OneIs ==
    \A part \in Parts : /\ One(part) \in Seq(Parts) /\ One(part) # <<>>
                        /\ Head(One(part)) = part /\ Tail(One(part)) = <<>>
  BY DEF One

LEMMA OneBefore ==
    ASSUME NEW part \in Parts, NEW s \in Seq(Parts)
    PROVE  /\ Concat(One(part), s) \in Seq(Parts) /\ Concat(One(part), s) # <<>>
           /\ Head(Concat(One(part), s)) = part /\ Tail(Concat(One(part), s)) = s
<1>1. One(part) \in Seq(Parts) /\ One(part) # <<>> /\ Head(One(part)) = part /\ Tail(One(part)) = <<>>
  BY OneIs
<1> DEFINE o == One(part)
<1> HIDE DEF o
<1>2. o \in Seq(Parts) /\ o # <<>> /\ Head(o) = part /\ Tail(o) = <<>>
  BY <1>1 DEF o
<1>3. Concat(<<>>, s) = s
  BY Concats
<1>4. Concat(o, s) \in Seq(Parts) /\ Concat(o, s) # <<>>
      /\ Head(Concat(o, s)) = Head(o) /\ Tail(Concat(o, s)) = Concat(Tail(o), s)
  BY <1>2, Concats
<1> QED BY <1>2, <1>3, <1>4 DEF o

(***************************************************************************)
(* What leads to a directory leads there without a part that stays where   *)
(* it is: "." or nothing, before a slash or the last.                      *)
(***************************************************************************)
LEMMA DropFiller ==
    ASSUME NEW fs, IsTree(fs), NEW root \in Seq(FileNames), NEW end,
           NEW f \in {"", Dot}, NEW b \in Seq(Parts)
    PROVE  \A at, links : \A a \in Seq(Parts) :
              Reaches(fs, root, TRUE, at, Concat(a, Concat(One(f), b)), links, end)
              => Reaches(fs, root, TRUE, at, Concat(a, b), links, end)
<1> DEFINE R(at, s, n) == Reaches(fs, root, TRUE, at, s, n, end)
           fb == Concat(One(f), b)
           With(a) == Concat(a, fb)
           Drops(l, a) == l = On(l.at, With(a), l.links) /\ R(l.at, With(a), l.links)
                             => R(l.at, Concat(a, b), l.links)
           T == {l \in Lookups : \A a \in Seq(Parts) : Drops(l, a)}
<1>0. f \in Parts
  BY PartsAre
<1>1. fb \in Seq(Parts) /\ fb # <<>> /\ Head(fb) = f /\ Tail(fb) = b
  BY <1>0, OneBefore
<1> HIDE DEF fb
<1>2. ASSUME NEW a \in Seq(Parts)
      PROVE  With(a) \in Seq(Parts) /\ With(a) # <<>> /\ Concat(a, b) \in Seq(Parts)
  BY <1>1, Concats
<1>3. With(<<>>) = fb /\ Concat(<<>>, b) = b
  BY <1>1, Concats
<1>4. ASSUME NEW a \in Seq(Parts), a # <<>>
      PROVE  /\ Head(With(a)) = Head(a) /\ Tail(With(a)) = With(Tail(a))
             /\ Head(Concat(a, b)) = Head(a) /\ Tail(Concat(a, b)) = Concat(Tail(a), b)
             /\ Concat(a, b) # <<>> /\ Tail(a) \in Seq(Parts)
  <2>1. Tail(a) \in Seq(Parts)
    BY <1>4, HeadTailProperties
  <2> QED BY <1>1, <1>4, <2>1, Concats, ZenonT(30)
<1>5. ASSUME NEW c \in Seq(Parts), NEW a \in Seq(Parts)
      PROVE  /\ Concat(c, a) \in Seq(Parts) /\ Concat(c, With(a)) = With(Concat(c, a))
             /\ Concat(c, Concat(a, b)) = Concat(Concat(c, a), b)
  <2>1. Concat(c, a) \in Seq(Parts)
    BY Concats
  <2>2. Concat(Concat(c, a), fb) = Concat(c, Concat(a, fb))
    BY <1>1, ConcatParts, ZenonT(30)
  <2>3. Concat(Concat(c, a), b) = Concat(c, Concat(a, b))
    BY ConcatParts
  <2> QED BY <2>1, <2>2, <2>3
<1>6. \A l \in Final : l.err # "" \/ l.todo = <<>>
  BY DEF Final
<1>7. Final \subseteq T
  <2> SUFFICES ASSUME NEW l \in Final, NEW a \in Seq(Parts), l = On(l.at, With(a), l.links)
               PROVE  FALSE
    BY DEF Final
  <2> DEFINE k == On(l.at, With(a), l.links)
  <2>0. k.todo = With(a) /\ k.err = ""
    BY DEF On
  <2> HIDE DEF k
  <2>1. l.todo = With(a) /\ l.err = ""
    BY <2>0 DEF k
  <2> QED BY <1>2, <1>6, <2>1 DEF With
<1>8. ASSUME NEW l \in Lookups, l \notin Final, LookupStep(fs, root, TRUE, l) \in T
      PROVE  l \in T
  <2> SUFFICES ASSUME NEW a \in Seq(Parts), l = On(l.at, With(a), l.links),
                      R(l.at, With(a), l.links)
               PROVE  R(l.at, Concat(a, b), l.links)
    OBVIOUS
  <2> DEFINE at == l.at
             links == l.links
             m == LookupStep(fs, root, TRUE, l)
             x == With(a)
             y == Concat(a, b)
  <2>1. at \in Seq(FileNames) /\ links \in 0..SYMLOOP_MAX
    BY DEF Lookups
  <2>2. x \in Seq(Parts) /\ x # <<>> /\ y \in Seq(Parts)
    BY <1>2 DEF With
  <2>3. Rule(fs, root, TRUE, at, x, links, end)
    <3> HIDE DEF at, links, x
    <3> QED BY <2>1, <2>2, ReachesIs
  <2>4. R(at, x, links)
    OBVIOUS
  <2>5. IsDir(fs, at)
    BY <2>3, <2>4 DEF Rule
  <2>6. CASE a = <<>>
    <3>1. x = fb /\ y = b
      BY <1>3, <2>6
    <3>2. Head(x) = f /\ Tail(x) = b
      BY <1>1, <3>1 DEF With
    <3>3. R(at, b, links)
      BY <2>3, <2>4, <2>5, <3>2 DEF Rule
    <3> QED BY <3>1, <3>3
  <2>7. CASE a # <<>>
    <3> DEFINE part == Head(a)
               rest == Tail(a)
               next == Append(at, part)
               target == fs[next].target
    <3>1. /\ Head(x) = part /\ Tail(x) = With(rest)
          /\ Head(y) = part /\ Tail(y) = Concat(rest, b) /\ y # <<>> /\ rest \in Seq(Parts)
      BY <1>4, <2>7
    <3>2. Rule(fs, root, TRUE, at, y, links, end)
      <4> HIDE DEF at, links, y
      <4> QED BY <2>1, <2>2, <3>1, ReachesIs
    <3>3. Stepping(fs, root, TRUE, at, x, links, LookupStep(fs, root, TRUE, On(at, x, links)))
      BY OnSteps
    <3>4. Stepping(fs, root, TRUE, at, x, links, m)
      BY <3>3
    <3>5. ASSUME NEW at2, NEW c \in Seq(Parts), NEW links2,
                 m = On(at2, With(c), links2), R(at2, With(c), links2)
          PROVE  R(at2, Concat(c, b), links2)
      <4> DEFINE k == On(at2, With(c), links2)
      <4>0. k.at = at2 /\ k.links = links2
        BY DEF On
      <4> HIDE DEF k
      <4>1. m.at = at2 /\ m.links = links2
        BY <3>5, <4>0 DEF k
      <4>2. Drops(m, c)
        BY <1>8
      <4> HIDE DEF m
      <4> QED BY <3>5, <4>1, <4>2
    <3>6. Follows(fs, TRUE, at, x) <=> IsLink(fs, next)
      BY <3>1 DEF Follows
    <3>7. Follows(fs, TRUE, at, y) <=> IsLink(fs, next)
      BY <3>1 DEF Follows
    <3>8. IsLink(fs, next) => target \in Seq(Parts)
      BY DEF IsLink, Exists, IsTree, Inodes, Pathnames
    <3> HIDE DEF part, rest, next, at, links, x, y, m, R, With
    <3>9. CASE part \in {"", Dot}
      <4>1. R(at, With(rest), links)
        BY <2>3, <2>4, <2>5, <3>1, <3>9 DEF Rule, R
      <4>2. m = On(at, With(rest), links)
        BY <2>5, <3>1, <3>4, <3>9 DEF Stepping
      <4>3. R(at, Concat(rest, b), links)
        BY <3>1, <3>5, <4>1, <4>2
      <4> QED BY <2>5, <3>1, <3>2, <3>9, <4>3 DEF Rule, R, at, links, y
    <3>10. CASE part = DotDot
      <4>1. R(Parent(at), With(rest), links) /\ (at = root => root = <<>>)
        BY <2>3, <2>4, <2>5, <3>1, <3>10 DEF Rule, R
      <4>2. m = On(Parent(at), With(rest), links)
        BY <2>5, <3>1, <3>4, <3>10, <4>1 DEF Stepping
      <4>3. R(Parent(at), Concat(rest, b), links)
        BY <3>1, <3>5, <4>1, <4>2
      <4> QED BY <2>5, <3>1, <3>2, <3>10, <4>1, <4>3 DEF Rule, R, at, links, y
    <3>11. CASE part \notin {"", Dot, DotDot} /\ IsLink(fs, next)
      <4> DEFINE to == Leading(root, at, target)
      <4>1. R(to, Concat(target, With(rest)), links + 1) /\ links # SYMLOOP_MAX
        BY <2>3, <2>4, <2>5, <3>1, <3>6, <3>11 DEF Rule, R, next
      <4>2. m = On(to, Concat(target, With(rest)), links + 1)
        BY <2>5, <3>1, <3>4, <3>6, <3>11, <4>1 DEF Stepping, next
      <4>3. target \in Seq(Parts) /\ rest \in Seq(Parts)
        BY <3>1, <3>8, <3>11
      <4> HIDE DEF target, to
      <4>4. Concat(target, With(rest)) = With(Concat(target, rest)) /\ Concat(target, rest) \in Seq(Parts)
            /\ Concat(target, Concat(rest, b)) = Concat(Concat(target, rest), b)
        BY <1>5, <4>3
      <4>5. R(to, Concat(Concat(target, rest), b), links + 1)
        BY <3>5, <4>1, <4>2, <4>4
      <4>6. R(to, Concat(target, Concat(rest, b)), links + 1)
        BY <4>4, <4>5
      <4> QED BY <2>5, <3>1, <3>2, <3>7, <3>11, <4>1, <4>6 DEF Rule, R, at, links, y, to, target, next
    <3>12. CASE part \notin {"", Dot, DotDot} /\ ~IsLink(fs, next)
      <4>1. R(next, With(rest), links)
        BY <2>3, <2>4, <2>5, <3>1, <3>6, <3>12 DEF Rule, R, next
      <4>2. m = On(next, With(rest), links)
        <5>2. \/ m.err # "" /\ ~Exists(fs, next) /\ With(rest) # <<>>
              \/ m = On(next, With(rest), links)
          BY <2>5, <3>1, <3>4, <3>6, <3>12 DEF Stepping, next
        <5>3. next \in Seq(FileNames) /\ With(rest) \in Seq(Parts)
          BY <4>1 DEF R, Reaches
        <5>4. With(rest) # <<>> => IsDir(fs, next)
          BY <2>1, <4>1, <5>3, ReachesNeeds DEF R, links
        <5> QED BY <5>2, <5>4 DEF IsDir
      <4>3. R(next, Concat(rest, b), links)
        BY <3>1, <3>5, <4>1, <4>2
      <4> QED BY <2>5, <3>1, <3>2, <3>7, <3>12, <4>3 DEF Rule, R, at, links, y, next
    <3> QED BY <3>9, <3>10, <3>11, <3>12
  <2> QED BY <2>6, <2>7
<1> HIDE DEF T
<1>9. Lookups \subseteq T
  BY <1>7, <1>8, LookupInduction
<1>10. ASSUME NEW at, NEW links, NEW a \in Seq(Parts), R(at, With(a), links)
       PROVE  R(at, Concat(a, b), links)
  <2> DEFINE l == On(at, With(a), links)
  <2>1. at \in Seq(FileNames) /\ links \in 0..SYMLOOP_MAX /\ With(a) \in Seq(Parts)
    BY <1>10 DEF Reaches
  <2>2. l \in Lookups
    BY <2>1, OnIs
  <2>3. l.at = at /\ l.links = links
    BY DEF On
  <2>4. l \in T
    BY <1>9, <2>2
  <2> HIDE DEF l
  <2>5. Drops(l, a)
    BY <2>4 DEF T
  <2>6. l = On(l.at, With(a), l.links)
    BY <2>3 DEF l
  <2> QED BY <1>10, <2>3, <2>5, <2>6
<1> QED BY <1>10 DEF fb

-----------------------------------------------------------------------------
(***************************************************************************)
(* Walks of several parts: slashes, the names of directories, "..".        *)
(***************************************************************************)
LEMMA LookupIs ==
    ASSUME NEW fs, NEW root, NEW cwd, NEW path, path # Empty, NEW follow
    PROVE  Lookup(fs, root, cwd, path, follow)
              = Walked(fs, root, follow, On(IF IsAbsolute(path) THEN root ELSE cwd, path, 0))
<1>1. LookupStart(root, cwd, path) = On(IF IsAbsolute(path) THEN root ELSE cwd, path, 0)
  BY DEF LookupStart, On
<1> QED BY <1>1 DEF Lookup, Walked

LEMMA SkipReaches ==
    ASSUME NEW fs, IsTree(fs), NEW root \in Seq(FileNames), NEW follow, NEW end,
           NEW at, NEW stack, NEW links,
           Reaches(fs, root, follow, at, stack, links, end)
    PROVE  Reaches(fs, root, follow, at, SkipSlashes(stack), links, end)
<1> DEFINE n == Len(stack)
           R(s) == Reaches(fs, root, follow, at, s, links, end)
<1>1. at \in Seq(FileNames) /\ stack \in Seq(Parts) /\ links \in 0..SYMLOOP_MAX
  BY DEF Reaches
<1>2. n \in Nat
  BY <1>1
<1>3. PICK k \in 1..(n + 1) : /\ \A m \in 1..(k - 1) : stack[m] = ""
                              /\ SkipSlashes(stack) = SubSeq(stack, k, n)
  BY <1>1, SkipSlashesIs
<1> DEFINE T == {j \in Nat : j <= k - 1 => R(Rest(stack, j))}
<1> HIDE DEF R
<1>4. 0 \in T
  BY <1>1, CutEnds DEF R
<1>5. ASSUME NEW j \in Nat, j \in T PROVE j + 1 \in T
  <2> SUFFICES ASSUME j + 1 <= k - 1 PROVE R(Rest(stack, j + 1))
    OBVIOUS
  <2>1. j <= k - 1 /\ j \in 0..n /\ j # n /\ j + 1 \in 1..(k - 1)
    BY <1>2
  <2>2. R(Rest(stack, j)) /\ stack[j + 1] = ""
    BY <1>3, <1>5, <2>1
  <2>3. Rest(stack, j) \in Seq(Parts)
    BY <1>1, <2>1, CutIs
  <2>4. Rest(stack, j) # <<>> /\ Head(Rest(stack, j)) = "" /\ Tail(Rest(stack, j)) = Rest(stack, j + 1)
    BY <1>1, <2>1, <2>2, CutSteps
  <2>5. Rule(fs, root, follow, at, Rest(stack, j), links, end)
    BY <1>1, <2>3, <2>4, ReachesIs
  <2> QED BY <2>2, <2>4, <2>5 DEF Rule, R
<1> HIDE DEF T
<1>6. k - 1 \in T
  BY <1>2, <1>4, <1>5, Induction
<1>7. k - 1 \in Nat /\ (k - 1) + 1 = k
  BY <1>2
<1>8. R(Rest(stack, k - 1))
  BY <1>6, <1>7 DEF T
<1> QED BY <1>3, <1>7, <1>8 DEF R, Rest

LEMMA NamesAreParts == \A s \in Seq(FileNames) : s \in Seq(Parts) /\ Len(s) \in Nat
<1> TAKE s \in Seq(FileNames)
<1>1. Len(s) \in Nat /\ \A i \in 1..Len(s) : s[i] \in FileNames
  OBVIOUS
<1>2. \A i \in 1..Len(s) : s[i] \in Parts
  BY <1>1, PartsAre
<1>3. s = [i \in 1..Len(s) |-> s[i]]
  OBVIOUS
<1>4. [i \in 1..Len(s) |-> s[i]] \in Seq(Parts)
  BY <1>1, <1>2
<1> QED BY <1>1, <1>3, <1>4

\* From a directory above, by the names of those below.
LEMMA WalkDown ==
    ASSUME NEW fs, IsTree(fs), NEW root \in Seq(FileNames), NEW follow, NEW end,
           NEW loc \in DOMAIN fs, IsDir(fs, loc), NEW todo \in Seq(Parts),
           NEW links \in 0..SYMLOOP_MAX, NEW k \in 0..Len(loc)
    PROVE  Reaches(fs, root, follow, loc, todo, links, end)
              <=> Reaches(fs, root, follow, Begin(loc, k), Concat(Rest(loc, k), todo), links, end)
<1> DEFINE n == Len(loc)
           R(at, s) == Reaches(fs, root, follow, at, s, links, end)
           Same(i) == R(loc, todo) <=> R(Begin(loc, i), Concat(Rest(loc, i), todo))
           T == {j \in Nat : j <= n => Same(n - j)}
<1>1. loc \in Seq(FileNames) /\ loc \in Seq(Parts) /\ n \in Nat
  <2>1. loc \in Seq(FileNames)
    BY DEF IsTree
  <2> QED BY <2>1, NamesAreParts
<1> HIDE DEF R
<1>2. 0 \in T
  <2>1. Begin(loc, n) = loc /\ Rest(loc, n) = <<>> /\ n - 0 = n
    BY <1>1, CutEnds
  <2>2. Concat(<<>>, todo) = todo
    BY Concats
  <2> QED BY <2>1, <2>2
<1>3. ASSUME NEW j \in Nat, j \in T PROVE j + 1 \in T
  <2> SUFFICES ASSUME j + 1 <= n PROVE Same(n - (j + 1))
    OBVIOUS
  <2> DEFINE i == n - (j + 1)
  <2>1. j <= n /\ i \in 0..n /\ i # n /\ n - j = i + 1 /\ i + 1 \in 0..n
    BY <1>1
  <2>2. Same(i + 1)
    BY <1>3, <2>1
  <2> HIDE DEF i
  <2> DEFINE s == Concat(Rest(loc, i), todo)
             at == Begin(loc, i)
  <2>3. /\ loc[i + 1] \in FileNames
        /\ Rest(loc, i) # <<>> /\ Head(Rest(loc, i)) = loc[i + 1]
        /\ Tail(Rest(loc, i)) = Rest(loc, i + 1)
        /\ Append(at, loc[i + 1]) = Begin(loc, i + 1)
    BY <1>1, <2>1, CutSteps
  <2>4. Rest(loc, i) \in Seq(Parts) /\ at \in Seq(FileNames)
    BY <1>1, <2>1, CutIs
  <2>5. /\ s \in Seq(Parts) /\ s # <<>> /\ Head(s) = loc[i + 1]
        /\ Tail(s) = Concat(Rest(loc, i + 1), todo)
    <3> DEFINE a == Rest(loc, i)
    <3>1. a \in Seq(Parts) /\ a # <<>> /\ Head(a) = loc[i + 1] /\ Tail(a) = Rest(loc, i + 1)
      BY <2>3, <2>4
    <3> HIDE DEF a
    <3>2. /\ Concat(a, todo) \in Seq(Parts) /\ Concat(a, todo) # <<>>
          /\ Head(Concat(a, todo)) = Head(a) /\ Tail(Concat(a, todo)) = Concat(Tail(a), todo)
      BY <3>1, Concats
    <3> QED BY <3>1, <3>2 DEF a
  <2>6. Rule(fs, root, follow, at, s, links, end)
    <3> HIDE DEF s, at
    <3> QED BY <2>4, <2>5, ReachesIs
  <2>7. IsDir(fs, at) /\ Exists(fs, Begin(loc, i + 1)) /\ (i + 1 # n => IsDir(fs, Begin(loc, i + 1)))
    BY <2>1, OnTheWay
  <2>8. i + 1 = n => Begin(loc, i + 1) = loc
    BY <1>1, CutEnds
  <2>9. ~IsLink(fs, Begin(loc, i + 1))
    BY <2>7, <2>8 DEF IsDir, IsLink
  <2>10. ~Follows(fs, follow, at, s)
    <3> HIDE DEF s, at
    <3> QED BY <2>3, <2>5, <2>9 DEF Follows
  <2>11. loc[i + 1] \notin {"", Dot, DotDot}
    BY <2>3, PartsAre
  <2>12. R(at, s) <=> R(Begin(loc, i + 1), Concat(Rest(loc, i + 1), todo))
    <3> HIDE DEF s, at
    <3> QED BY <2>3, <2>5, <2>6, <2>7, <2>10, <2>11 DEF Rule, R
  <2> QED BY <2>2, <2>12 DEF i
<1> HIDE DEF T
<1>4. n - k \in Nat /\ n - k <= n /\ n - (n - k) = k
  BY <1>1
<1>5. n - k \in T
  BY <1>2, <1>3, <1>4, Induction
<1> HIDE DEF Same
<1>6. Same(k)
  BY <1>4, <1>5 DEF T
<1> QED BY <1>6 DEF Same, R

\* The directory n times ".." leads to.
Up(cwd, n) == Begin(cwd, Len(cwd) - (IF n > Len(cwd) THEN Len(cwd) ELSE n))

LEMMA UpIs ==
    ASSUME NEW fs, IsTree(fs), NEW cwd \in DOMAIN fs, IsDir(fs, cwd), NEW n \in Nat
    PROVE  /\ Up(cwd, n) \in Seq(FileNames) /\ IsDir(fs, Up(cwd, n))
           /\ Up(cwd, 0) = cwd /\ Up(cwd, n + 1) = Parent(Up(cwd, n))
<1> DEFINE m == Len(cwd)
<1>1. cwd \in Seq(FileNames) /\ m \in Nat
  BY DEF IsTree
<1> HIDE DEF m
<1>2. CASE n >= m
  <2>1. Up(cwd, n) = Begin(cwd, 0) /\ Up(cwd, n + 1) = Begin(cwd, 0)
    <3>1. m - (IF n > m THEN m ELSE n) = 0 /\ m - (IF n + 1 > m THEN m ELSE n + 1) = 0
      BY <1>1, <1>2
    <3> QED BY <3>1 DEF Up, m
  <2>2. Begin(cwd, 0) = <<>>
    BY <1>1, CutEnds
  <2>3. Parent(<<>>) = <<>>
    BY DEF Parent
  <2>4. IsDir(fs, Begin(cwd, 0))
    <3>1. 0 \in 0..m /\ (m = 0 => Begin(cwd, m) = cwd)
      BY <1>1, CutEnds DEF m
    <3>2. 0 # m => IsDir(fs, Begin(cwd, 0))
      BY <3>1, OnTheWay DEF m
    <3> QED BY <3>1, <3>2
  <2>5. Up(cwd, n) \in Seq(FileNames)
    <3>1. <<>> \in Seq(FileNames)
      OBVIOUS
    <3> QED BY <2>1, <2>2, <3>1
  <2>6. Up(cwd, n + 1) = Parent(Up(cwd, n))
    BY <2>1, <2>2, <2>3
  <2>7. Up(cwd, 0) = cwd
    <3>1. m - (IF 0 > m THEN m ELSE 0) = m
      BY <1>1
    <3> QED BY <1>1, <3>1, CutEnds DEF Up, m
  <2> QED BY <2>1, <2>4, <2>5, <2>6, <2>7
<1>3. CASE ~(n >= m)
  <2> DEFINE k == m - (n + 1)
  <2>1. /\ k \in 0..m /\ k # m /\ k + 1 \in 0..m /\ m - (IF n > m THEN m ELSE n) = k + 1
        /\ m - (IF n + 1 > m THEN m ELSE n + 1) = k /\ m - (IF 0 > m THEN m ELSE 0) = m
    BY <1>1, <1>3
  <2> HIDE DEF k
  <2>2. Up(cwd, n) = Begin(cwd, k + 1) /\ Up(cwd, n + 1) = Begin(cwd, k) /\ Up(cwd, 0) = Begin(cwd, m)
    BY <2>1 DEF Up, m
  <2>3. Begin(cwd, m) = cwd
    BY <1>1, CutEnds DEF m
  <2>4. Parent(Begin(cwd, k + 1)) = Begin(cwd, k)
    BY <1>1, <2>1, CutSteps DEF m
  <2>5. Begin(cwd, k + 1) \in Seq(FileNames)
    BY <1>1, <2>1, CutIs DEF m
  <2>6. IsDir(fs, Begin(cwd, k + 1))
    <3>1. k + 1 # m => IsDir(fs, Begin(cwd, k + 1))
      BY <2>1, OnTheWay DEF m
    <3> QED BY <2>3, <3>1
  <2> QED BY <2>2, <2>3, <2>4, <2>5, <2>6
<1> QED BY <1>1, <1>2, <1>3

LEMMA WalkUp ==
    ASSUME NEW fs, IsTree(fs), NEW follow, NEW end,
           NEW cwd \in DOMAIN fs, IsDir(fs, cwd), NEW out \in Seq(Parts), NEW todo \in Seq(Parts),
           NEW links \in 0..SYMLOOP_MAX,
           NEW nup \in 0..Len(out), \A i \in 1..nup : out[i] = DotDot
    PROVE  Reaches(fs, <<>>, follow, cwd, Concat(out, todo), links, end)
              <=> Reaches(fs, <<>>, follow, Up(cwd, nup), Concat(Rest(out, nup), todo), links, end)
<1> DEFINE n == Len(out)
           R(at, s) == Reaches(fs, <<>>, follow, at, s, links, end)
           Same(j) == R(cwd, Concat(out, todo)) <=> R(Up(cwd, j), Concat(Rest(out, j), todo))
           T == {j \in Nat : j <= nup => Same(j)}
<1>1. n \in Nat /\ nup \in Nat /\ nup <= n /\ <<>> \in Seq(FileNames)
  OBVIOUS
<1> HIDE DEF R
<1>2. 0 \in T
  <2>1. Rest(out, 0) = out /\ Up(cwd, 0) = cwd
    BY CutEnds, UpIs
  <2> QED BY <2>1
<1>3. ASSUME NEW j \in Nat, j \in T PROVE j + 1 \in T
  <2> SUFFICES ASSUME j + 1 <= nup PROVE Same(j + 1)
    OBVIOUS
  <2>1. j <= nup /\ j \in 0..n /\ j # n /\ j + 1 \in 1..nup
    BY <1>1
  <2>2. Same(j)
    BY <1>3, <2>1
  <2> DEFINE a == Rest(out, j)
             s == Concat(a, todo)
             at == Up(cwd, j)
  <2>3. a # <<>> /\ Head(a) = DotDot /\ Tail(a) = Rest(out, j + 1) /\ a \in Seq(Parts)
    BY <2>1, CutSteps, CutIs, SMTT(30)
  <2>4. at \in Seq(FileNames) /\ IsDir(fs, at) /\ Up(cwd, j + 1) = Parent(at)
    BY UpIs
  <2> HIDE DEF a, at
  <2>5. s \in Seq(Parts) /\ s # <<>> /\ Head(s) = DotDot /\ Tail(s) = Concat(Rest(out, j + 1), todo)
    <3>1. /\ Concat(a, todo) \in Seq(Parts) /\ Concat(a, todo) # <<>>
          /\ Head(Concat(a, todo)) = Head(a) /\ Tail(Concat(a, todo)) = Concat(Tail(a), todo)
      BY <2>3, Concats
    <3> QED BY <2>3, <3>1
  <2> HIDE DEF s
  <2>6. Rule(fs, <<>>, follow, at, s, links, end)
    BY <1>1, <2>4, <2>5, ReachesIs
  <2>7. R(at, s) <=> R(Up(cwd, j + 1), Concat(Rest(out, j + 1), todo))
    BY <2>4, <2>5, <2>6 DEF Rule, R
  <2>8. R(cwd, Concat(out, todo)) <=> R(at, s)
    BY <2>2 DEF a, at, s
  <2> QED BY <2>7, <2>8
<1> HIDE DEF T
<1>4. nup \in T
  BY <1>1, <1>2, <1>3, Induction
<1> HIDE DEF Same
<1>5. Same(nup)
  BY <1>1, <1>4 DEF T
<1> QED BY <1>5 DEF Same, R

LEMMA ConcatCuts ==
    ASSUME NEW S, NEW a \in Seq(S), NEW b \in Seq(S)
    PROVE  /\ Concat(a, b) \in Seq(S) /\ Len(a) \in 0..Len(Concat(a, b))
           /\ Begin(Concat(a, b), Len(a)) = a /\ Rest(Concat(a, b), Len(a)) = b
<1> DEFINE s == a \o b
<1>1. Len(a) \in Nat /\ Len(b) \in Nat
  OBVIOUS
<1>2. /\ s \in Seq(S) /\ Len(s) = Len(a) + Len(b)
      /\ \A i \in 1..(Len(a) + Len(b)) : s[i] = IF i <= Len(a) THEN a[i] ELSE b[i - Len(a)]
  BY ConcatProperties
<1> HIDE DEF s
<1>3. Len(a) \in 0..Len(s)
  BY <1>1, <1>2
<1> DEFINE c == Begin(s, Len(a))
           d == Rest(s, Len(a))
<1>4. /\ c \in Seq(S) /\ Len(c) = Len(a) /\ \A i \in 1..Len(a) : c[i] = s[i]
      /\ d \in Seq(S) /\ Len(d) = Len(s) - Len(a)
      /\ \A i \in 1..(Len(s) - Len(a)) : d[i] = s[Len(a) + i]
  BY <1>2, <1>3, CutIs
<1> HIDE DEF c, d
<1>5. c = a
  <2>1. \A i \in 1..Len(c) : c[i] = a[i]
    BY <1>1, <1>2, <1>4
  <2> QED BY <1>4, <2>1, SeqEqual
<1>6. d = b
  <2>1. Len(d) = Len(b)
    BY <1>1, <1>2, <1>4
  <2>2. ASSUME NEW i \in 1..Len(d) PROVE d[i] = b[i]
    <3>1. i \in 1..(Len(s) - Len(a)) /\ Len(a) + i \in 1..(Len(a) + Len(b)) /\ ~(Len(a) + i <= Len(a))
          /\ (Len(a) + i) - Len(a) = i
      BY <1>1, <1>2, <2>1
    <3> QED BY <1>2, <1>4, <3>1
  <2> QED BY <1>4, <2>1, <2>2, SeqEqual
<1> QED BY <1>2, <1>3, <1>5, <1>6 DEF s, c, d, Concat

-----------------------------------------------------------------------------
(***************************************************************************)
(* The location the output of __realpathat() stands for.                   *)
(***************************************************************************)
Place(cwd, r) == IF r.abs THEN r.out ELSE Concat(Up(cwd, r.nup), Rest(r.out, r.nup))

\* The path of a location that begins with as many slashes as the output.
Written(r, loc) == IF r.abs /\ r.two THEN Empty \o HostPath(loc) ELSE HostPath(loc)

\* The ".." of the output are its first parts, and it has names after them.
Shaped(r) ==
    /\ r.nup \in 0..Len(r.out) /\ (\A i \in 1..r.nup : r.out[i] = DotDot)
    /\ Rest(r.out, r.nup) \in Seq(FileNames) /\ (r.abs => r.nup = 0)

LEMMA PlaceIs ==
    ASSUME NEW fs, IsTree(fs), NEW cwd \in DOMAIN fs, IsDir(fs, cwd),
           NEW r \in Resolutions, Shaped(r)
    PROVE  /\ Place(cwd, r) \in Seq(FileNames)
           /\ r.abs => r.out \in Seq(FileNames)
           /\ RealpathResult(cwd, <<>>, [r EXCEPT !.done = TRUE]) = Written(r, Place(cwd, r))
<1>1. r.nup \in Nat /\ r.out \in Seq(Parts) /\ r.abs \in BOOLEAN
  BY DEF Resolutions
<1>2. Up(cwd, r.nup) \in Seq(FileNames)
  BY <1>1, UpIs
<1>3. r.abs => r.out \in Seq(FileNames)
  BY <1>1, CutEnds DEF Shaped
<1>4. Place(cwd, r) \in Seq(FileNames)
  <2>1. Rest(r.out, r.nup) \in Seq(FileNames)
    BY DEF Shaped
  <2>2. Up(cwd, r.nup) \o Rest(r.out, r.nup) \in Seq(FileNames)
    BY <1>2, <2>1, ConcatProperties
  <2> QED BY <1>3, <2>2 DEF Place, Concat
<1> DEFINE d == [r EXCEPT !.done = TRUE]
<1>5. d.done /\ d.abs = r.abs /\ d.two = r.two /\ d.out = r.out /\ d.nup = r.nup
  BY DEF Resolutions
<1> HIDE DEF d
<1>6. RealpathResult(cwd, <<>>, d) = Written(r, Place(cwd, r))
  BY <1>5 DEF RealpathResult, Written, Place, Up, Begin, Rest, Concat
<1> QED BY <1>3, <1>4, <1>6 DEF d

\* What the program looks the output up with leads to the place, and on from it.
LEMMA OutputReaches ==
    ASSUME NEW fs, IsTree(fs), NEW cwd \in DOMAIN fs, IsDir(fs, cwd),
           NEW r \in Resolutions, Shaped(r), IsDir(fs, Place(cwd, r)), NEW part \in Parts,
           NEW follow, NEW end,
           Reaches(fs, <<>>, follow, Place(cwd, r), One(part), 0, end)
    PROVE  Lookup(fs, <<>>, cwd, Output(r, part), follow) = end
<1> DEFINE R(at, s) == Reaches(fs, <<>>, follow, at, s, 0, end)
           o == One(part)
           path == Output(r, part)
           loc == Place(cwd, r)
<1>1. /\ r.nup \in Nat /\ r.out \in Seq(Parts) /\ r.abs \in BOOLEAN /\ o \in Seq(Parts) /\ o # <<>>
      /\ Head(o) = part /\ Tail(o) = <<>>
  BY OneIs DEF Resolutions
<1>2. loc \in Seq(FileNames) /\ loc \in DOMAIN fs /\ (r.abs => r.out \in Seq(FileNames))
  BY PlaceIs DEF IsDir, Exists
<1>3. 0 \in 0..SYMLOOP_MAX /\ <<>> \in Seq(FileNames)
  BY KernelAssumption
<1>4. R(loc, o)
  OBVIOUS
<1>5. \A k \in 0..Len(loc), s \in Seq(Parts) :
         R(loc, s) <=> R(Begin(loc, k), Concat(Rest(loc, k), s))
  BY <1>2, <1>3, WalkDown
<1>6. \A s : R(IF IsAbsolute(s) THEN <<>> ELSE cwd, s) /\ s # Empty =>
                Lookup(fs, <<>>, cwd, s, follow) = end
  <2>1. ASSUME NEW s, s # Empty, R(IF IsAbsolute(s) THEN <<>> ELSE cwd, s)
        PROVE  Lookup(fs, <<>>, cwd, s, follow) = end
    BY <2>1, LookupIs DEF Reaches
  <2> QED BY <2>1
<1> HIDE DEF R
<1>7. CASE r.abs
  <2> DEFINE names == Concat(loc, o)
             s == IF r.two THEN Concat(One(""), names) ELSE names
  <2>1. names \in Seq(Parts) /\ names # <<>> /\ One("") \in Seq(Parts) /\ "" \in Parts
        /\ loc \in Seq(Parts)
    <3>1. loc \in Seq(Parts) /\ One("") \in Seq(Parts) /\ "" \in Parts
      BY <1>2, NamesAreParts, PartsAre, OneIs
    <3> HIDE DEF loc, o
    <3> QED BY <1>1, <3>1, Concats
  <2>2. Concat(One(""), names) \in Seq(Parts) /\ Concat(One(""), names) # <<>>
        /\ Head(Concat(One(""), names)) = "" /\ Tail(Concat(One(""), names)) = names
    <3> HIDE DEF names
    <3> QED BY <2>1, OneBefore
  <2>3. IsDir(fs, <<>>)
    <3>1. Begin(cwd, 0) = <<>> /\ 0 \in 0..Len(cwd) /\ (Len(cwd) = 0 => cwd = <<>>)
      BY CutEnds DEF IsTree
    <3>2. 0 # Len(cwd) => IsDir(fs, Begin(cwd, 0))
      BY <3>1, OnTheWay
    <3> QED BY <3>1, <3>2
  <2>4. R(<<>>, names)
    <3>1. 0 \in 0..Len(loc) /\ Begin(loc, 0) = <<>> /\ Rest(loc, 0) = loc
      BY <1>2, CutEnds
    <3> HIDE DEF loc
    <3> QED BY <1>1, <1>4, <1>5, <3>1
  <2>5. R(<<>>, s)
    <3>1. R(<<>>, Concat(One(""), names))
      <4> DEFINE y == Concat(One(""), names)
      <4>1. y \in Seq(Parts) /\ y # <<>> /\ Head(y) = "" /\ Tail(y) = names
        BY <2>2
      <4> HIDE DEF y, names
      <4>2. Rule(fs, <<>>, follow, <<>>, y, 0, end)
        BY <1>3, <4>1, ReachesIs
      <4> QED BY <2>3, <2>4, <4>1, <4>2 DEF Rule, R, y
    <3> QED BY <2>4, <3>1
  <2>6. s \in Seq(Parts) /\ s # <<>>
    BY <2>1, <2>2
  <2>7. path = Concat(One(""), s)
    <3>1. loc = r.out
      BY <1>7 DEF Place
    <3>2. CASE ~r.two
      <4>1. path = (Empty \o r.out) \o o
        BY <1>7, <3>2 DEF Output, Lead, One, Empty
      <4>2. Concat(Concat(One(""), loc), o) = Concat(One(""), Concat(loc, o))
        <5> HIDE DEF loc, o
        <5> QED BY <1>1, <2>1, ConcatParts
      <4> QED BY <3>1, <3>2, <4>1, <4>2 DEF Concat, One, Empty
    <3>3. CASE r.two
      <4>1. path = (Slash \o r.out) \o o
        BY <1>7, <3>3 DEF Output, Lead, One, Empty
      <4>2. Slash = Concat(One(""), One(""))
        BY TwiceEmpty DEF Concat, One, Empty
      <4>3. Slash \in Seq(Parts)
        BY PathnamesAre
      <4>4. Concat(Concat(Slash, loc), o) = Concat(Slash, Concat(loc, o))
        <5> HIDE DEF loc, o
        <5> QED BY <1>1, <2>1, <4>3, ConcatParts
      <4>5. Concat(Concat(One(""), One("")), names) = Concat(One(""), Concat(One(""), names))
        <5> HIDE DEF names
        <5> QED BY <2>1, ConcatParts
      <4>6. path = Concat(Slash, names)
        BY <3>1, <4>1, <4>4 DEF Concat
      <4> QED BY <3>3, <4>2, <4>5, <4>6
    <3> QED BY <3>2, <3>3
  <2> HIDE DEF s, path, loc, o, names
  <2>8. path \in Seq(Parts) /\ path # <<>> /\ Head(path) = "" /\ Tail(path) = s
    BY <2>6, <2>7, OneBefore, PartsAre
  <2>9. IsAbsolute(path)
    <3>1. Len(path) # 1
      <4>1. Len(s) \in Nat \ {0} /\ Len(s) = Len(path) - 1 /\ Len(path) \in Nat
        BY <2>6, <2>8, HeadTailProperties, EmptySeq
      <4> QED BY <4>1
    <3>2. Len(path) \in Nat \ {0} /\ path[1] = ""
      BY <2>8, EmptySeq, FirstIs
    <3>3. \A n \in Nat \ {0} : n # 1 => n > 1
      OBVIOUS
    <3>4. Len(path) > 1
      BY <3>1, <3>2, <3>3
    <3> QED BY <3>2, <3>4 DEF IsAbsolute
  <2>10. path # Empty
    <3>1. ~(1 > 1)
      OBVIOUS
    <3>2. Len(path) > 1 /\ Len(Empty) = 1
      BY <2>9, EmptyIs DEF IsAbsolute
    <3> QED BY <3>1, <3>2
  <2>11. Rule(fs, <<>>, follow, <<>>, path, 0, end)
    BY <1>3, <2>8, ReachesIs
  <2>12. R(<<>>, path)
    BY <2>3, <2>5, <2>8, <2>11 DEF Rule, R
  <2> QED BY <1>6, <2>9, <2>10, <2>12 DEF path
<1>8. CASE ~r.abs
  <2> DEFINE up == Up(cwd, r.nup)
             names == Rest(r.out, r.nup)
  <2>1. up \in Seq(FileNames) /\ names \in Seq(FileNames) /\ loc = Concat(up, names)
    BY <1>1, <1>8, UpIs DEF Place, Shaped
  <2>2. \A s \in Seq(Parts) : R(loc, s) <=> R(up, Concat(names, s))
    <3>1. Len(up) \in 0..Len(loc) /\ Begin(loc, Len(up)) = up /\ Rest(loc, Len(up)) = names
      <4> HIDE DEF loc, up, names
      <4> QED BY <2>1, ConcatCuts
    <3> HIDE DEF loc, up, names
    <3> QED BY <1>5, <3>1
  <2>3. \A s \in Seq(Parts) : R(cwd, Concat(r.out, s)) <=> R(up, Concat(names, s))
    BY <1>1, <1>3, WalkUp DEF Shaped, R
  <2>4. \A s \in Seq(Parts) : R(loc, s) <=> R(cwd, Concat(r.out, s))
    BY <2>2, <2>3
  <2>5. ~IsAbsolute(r.out) /\ (r.out # <<>> => r.out[1] # "")
    <3>1. r.out # <<>> => r.out[1] # ""
      <4> SUFFICES ASSUME r.out # <<>> PROVE r.out[1] # ""
        OBVIOUS
      <4>1. CASE r.nup = 0
        <5>1. r.out \in Seq(FileNames)
          BY <1>1, <4>1, CutEnds DEF Shaped
        <5>2. r.out[1] \in FileNames
          BY <5>1, FirstIs
        <5> QED BY <5>2, PartsAre
      <4>2. CASE r.nup # 0
        <5>1. 1 \in 1..r.nup
          BY <1>1, <4>2
        <5>2. r.out[1] = DotDot
          BY <5>1 DEF Shaped
        <5> QED BY <5>2 DEF DotDot
      <4> QED BY <4>1, <4>2
    <3>2. CASE r.out = <<>>
      BY <3>2, NothingIsRelative
    <3>3. CASE r.out # <<>>
      BY <3>1, <3>3 DEF IsAbsolute
    <3> QED BY <3>1, <3>2, <3>3
  <2>6. CASE part = "" /\ r.out = <<>>
    <3>0. <<>> \in Seq(Parts) /\ <<>> \o <<>> = <<>>
      BY ConcatEmptySeq
    <3>1. path = <<>>
      <4>1. path = (<<>> \o r.out) \o <<>>
        BY <1>8, <2>6 DEF Output, Lead
      <4>2. path = (<<>> \o <<>>) \o <<>>
        BY <2>6, <4>1
      <4> HIDE DEF path
      <4> QED BY <3>0, <4>2
    <3>2. <<>> \in Seq(Parts) /\ Concat(r.out, <<>>) = <<>>
      BY <2>6, <3>0 DEF Concat
    <3>3. R(loc, <<>>)
      <4>1. Rule(fs, <<>>, follow, loc, o, 0, end)
        BY <1>1, <1>2, <1>3, ReachesIs
      <4> QED BY <1>1, <1>4, <2>6, <4>1 DEF Rule, R
    <3>4. R(cwd, <<>>)
      BY <2>4, <3>2, <3>3
    <3>5. ~IsAbsolute(<<>>) /\ <<>> # Empty
      BY NothingIsRelative, EmptyIs
    <3> QED BY <1>6, <3>1, <3>4, <3>5
  <2>7. CASE ~(part = "" /\ r.out = <<>>)
    <3>1. path = Concat(r.out, o)
      BY <1>8, <2>7, <1>1, ConcatEmptySeq DEF Output, Lead, Concat, One
    <3>2. R(cwd, path)
      BY <1>1, <1>4, <2>4, <3>1
    <3>3. path \in Seq(Parts) /\ path # <<>>
      BY <1>1, <3>1, Concats
    <3>4. path # Empty /\ ~IsAbsolute(path)
      <4>1. CASE r.out = <<>>
        <5>1. path = o
          BY <1>1, <3>1, <4>1, Concats
        <5>2. part # ""
          BY <2>7, <4>1
        <5>3. Len(o) = 1 /\ o[1] = part
          BY DEF One
        <5>4. o # Empty
          BY <5>2, <5>3, SlashParts
        <5>5. ~IsAbsolute(o)
          BY <5>3 DEF IsAbsolute
        <5> QED BY <5>1, <5>4, <5>5
      <4>2. CASE r.out # <<>>
        <5>1. Head(path) = Head(r.out) /\ Head(r.out) = r.out[1] /\ Head(path) = path[1]
          BY <1>1, <3>1, <3>3, <4>2, Concats, FirstIs
        <5>2. path[1] # ""
          BY <2>5, <4>2, <5>1
        <5> QED BY <5>2, SlashParts DEF IsAbsolute
      <4> QED BY <4>1, <4>2
    <3> QED BY <1>6, <3>2, <3>4
  <2> QED BY <2>6, <2>7
<1> QED BY <1>1, <1>7, <1>8

-----------------------------------------------------------------------------
(***************************************************************************)
(* What the program sees of the host where the output leads it.            *)
(***************************************************************************)
NothingRedirected(fs) == \A loc \in DOMAIN fs : "redirect" \notin DOMAIN fs[loc]

\* What the kernel comes to from a directory by one part.
LEMMA OnePart ==
    ASSUME NEW fs, IsTree(fs), NEW at \in DOMAIN fs, IsDir(fs, at), NEW part \in Parts \ {Dot}
    PROVE  LET to == IF part = "" THEN at ELSE IF part = DotDot THEN Parent(at) ELSE Append(at, part)
           IN  Reaches(fs, <<>>, FALSE, at, One(part), 0, On(to, <<>>, 0))
<1> DEFINE o == One(part)
           R(a, s, e) == Reaches(fs, <<>>, FALSE, a, s, 0, e)
<1>1. at \in Seq(FileNames) /\ <<>> \in Seq(FileNames) /\ 0 \in 0..SYMLOOP_MAX
  BY KernelAssumption DEF IsTree
<1>2. o \in Seq(Parts) /\ o # <<>> /\ Head(o) = part /\ Tail(o) = <<>>
  BY OneIs
<1>3. \A e : Rule(fs, <<>>, FALSE, at, o, 0, e)
  BY <1>1, <1>2, ReachesIs
<1>4. \A a \in Seq(FileNames) : R(a, <<>>, On(a, <<>>, 0))
  BY <1>1, ReachesEnd
<1> HIDE DEF o
<1>5. CASE part = ""
  BY <1>1, <1>2, <1>3, <1>4, <1>5 DEF Rule, o
<1>6. CASE part = DotDot
  <2>1. Parent(at) \in Seq(FileNames)
    BY <1>1, ParentIs
  <2>2. part # ""
    BY <1>6 DEF DotDot
  <2> QED BY <1>2, <1>3, <1>4, <1>6, <2>1, <2>2 DEF Rule, o
<1>7. CASE part \notin {"", Dot, DotDot}
  <2>1. Append(at, part) \in Seq(FileNames)
    <3>1. part \in FileNames
      BY <1>7, PartsAre
    <3> QED BY <1>1, <3>1, AppendProperties
  <2>2. ~Follows(fs, FALSE, at, o)
    BY <1>2 DEF Follows
  <2> QED BY <1>2, <1>3, <1>4, <1>7, <2>1, <2>2 DEF Rule, o
<1> QED BY <1>5, <1>6, <1>7

\* What is done of what the program sees: the link it is, or the part.
Sees(fs, cwd, r, root, part, rest) ==
    LET next == Append(Place(cwd, r), part)
        m == LookAt(fs, cwd, r, root, part, rest, Output(r, part))
    IN  /\ part \in FileNames /\ IsLink(fs, next) => m = FollowLink(r, root, fs[next].target, rest)
        /\ ~(part \in FileNames /\ IsLink(fs, next)) => m = SkipReadlink(r, part, rest)

LEMMA HostSees ==
    ASSUME NEW fs, IsTree(fs), NothingRedirected(fs), NEW cwd \in DOMAIN fs, IsDir(fs, cwd),
           NEW r \in Resolutions, Shaped(r), IsDir(fs, Place(cwd, r)),
           NEW part \in Parts \ {Dot}, NEW rest, NEW root
    PROVE  Sees(fs, cwd, r, root, part, rest)
<1> DEFINE at == Place(cwd, r)
           next == Append(at, part)
           to == IF part = "" THEN at ELSE IF part = DotDot THEN Parent(at) ELSE next
           end == On(to, <<>>, 0)
           l == Lookup(fs, <<>>, cwd, Output(r, part), FALSE)
           link == LinkAt(fs, l)
           out == LookAt(fs, cwd, r, root, part, rest, Output(r, part))
<1>1. at \in DOMAIN fs /\ at \in Seq(FileNames)
  BY PlaceIs DEF IsDir, Exists
<1>2. Reaches(fs, <<>>, FALSE, at, One(part), 0, end)
  BY <1>1, OnePart
<1>3. l = end
  <2>1. part \in Parts
    OBVIOUS
  <2>2. \A f, e : Reaches(fs, <<>>, f, Place(cwd, r), One(part), 0, e)
                     => Lookup(fs, <<>>, cwd, Output(r, part), f) = e
    BY <2>1, OutputReaches
  <2> HIDE DEF end
  <2> QED BY <1>2, <2>2
<1>4. Ended(end) /\ end.at = to
  <2>1. Ended(end)
    BY <1>2 DEF Reaches
  <2>2. end.at = to
    BY DEF On
  <2> QED BY <2>1, <2>2
<1>5. \A x : RedirectAt(fs, x) = NoRedirect
  BY DEF RedirectAt, Found, Exists, NothingRedirected
<1> HIDE DEF at, end
<1>6. out = Follow(r, root, part, rest, NoRedirect, link)
  <2> DEFINE seen == IF Found(fs, l) /\ IsLink(fs, l.at)
                     THEN Lookup(fs, <<>>, cwd, Output(r, part), TRUE) ELSE l
  <2>1. out = Follow(r, root, part, rest, RedirectAt(fs, seen), link)
    BY DEF LookAt
  <2> HIDE DEF seen
  <2>2. RedirectAt(fs, seen) = NoRedirect
    BY <1>5
  <2> QED BY <2>1, <2>2
<1>7. part \in FileNames <=> part \notin {"", DotDot}
  BY PartsAre
<1> HIDE DEF l
<1>8. CASE ~(part \in FileNames /\ IsLink(fs, next))
  <2>1. ~IsLink(fs, to)
    <3>1. CASE part = ""
      BY <3>1 DEF IsLink, IsDir, at
    <3>2. CASE part = DotDot
      <4>1. IsDir(fs, Parent(at))
        BY <1>1 DEF IsTree
      <4>2. to = Parent(at)
        BY <3>2 DEF DotDot
      <4> QED BY <4>1, <4>2 DEF IsLink, IsDir
    <3>3. CASE part \in FileNames
      BY <1>7, <1>8, <3>3
    <3> QED BY <1>7, <3>1, <3>2, <3>3
  <2>2. link.err \in {"ENOENT", "EINVAL"}
    BY <1>3, <1>4, <2>1 DEF LinkAt
  <2>3. link.err # ""
    BY <2>2
  <2> HIDE DEF link, out
  <2>4. out = SkipReadlink(r, part, rest)
    BY <1>6, <2>2, <2>3 DEF Follow
  <2> QED BY <1>8, <2>4 DEF out, at, Sees
<1>9. CASE part \in FileNames /\ IsLink(fs, next)
  <2>1. to = next
    BY <1>7, <1>9
  <2>2. link.err = "" /\ link.target = fs[next].target
    BY <1>3, <1>4, <1>9, <2>1 DEF LinkAt, IsLink
  <2> HIDE DEF link, out
  <2>3. out = FollowLink(r, root, fs[next].target, rest)
    BY <1>6, <2>2 DEF Follow
  <2> QED BY <1>9, <2>3 DEF out, at, Sees
<1> QED BY <1>8, <1>9

-----------------------------------------------------------------------------
(***************************************************************************)
(* The content of a link put before what is left.                          *)
(***************************************************************************)
LEMMA LastIs ==
    ASSUME NEW t \in Seq(Parts), t # <<>>
    PROVE  LET n == Len(t)
           IN  /\ n \in Nat \ {0} /\ t[n] \in Parts /\ Begin(t, n - 1) \in Seq(Parts)
               /\ Len(Begin(t, n - 1)) = n - 1
               /\ t = Concat(Begin(t, n - 1), One(t[n]))
<1> DEFINE n == Len(t)
           k == n - 1
<1>1. n \in Nat \ {0}
  BY EmptySeq
<1>2. k \in 0..Len(t) /\ k # Len(t) /\ k + 1 = n
  BY <1>1
<1> HIDE DEF k
<1>3. Append(Begin(t, k), t[k + 1]) = Begin(t, k + 1) /\ t[k + 1] \in Parts
  BY <1>2, CutSteps
<1>4. Begin(t, n) = t
  BY CutEnds
<1>5. Begin(t, k) \in Seq(Parts) /\ Len(Begin(t, k)) = k
  BY <1>2, CutIs
<1> HIDE DEF n
<1>6. t = Append(Begin(t, k), t[n])
  BY <1>2, <1>3, <1>4
<1>7. \A b \in Seq(Parts) : \A x \in Parts : Append(b, x) = b \o <<x>>
  OBVIOUS
<1>8. t = Concat(Begin(t, k), One(t[n]))
  BY <1>2, <1>3, <1>5, <1>6, <1>7 DEF Concat, One
<1> QED BY <1>1, <1>2, <1>3, <1>5, <1>8 DEF k, n

LEMMA HeadAndTail ==
    ASSUME NEW S, NEW s \in Seq(S), s # <<>>
    PROVE  s = <<Head(s)>> \o Tail(s)
<1> DEFINE x == Head(s)
           q == Tail(s)
           c == <<x>> \o q
<1>1. x \in S /\ q \in Seq(S) /\ Len(q) = Len(s) - 1 /\ \A i \in 1..Len(q) : q[i] = s[i + 1]
  BY HeadTailProperties
<1>2. x = s[1] /\ Len(s) \in Nat \ {0}
  BY FirstIs, EmptySeq
<1> HIDE DEF x, q
<1>3. c \in Seq(S) /\ c # <<>> /\ Head(c) = x /\ Tail(c) = q
  BY <1>1, HeadOfConcat
<1> HIDE DEF c
<1>4. c[1] = x /\ Len(c) \in Nat \ {0} /\ Len(q) = Len(c) - 1 /\ \A i \in 1..Len(q) : q[i] = c[i + 1]
  BY <1>3, FirstIs, EmptySeq, HeadTailProperties
<1>5. \A m, n \in Nat \ {0} : m - 1 = n - 1 => /\ m = n
                                              /\ \A i \in 1..n : i = 1 \/ \E j \in 1..(n - 1) : i = j + 1
  <2> SUFFICES ASSUME NEW m \in Nat \ {0}, NEW n \in Nat \ {0}, m - 1 = n - 1
               PROVE  m = n /\ \A i \in 1..n : i = 1 \/ \E j \in 1..(n - 1) : i = j + 1
    OBVIOUS
  <2>1. \A i \in 1..n : i = 1 \/ (i - 1 \in 1..(n - 1) /\ i = (i - 1) + 1)
    OBVIOUS
  <2> QED BY <2>1
<1>6. Len(c) = Len(s) /\ \A i \in 1..Len(c) : i = 1 \/ \E j \in 1..Len(q) : i = j + 1
  BY <1>1, <1>2, <1>4, <1>5
<1>7. ASSUME NEW i \in 1..Len(c) PROVE c[i] = s[i]
  <2>1. CASE i = 1
    BY <1>2, <1>4, <2>1
  <2>2. CASE i # 1
    <3>1. PICK j \in 1..Len(q) : i = j + 1
      BY <1>6, <2>2
    <3>2. q[j] = s[j + 1] /\ q[j] = c[j + 1]
      BY <1>1, <1>4
    <3> QED BY <3>1, <3>2
  <2> QED BY <2>1, <2>2
<1>8. c = s
  BY <1>3, <1>6, <1>7, SeqEqual
<1> QED BY <1>8 DEF c, x, q

\* The slashes after a path lead nowhere else.
LEMMA SkipAfter ==
    ASSUME NEW fs, IsTree(fs), NEW root \in Seq(FileNames), NEW end, NEW at, NEW links,
           NEW a \in Seq(Parts), NEW stack \in Seq(Parts),
           Reaches(fs, root, TRUE, at, Concat(a, stack), links, end)
    PROVE  Reaches(fs, root, TRUE, at, Concat(a, SkipSlashes(stack)), links, end)
<1> DEFINE n == Len(stack)
           R(s) == Reaches(fs, root, TRUE, at, Concat(a, s), links, end)
<1>1. n \in Nat
  OBVIOUS
<1>2. PICK k \in 1..(n + 1) : /\ \A m \in 1..(k - 1) : stack[m] = ""
                              /\ SkipSlashes(stack) = SubSeq(stack, k, n)
  BY SkipSlashesIs
<1> DEFINE T == {j \in Nat : j <= k - 1 => R(Rest(stack, j))}
<1> HIDE DEF R
<1>3. 0 \in T
  BY CutEnds DEF R
<1>4. ASSUME NEW j \in Nat, j \in T PROVE j + 1 \in T
  <2> SUFFICES ASSUME j + 1 <= k - 1 PROVE R(Rest(stack, j + 1))
    OBVIOUS
  <2>1. j <= k - 1 /\ j \in 0..n /\ j # n /\ j + 1 \in 1..(k - 1)
    BY <1>1
  <2>2. R(Rest(stack, j)) /\ stack[j + 1] = ""
    BY <1>2, <1>4, <2>1
  <2>3. Rest(stack, j) = Concat(One(""), Rest(stack, j + 1)) /\ Rest(stack, j + 1) \in Seq(Parts)
    <3> DEFINE s == Rest(stack, j)
               t == Rest(stack, j + 1)
    <3>1. s \in Seq(Parts) /\ t \in Seq(Parts)
      BY <2>1, CutIs, CutSteps
    <3>2. s # <<>> /\ Head(s) = "" /\ Tail(s) = t
      BY <2>1, <2>2, CutSteps
    <3> HIDE DEF s, t
    <3>3. s = Concat(One(Head(s)), Tail(s))
      BY <3>1, <3>2, HeadAndTail DEF Concat, One
    <3> QED BY <3>1, <3>2, <3>3 DEF s, t
  <2>4. Reaches(fs, root, TRUE, at, Concat(a, Concat(One(""), Rest(stack, j + 1))), links, end)
    BY <2>2, <2>3 DEF R
  <2>5. Reaches(fs, root, TRUE, at, Concat(a, Rest(stack, j + 1)), links, end)
    <3> DEFINE t == Rest(stack, j + 1)
    <3> HIDE DEF t
    <3>1. t \in Seq(Parts) /\ Reaches(fs, root, TRUE, at, Concat(a, Concat(One(""), t)), links, end)
      BY <2>3, <2>4 DEF t
    <3>2. Reaches(fs, root, TRUE, at, Concat(a, t), links, end)
      BY <3>1, DropFiller
    <3> QED BY <3>2 DEF t
  <2> QED BY <2>5 DEF R
<1> HIDE DEF T
<1>5. k - 1 \in T
  BY <1>1, <1>3, <1>4, Induction
<1>6. k - 1 \in Nat /\ (k - 1) + 1 = k
  BY <1>1
<1>7. R(Rest(stack, k - 1))
  BY <1>5, <1>6 DEF T
<1> QED BY <1>2, <1>6, <1>7 DEF R, Rest

LEMMA PushReaches ==
    ASSUME NEW fs, IsTree(fs), NEW root \in Seq(FileNames), NEW end, NEW at, NEW links,
           NEW t \in Seq(Parts), t # <<>>, NEW rest \in Seq(Parts),
           Reaches(fs, root, TRUE, at, Concat(t, rest), links, end)
    PROVE  Reaches(fs, root, TRUE, at, Push(t, rest), links, end)
<1> DEFINE n == Len(t)
           b == Begin(t, n - 1)
           left == SkipSlashes(rest)
<1>1. CASE t[n] # ""
  BY <1>1 DEF Push, Concat
<1>2. CASE t[n] = "" /\ left = <<>>
  <2>1. Push(t, rest) = t
    BY <1>2 DEF Push
  <2>2. Reaches(fs, root, TRUE, at, Concat(t, left), links, end)
    BY SkipAfter
  <2>3. Concat(t, <<>>) = t
    BY Concats
  <2> QED BY <1>2, <2>1, <2>2, <2>3
<1>3. CASE t[n] = "" /\ left # <<>>
  <2>1. b \in Seq(Parts) /\ t = Concat(b, One(""))
    BY <1>3, LastIs
  <2>2. Push(t, rest) = Concat(b, left)
    BY <1>3 DEF Push, Begin, Concat
  <2>3. One("") \in Seq(Parts)
    BY PartsAre, OneIs
  <2> HIDE DEF b
  <2>4. Concat(t, rest) = Concat(b, Concat(One(""), rest))
    BY <2>1, <2>3, ConcatParts
  <2>5. Reaches(fs, root, TRUE, at, Concat(b, Concat(One(""), rest)), links, end)
    BY <2>4
  <2>6. Reaches(fs, root, TRUE, at, Concat(b, rest), links, end)
    BY <2>1, <2>5, DropFiller
  <2>7. Reaches(fs, root, TRUE, at, Concat(b, left), links, end)
    <3> HIDE DEF left
    <3> QED BY <2>1, <2>6, SkipAfter DEF left
  <2> QED BY <2>2, <2>7
<1> QED BY <1>1, <1>2, <1>3

LEMMA OnlyOne == \A i \in 1..1 : i = 1
  OBVIOUS

LEMMA PushAbsolute ==
    ASSUME NEW t \in Pathnames, NEW rest \in Seq(Parts)
    PROVE  IsAbsolute(Push(t, rest)) <=> IsAbsolute(t)
<1> DEFINE n == Len(t)
           b == Begin(t, n - 1)
           p == Push(t, rest)
<1>1. t \in Seq(Parts) /\ t # <<>> /\ t # Empty
  BY PathnamesAre
<1>2. /\ n \in Nat \ {0} /\ b \in Seq(Parts) /\ Len(b) = n - 1 /\ t = Concat(b, One(t[n]))
      /\ t[n] \in Parts
  BY <1>1, LastIs
<1>3. ASSUME NEW a \in Seq(Parts), NEW c \in Seq(Parts)
      PROVE  Len(a \o c) = Len(a) + Len(c) /\ (a # <<>> => (a \o c)[1] = a[1])
  <2>1. /\ Len(a \o c) = Len(a) + Len(c) /\ Len(a) \in Nat /\ Len(c) \in Nat
        /\ \A i \in 1..(Len(a) + Len(c)) : (a \o c)[i] = IF i <= Len(a) THEN a[i] ELSE c[i - Len(a)]
    BY ConcatProperties
  <2>2. a # <<>> => Len(a) >= 1
    BY EmptySeq
  <2>3. a # <<>> => 1 \in 1..(Len(a) + Len(c)) /\ 1 <= Len(a)
    BY <2>1, <2>2
  <2> QED BY <2>1, <2>3
<1>4. n = 1 => t[1] # ""
  <2> SUFFICES ASSUME n = 1, t[1] = "" PROVE FALSE
    OBVIOUS
  <2>1. Len(t) = Len(Empty) /\ Empty \in Seq(Parts) /\ \A i \in 1..Len(t) : i = 1
    <3>1. \A i \in 1..1 : i = 1
      BY OnlyOne
    <3>2. Len(t) = 1
      OBVIOUS
    <3> QED BY <3>1, <3>2, EmptyIs
  <2>2. \A i \in 1..Len(t) : t[i] = Empty[i]
    BY <2>1, SlashParts
  <2>3. t = Empty
    BY <1>1, <2>1, <2>2, SeqEqual
  <2> QED BY <1>1, <2>3
<1> DEFINE left == SkipSlashes(rest)
<1>7. CASE t[n] = "" /\ left = <<>>
  BY <1>7 DEF Push
<1>5. CASE t[n] # ""
  <2>1. p = t \o rest
    BY <1>5 DEF Push
  <2>2. Len(p) = n + Len(rest) /\ p[1] = t[1] /\ Len(rest) \in Nat
    BY <1>1, <1>3, <2>1
  <2> HIDE DEF p, n
  <2>3. Len(p) > 1 /\ p[1] = "" => n # 1
    BY <1>4, <2>2
  <2>4. n > 1 => Len(p) > 1
    BY <1>2, <2>2
  <2>5. n # 1 => n > 1
    BY <1>2
  <2> QED BY <2>2, <2>3, <2>4, <2>5 DEF IsAbsolute, n, p
<1>6. CASE t[n] = "" /\ left # <<>>
  <2>0. left \in Seq(Parts)
    BY SkippedIs
  <2>1. p = b \o left
    BY <1>6 DEF Push, Begin
  <2>2. n # 1 /\ n > 1 /\ n - 1 >= 1 /\ n - 1 # 0
    <3>1. n # 1
      BY <1>4, <1>6
    <3>2. \A m \in Nat \ {0} : m # 1 => m > 1 /\ m - 1 >= 1 /\ m - 1 # 0
      OBVIOUS
    <3> HIDE DEF n
    <3> QED BY <1>2, <3>1, <3>2
  <2>3. b # <<>>
    <3>1. Len(<<>>) = 0
      OBVIOUS
    <3> QED BY <1>2, <2>2, <3>1
  <2>4. Len(left) \in Nat \ {0}
    BY <1>6, <2>0, EmptySeq
  <2>5. Len(p) = (n - 1) + Len(left) /\ p[1] = b[1]
    <3> HIDE DEF b, p, n, left
    <3>1. Len(b \o left) = Len(b) + Len(left) /\ (b \o left)[1] = b[1]
      BY <1>2, <1>3, <2>0, <2>3
    <3> QED BY <1>2, <2>1, <3>1
  <2>6. t[1] = b[1]
    <3>1. One(t[n]) \in Seq(Parts)
      BY <1>2, OneIs
    <3> HIDE DEF b
    <3>2. (b \o One(t[n]))[1] = b[1]
      BY <1>2, <1>3, <2>3, <3>1
    <3> QED BY <1>2, <3>2 DEF Concat
  <2> HIDE DEF p, n, b, left
  <2>7. Len(p) > 1
    BY <1>2, <2>2, <2>4, <2>5
  <2> QED BY <2>2, <2>5, <2>6, <2>7 DEF IsAbsolute, n, p
<1> QED BY <1>5, <1>6, <1>7

LEMMA RootIsDir ==
    ASSUME NEW fs, IsTree(fs), NEW loc \in DOMAIN fs, IsDir(fs, loc)
    PROVE  IsDir(fs, <<>>) /\ <<>> \in DOMAIN fs
<1>1. Begin(loc, 0) = <<>> /\ 0 \in 0..Len(loc) /\ (Len(loc) = 0 => loc = <<>>)
  BY CutEnds DEF IsTree
<1>2. 0 # Len(loc) => IsDir(fs, Begin(loc, 0))
  BY <1>1, OnTheWay
<1> QED BY <1>1, <1>2 DEF IsDir, Exists

\* A relative path that is not at its end begins with a part that is not empty.
LEMMA RelativeHead ==
    ASSUME NEW s \in Seq(Parts), ~IsAbsolute(s), s \notin {<<>>, Empty}
    PROVE  Head(s) # "" /\ Head(s) \in Parts /\ Tail(s) \in Seq(Parts)
<1>1. Len(s) \in Nat \ {0} /\ Head(s) = s[1] /\ Head(s) \in Parts /\ Tail(s) \in Seq(Parts)
  BY EmptySeq, HeadTailProperties
<1>2. ASSUME Len(s) = 1, s[1] = "" PROVE FALSE
  <2>1. Len(s) = Len(Empty) /\ Empty \in Seq(Parts)
    BY <1>2, EmptyIs
  <2>2. \A i \in 1..Len(s) : s[i] = Empty[i]
    BY <1>2, OnlyOne, SlashParts
  <2>3. s = Empty
    BY <2>1, <2>2, SeqEqual
  <2> QED BY <2>3
<1>3. \A n \in Nat \ {0} : n # 1 => n > 1
  OBVIOUS
<1> QED BY <1>1, <1>2, <1>3 DEF IsAbsolute

LEMMA SkippedRelative == \A s \in Seq(Parts) : ~IsAbsolute(SkipSlashes(s))
<1> SUFFICES ASSUME NEW s \in Seq(Parts) PROVE ~IsAbsolute(SkipSlashes(s))
  OBVIOUS
<1>1. PICK n \in 1..(Len(s) + 1) : /\ n = Len(s) + 1 \/ s[n] # ""
                                   /\ SkipSlashes(s) = SubSeq(s, n, Len(s))
  BY SkipSlashesIs
<1>2. Len(s) \in Nat
  OBVIOUS
<1> DEFINE k == n - 1
<1>3. k \in 0..Len(s) /\ k + 1 = n /\ (n = Len(s) + 1 => k = Len(s))
  BY <1>2
<1> HIDE DEF k
<1>4. SkipSlashes(s) = Rest(s, k)
  BY <1>1, <1>3 DEF Rest
<1>5. CASE k = Len(s)
  <2>1. Rest(s, k) = <<>>
    BY <1>5, CutEnds
  <2> QED BY <1>4, <2>1, NothingIsRelative
<1>6. CASE k # Len(s)
  <2>1. Rest(s, k) # <<>> /\ Head(Rest(s, k)) = s[k + 1] /\ Rest(s, k) \in Seq(Parts)
    BY <1>3, <1>6, CutSteps, CutIs
  <2>2. Rest(s, k)[1] = Head(Rest(s, k))
    BY <2>1, FirstIs
  <2>3. s[k + 1] # ""
    BY <1>1, <1>3, <1>6
  <2> QED BY <1>4, <2>1, <2>2, <2>3 DEF IsAbsolute
<1> QED BY <1>5, <1>6

(***************************************************************************)
(* In the jail from its root: on the host by the path of the root.         *)
(***************************************************************************)
LEMMA UnderRoot ==
    ASSUME NEW fs, IsTree(fs), NEW jail \in DOMAIN fs, IsDir(fs, jail), jail # <<>>,
           NEW end, NEW path \in Pathnames, IsAbsolute(path), NEW rest \in Seq(Parts), NEW links,
           Reaches(fs, jail, TRUE, jail, Concat(path, rest), links, end)
    PROVE  /\ Prepend(HostPath(jail), path) \in Pathnames
           /\ IsAbsolute(Prepend(HostPath(jail), path))
           /\ Reaches(fs, jail, TRUE, <<>>, Concat(Prepend(HostPath(jail), path), rest), links, end)
<1> DEFINE R(at, s) == Reaches(fs, jail, TRUE, at, s, links, end)
           tail == Tail(path)
           x == Concat(tail, rest)
           host == Prepend(HostPath(jail), path)
           o == One("")
<1>1. /\ jail \in Seq(FileNames) /\ jail \in Seq(Parts) /\ <<>> \in Seq(FileNames)
      /\ IsDir(fs, <<>>) /\ links \in 0..SYMLOOP_MAX
  BY NamesAreParts, RootIsDir DEF IsTree, Reaches
<1>2. path \in Seq(Parts) /\ path # <<>> /\ Head(path) = "" /\ tail \in Seq(Parts)
  <2>1. path \in Seq(Parts) /\ path # <<>>
    BY PathnamesAre
  <2>2. Head(path) = path[1] /\ tail \in Seq(Parts)
    BY <2>1, HeadTailProperties
  <2> QED BY <2>1, <2>2 DEF IsAbsolute
<1>3. o \in Seq(Parts)
  BY PartsAre, OneIs
<1> HIDE DEF R, tail
<1>4. R(jail, x)
  <2>1. /\ Concat(path, rest) \in Seq(Parts) /\ Concat(path, rest) # <<>>
        /\ Head(Concat(path, rest)) = "" /\ Tail(Concat(path, rest)) = x
    BY <1>2, Concats DEF tail
  <2>2. Rule(fs, jail, TRUE, jail, Concat(path, rest), links, end)
    BY <1>1, <2>1, ReachesIs
  <2> QED BY <2>1, <2>2 DEF Rule, R
<1>5. x \in Seq(Parts)
  BY <1>2, Concats
<1>6. R(<<>>, Concat(jail, x))
  <2>1. 0 \in 0..Len(jail) /\ Begin(jail, 0) = <<>> /\ Rest(jail, 0) = jail
    BY <1>1, CutEnds
  <2> HIDE DEF x
  <2>2. \A k \in 0..Len(jail) : R(jail, x) <=> R(Begin(jail, k), Concat(Rest(jail, k), x))
    BY <1>1, <1>5, WalkDown DEF R
  <2>3. R(jail, x) <=> R(Begin(jail, 0), Concat(Rest(jail, 0), x))
    BY <2>1, <2>2
  <2> QED BY <1>4, <2>1, <2>3
<1>7. R(<<>>, Concat(o, Concat(jail, x)))
  <2> DEFINE s == Concat(jail, x)
  <2>1. s \in Seq(Parts)
    BY <1>1, <1>5, Concats
  <2>2. R(<<>>, s)
    BY <1>6
  <2> HIDE DEF s, o
  <2>3. Concat(o, s) \in Seq(Parts) /\ Concat(o, s) # <<>> /\ Head(Concat(o, s)) = "" /\ Tail(Concat(o, s)) = s
    BY <2>1, OneBefore, PartsAre DEF o
  <2>4. Rule(fs, jail, TRUE, <<>>, Concat(o, s), links, end)
    BY <1>1, <2>3, ReachesIs
  <2>5. R(<<>>, Concat(o, s))
    BY <1>1, <2>2, <2>3, <2>4 DEF Rule, R
  <2> QED BY <2>5 DEF s
<1>8. host = Concat(Concat(o, jail), tail)
  <2>1. HostPath(jail) = <<"">> \o jail
    BY DEF HostPath
  <2>2. HostPath(jail) # Empty
    BY <1>1, HostPathIs, PathnamesAre
  <2>3. host = HostPath(jail) \o tail
    BY <2>2 DEF Prepend, tail
  <2> QED BY <2>1, <2>3 DEF Concat, One
<1>9. Concat(host, rest) = Concat(o, Concat(jail, x))
  <2> HIDE DEF o, host
  <2>1. Concat(o, jail) \in Seq(Parts)
    BY <1>1, <1>3, Concats
  <2>2. Concat(Concat(Concat(o, jail), tail), rest) = Concat(Concat(o, jail), x)
    BY <1>2, <2>1, ConcatParts
  <2>3. Concat(Concat(o, jail), x) = Concat(o, Concat(jail, x))
    BY <1>1, <1>3, <1>5, ConcatParts
  <2> QED BY <1>8, <2>2, <2>3
<1>10. host \in Pathnames
  <2>1. HostPath(jail) \in Roots
    BY <1>1, HostPathIs DEF Roots
  <2> QED BY <2>1, PrependIs
<1>11. IsAbsolute(host)
  <2> HIDE DEF host, o
  <2>1. Concat(o, jail) \in Seq(Parts) /\ Concat(o, jail) # <<>> /\ Head(Concat(o, jail)) = ""
    BY <1>1, OneBefore, PartsAre DEF o
  <2>2. Head(host) = ""
    BY <1>2, <1>8, <2>1, Concats
  <2>3. host \in Seq(Parts) /\ host # <<>>
    BY <1>10, PathnamesAre
  <2>4. host \notin {<<>>, Empty}
    BY <1>10, PathnamesAre
  <2> QED BY <2>2, <2>3, <2>4, RelativeHead
<1>12. R(<<>>, Concat(host, rest))
  BY <1>7, <1>9
<1> QED BY <1>10, <1>11, <1>12 DEF R, host

\* The link leads in the jail to where its content, pushed, leads on the host.
LEMMA LinkPushed ==
    ASSUME NEW fs, IsTree(fs), NEW jail \in DOMAIN fs, IsDir(fs, jail),
           NEW end, NEW target \in Pathnames, NEW rest \in Seq(Parts), NEW links, NEW at,
           Reaches(fs, jail, TRUE, Leading(jail, at, target), Concat(target, rest), links, end)
    PROVE  LET root == HostPath(jail)
               stack == Push(IF IsAbsolute(target) /\ root # Slash
                             THEN Prepend(root, target) ELSE target, rest)
           IN  Reaches(fs, jail, TRUE, IF IsAbsolute(stack) THEN <<>> ELSE at, stack, links, end)
<1> DEFINE root == HostPath(jail)
           t == IF IsAbsolute(target) /\ root # Slash THEN Prepend(root, target) ELSE target
           stack == Push(t, rest)
<1>1. jail \in Seq(FileNames)
  BY DEF IsTree
<1>2. root # Slash <=> jail # <<>>
  BY <1>1, HostPathParts
<1>3. /\ t \in Pathnames /\ (IsAbsolute(t) <=> IsAbsolute(target))
      /\ Reaches(fs, jail, TRUE, IF IsAbsolute(target) THEN <<>> ELSE at, Concat(t, rest), links, end)
  <2>1. CASE IsAbsolute(target) /\ root # Slash
    <3>1. Reaches(fs, jail, TRUE, jail, Concat(target, rest), links, end)
      BY <2>1 DEF Leading
    <3> HIDE DEF root
    <3> QED BY <1>2, <2>1, <3>1, UnderRoot DEF root
  <2>2. CASE IsAbsolute(target) /\ root = Slash
    BY <1>2, <2>2 DEF Leading
  <2>3. CASE ~IsAbsolute(target)
    BY <2>3 DEF Leading
  <2> QED BY <2>1, <2>2, <2>3
<1> HIDE DEF t
<1>4. IsAbsolute(stack) <=> IsAbsolute(target)
  BY <1>3, PushAbsolute
<1>5. t \in Seq(Parts) /\ t # <<>>
  BY <1>3, PathnamesAre
<1>6. Reaches(fs, jail, TRUE, IF IsAbsolute(target) THEN <<>> ELSE at, stack, links, end)
  BY <1>1, <1>3, <1>5, PushReaches
<1> QED BY <1>4, <1>6 DEF t

-----------------------------------------------------------------------------
(***************************************************************************)
(* How the place moves with the output.                                    *)
(***************************************************************************)
LEMMA AppendIs ==
    ASSUME NEW S, NEW s \in Seq(S), NEW x \in S
    PROVE  /\ Append(s, x) = Concat(s, One(x)) /\ One(x) \in Seq(S) /\ One(x) # <<>>
           /\ Append(s, x) \in Seq(S) /\ Append(s, x) # <<>> /\ Len(Append(s, x)) = Len(s) + 1
           /\ \A i \in 1..Len(s) : Append(s, x)[i] = s[i]
<1>1. Append(s, x) = s \o <<x>>
  OBVIOUS
<1>2. <<x>> \in Seq(S) /\ <<x>> # <<>>
  OBVIOUS
<1>3. /\ Append(s, x) \in Seq(S) /\ Append(s, x) # <<>> /\ Len(Append(s, x)) = Len(s) + 1
      /\ \A i \in 1..Len(s) : Append(s, x)[i] = s[i]
  BY AppendProperties
<1> QED BY <1>1, <1>2, <1>3 DEF Concat, One

LEMMA RestConcat ==
    ASSUME NEW S, NEW a \in Seq(S), NEW b \in Seq(S), NEW k \in 0..Len(a)
    PROVE  Rest(Concat(a, b), k) = Concat(Rest(a, k), b)
<1> DEFINE p == Begin(a, k)
           q == Rest(a, k)
<1>1. p \in Seq(S) /\ q \in Seq(S) /\ Len(p) = k /\ a = p \o q
  BY CutIs, CutJoins
<1> HIDE DEF p, q
<1>2. Concat(a, b) = Concat(p, Concat(q, b))
  BY <1>1, ConcatThree DEF Concat
<1>3. Concat(q, b) \in Seq(S)
  BY <1>1, ConcatProperties DEF Concat
<1>4. Rest(Concat(p, Concat(q, b)), Len(p)) = Concat(q, b)
  BY <1>1, <1>3, ConcatCuts
<1> QED BY <1>1, <1>2, <1>4 DEF q

LEMMA PlaceAppended ==
    ASSUME NEW fs, IsTree(fs), NEW cwd \in DOMAIN fs, IsDir(fs, cwd),
           NEW r \in Resolutions, Shaped(r), NEW name \in FileNames,
           NEW r2, r2.abs <=> r.abs, r2.nup = r.nup, r2.out = Append(r.out, name)
    PROVE  Shaped(r2) /\ Place(cwd, r2) = Append(Place(cwd, r), name)
<1> DEFINE out == r.out
           k == r.nup
           names == Rest(out, k)
           out2 == r2.out
           up == Up(cwd, k)
           o == One(name)
<1>1. out \in Seq(Parts) /\ k \in Nat /\ k \in 0..Len(out) /\ name \in Parts /\ Len(out) \in Nat
  <2>1. r.out \in Seq(Parts) /\ r.nup \in Nat /\ r.nup \in 0..Len(r.out)
    BY DEF Shaped, Resolutions
  <2>2. name \in Parts
    BY PartsAre
  <2>3. \A s \in Seq(Parts) : Len(s) \in Nat
    OBVIOUS
  <2> QED BY <2>1, <2>2, <2>3
<1>2. names \in Seq(FileNames) /\ (r.abs => k = 0) /\ \A i \in 1..k : out[i] = DotDot
  BY DEF Shaped
<1>3. up \in Seq(FileNames)
  BY <1>1, UpIs
<1>4. /\ out2 = Concat(out, o) /\ Len(out2) = Len(out) + 1
      /\ o \in Seq(Parts) /\ \A i \in 1..Len(out) : out2[i] = out[i]
  <2>1. out2 = Append(out, name)
    OBVIOUS
  <2> HIDE DEF out, out2
  <2> QED BY <1>1, <2>1, AppendIs
<1>5. o \in Seq(FileNames)
  BY <1>2, AppendIs
<1> HIDE DEF out, k, out2, o, up
<1>6. Rest(out2, k) = Concat(names, o)
  BY <1>1, <1>4, RestConcat
<1> HIDE DEF names
<1>7. Concat(names, o) \in Seq(FileNames)
  BY <1>2, <1>5, ConcatProperties DEF Concat
<1>8. Shaped(r2)
  <2>1. k \in 0..Len(out2) /\ \A i \in 1..k : i \in 1..Len(out)
    BY <1>1, <1>4
  <2>2. \A i \in 1..k : out2[i] = DotDot
    BY <1>2, <1>4, <2>1
  <2>3. r2.nup = k /\ r2.out = out2
    BY DEF k, out2
  <2>4. r2.abs => k = 0
    BY <1>2
  <2> QED BY <1>6, <1>7, <2>1, <2>2, <2>3, <2>4 DEF Shaped
<1>9. CASE r.abs
  <2>1. Place(cwd, r2) = r2.out /\ Place(cwd, r) = r.out
    BY <1>9 DEF Place
  <2> QED BY <1>8, <2>1
<1>10. CASE ~r.abs
  <2>1. Place(cwd, r2) = Concat(up, Rest(out2, k)) /\ Place(cwd, r) = Concat(up, names)
    BY <1>10 DEF Place, up, out2, k, names, out
  <2>2. Concat(up, Concat(names, o)) = Concat(Concat(up, names), o)
    BY <1>2, <1>3, <1>5, ConcatThree
  <2>3. Concat(up, names) \in Seq(FileNames)
    BY <1>2, <1>3, ConcatProperties DEF Concat
  <2>4. Append(Concat(up, names), name) = Concat(Concat(up, names), One(name))
    BY <2>3, AppendIs
  <2> QED BY <1>6, <1>8, <2>1, <2>2, <2>4 DEF o
<1> QED BY <1>9, <1>10

\* The last name is taken away.
LEMMA PlaceRemoved ==
    ASSUME NEW fs, IsTree(fs), NEW cwd \in DOMAIN fs, IsDir(fs, cwd),
           NEW r \in Resolutions, Shaped(r), r.out # <<>>, Len(r.out) # r.nup,
           NEW r2, r2.abs <=> r.abs, r2.nup = r.nup, r2.out = Begin(r.out, Len(r.out) - 1)
    PROVE  Shaped(r2) /\ Place(cwd, r2) = Parent(Place(cwd, r))
<1> DEFINE out == r.out
           k == r.nup
           p == r2.out
           x == out[Len(out)]
           o == One(x)
           up == Up(cwd, k)
           names == Rest(p, k)
<1>1. out \in Seq(Parts) /\ k \in Nat /\ k \in 0..Len(out) /\ out # <<>> /\ Len(out) # k
  BY DEF Shaped, Resolutions
<1>2. Rest(out, k) \in Seq(FileNames) /\ (r.abs => k = 0) /\ \A i \in 1..k : out[i] = DotDot
  BY DEF Shaped
<1>3. up \in Seq(FileNames)
  BY <1>1, UpIs
<1>4. Len(out) \in Nat \ {0} /\ p \in Seq(Parts) /\ Len(p) = Len(out) - 1 /\ out = Concat(p, o)
      /\ x \in Parts
  BY <1>1, LastIs
<1>5. o \in Seq(Parts)
  BY <1>4, OneIs
<1>6. \A i \in 1..Len(p) : p[i] = out[i]
  <2>1. Len(out) - 1 \in 0..Len(out)
    BY <1>4
  <2>2. \A i \in 1..(Len(out) - 1) : Begin(out, Len(out) - 1)[i] = out[i]
    BY <1>1, <2>1, CutIs, ZenonT(30)
  <2> QED BY <1>4, <2>2
<1> HIDE DEF out, k, p, o, x, up
<1>7. k \in 0..Len(p)
  BY <1>1, <1>4
<1>8. Rest(out, k) = Concat(names, o) /\ names \in Seq(Parts)
  <2>1. Rest(Concat(p, o), k) = Concat(Rest(p, k), o)
    BY <1>4, <1>5, <1>7, RestConcat
  <2>2. Rest(p, k) \in Seq(Parts)
    BY <1>4, <1>7, CutIs
  <2> QED BY <1>4, <2>1, <2>2
<1> HIDE DEF names
<1>9. names \in Seq(FileNames) /\ x \in FileNames
  <2> DEFINE s == Concat(names, o)
             n == Len(names)
  <2>1. s \in Seq(FileNames)
    BY <1>2, <1>8
  <2>2. s \in Seq(Parts) /\ n \in 0..Len(s) /\ Begin(s, n) = names /\ Rest(s, n) = o
    BY <1>5, <1>8, ConcatCuts
  <2> HIDE DEF s, n
  <2>3. names \in Seq(FileNames) /\ o \in Seq(FileNames)
    BY <2>1, <2>2, CutIs
  <2>4. o # <<>> /\ Head(o) = x
    BY <1>4, OneIs DEF o
  <2>5. x \in FileNames
    BY <2>3, <2>4, FirstIs
  <2> QED BY <2>3, <2>5
<1>10. Shaped(r2)
  <2>1. \A i \in 1..k : i \in 1..Len(p)
    BY <1>1, <1>7
  <2>2. \A i \in 1..k : p[i] = DotDot
    BY <1>2, <1>6, <2>1
  <2>3. r2.nup = k /\ r2.out = p
    BY DEF k, p
  <2>4. r2.abs => k = 0
    BY <1>2
  <2> QED BY <1>7, <1>9, <2>2, <2>3, <2>4 DEF Shaped, names
<1>11. \A s \in Seq(FileNames) : Parent(Concat(s, o)) = s
  <2> TAKE s \in Seq(FileNames)
  <2>1. Append(s, x) = Concat(s, One(x))
    BY <1>9, AppendIs
  <2> QED BY <1>9, <2>1, ParentOfChild DEF o
<1>12. CASE r.abs
  <2>1. Place(cwd, r2) = p /\ Place(cwd, r) = Concat(p, o)
    BY <1>4, <1>12 DEF Place, p, out
  <2>2. p = names
    BY <1>2, <1>4, <1>12, CutEnds DEF names
  <2> QED BY <1>9, <1>10, <1>11, <2>1, <2>2
<1>13. CASE ~r.abs
  <2>1. Place(cwd, r2) = Concat(up, names) /\ Place(cwd, r) = Concat(up, Concat(names, o))
    BY <1>8, <1>13 DEF Place, up, p, k, names, out
  <2>2. o \in Seq(FileNames)
    BY <1>9, AppendIs DEF o
  <2>3. Concat(up, Concat(names, o)) = Concat(Concat(up, names), o)
    BY <1>3, <1>9, <2>2, ConcatThree DEF Concat
  <2>4. Concat(up, names) \in Seq(FileNames)
    BY <1>3, <1>9, ConcatProperties DEF Concat
  <2> QED BY <1>10, <1>11, <2>1, <2>3, <2>4
<1> QED BY <1>12, <1>13

\* One ".." more at the beginning.
LEMMA PlaceUp ==
    ASSUME NEW fs, IsTree(fs), NEW cwd \in DOMAIN fs, IsDir(fs, cwd),
           NEW r \in Resolutions, Shaped(r), ~r.abs, Len(r.out) = r.nup,
           NEW r2, ~r2.abs, r2.nup = r.nup + 1, r2.out = Append(r.out, DotDot)
    PROVE  /\ Shaped(r2) /\ Place(cwd, r2) = Parent(Place(cwd, r))
           /\ IsDir(fs, Place(cwd, r2))
<1> DEFINE out == r.out
           k == r.nup
           out2 == r2.out
<1>1. out \in Seq(Parts) /\ k \in Nat /\ k \in 0..Len(out) /\ Len(out) = k /\ DotDot \in Parts
  BY PartsAre DEF Shaped, Resolutions
<1>2. \A i \in 1..k : out[i] = DotDot
  BY DEF Shaped
<1>3. /\ out2 \in Seq(Parts) /\ Len(out2) = k + 1 /\ out2[k + 1] = DotDot
      /\ \A i \in 1..k : out2[i] = out[i]
  BY <1>1, AppendProperties
<1>4. r2.nup = k + 1 /\ r2.out = out2
  OBVIOUS
<1> HIDE DEF out, k, out2
<1>5. Rest(out, k) = <<>> /\ Rest(out2, k + 1) = <<>>
  BY <1>1, <1>3, CutEnds
<1>6. Shaped(r2)
  <2>1. k + 1 \in 0..Len(out2)
    BY <1>1, <1>3
  <2>2. \A i \in 1..(k + 1) : out2[i] = DotDot
    <3>1. \A i \in 1..(k + 1) : i \in 1..k \/ i = k + 1
      BY <1>1
    <3> QED BY <1>2, <1>3, <3>1
  <2>3. <<>> \in Seq(FileNames)
    OBVIOUS
  <2> QED BY <1>4, <1>5, <2>1, <2>2, <2>3 DEF Shaped
<1>7. Place(cwd, r) = Concat(Up(cwd, k), <<>>) /\ Place(cwd, r2) = Concat(Up(cwd, k + 1), <<>>)
  BY <1>4, <1>5 DEF Place, k, out
<1>8. /\ Up(cwd, k) \in Seq(FileNames) /\ Up(cwd, k + 1) \in Seq(FileNames)
      /\ Up(cwd, k + 1) = Parent(Up(cwd, k)) /\ IsDir(fs, Up(cwd, k + 1))
  <2>1. k + 1 \in Nat
    BY <1>1
  <2> QED BY <1>1, <2>1, UpIs
<1>9. \A s \in Seq(FileNames) : Concat(s, <<>>) = s
  BY ConcatEmptySeq DEF Concat
<1> QED BY <1>6, <1>7, <1>8, <1>9

-----------------------------------------------------------------------------
(***************************************************************************)
(* __realpathat() imitates the kernel in the jail: what the kernel comes   *)
(* to from the place of the output with what is left of the stack.         *)
(***************************************************************************)
Imitates(fs, cwd, jail, r, end) ==
    /\ r \in Resolutions /\ r.err = "" /\ Shaped(r)
    /\ r.check => IsDir(fs, Place(cwd, r))
    /\ Reaches(fs, jail, TRUE, IF IsAbsolute(r.stack) THEN <<>> ELSE Place(cwd, r),
               r.stack, r.cnt, end)
    /\ r.done => r.stack \in {<<>>, Empty}

Skipped(r, part, rest, r2) ==
    /\ r2 \in Resolutions /\ r2.err = r.err /\ (r2.done <=> r.done) /\ (r2.abs <=> r.abs)
    /\ r2.nup = r.nup /\ r2.cnt = r.cnt /\ r2.stack = SkipSlashes(rest)
    /\ r2.check => rest # <<>> /\ part # DotDot
    /\ part = DotDot => r2.out = IF r.out = <<>> THEN r.out ELSE Begin(r.out, Len(r.out) - 1)
    /\ part = "" => r2.out = r.out
    /\ part \in FileNames => r2.out = Append(r.out, part)

LEMMA SkipFields ==
    ASSUME NEW r \in Resolutions, NEW part \in Parts, NEW rest \in Seq(Parts),
           NEW r2, r2 = SkipReadlink(r, part, rest)
    PROVE  Skipped(r, part, rest, r2)
<1>1. r2 \in Resolutions
  BY RestIs
<1>2. part \in FileNames => part # "" /\ part # DotDot
  BY PartsAre
<1>3. "" # DotDot
  BY DEF DotDot
<1> DEFINE out == IF part = DotDot
                  THEN IF r.out = <<>> THEN r.out ELSE Begin(r.out, Len(r.out) - 1)
                  ELSE IF part = "" THEN r.out ELSE Append(r.out, part)
           check == part # DotDot /\ rest # <<>>
<1>4. r2 = [r EXCEPT !.check = check, !.stack = SkipSlashes(rest), !.out = out]
  BY DEF SkipReadlink, Resolutions, Begin
<1>5. r2.out = out
  <2> HIDE DEF out, check
  <2> QED BY <1>4 DEF Resolutions
<1>6. r2.check <=> check
  <2> HIDE DEF out, check
  <2> QED BY <1>4 DEF Resolutions
<1>7. /\ r2.err = r.err /\ (r2.done <=> r.done) /\ (r2.abs <=> r.abs)
      /\ r2.nup = r.nup /\ r2.cnt = r.cnt /\ r2.stack = SkipSlashes(rest)
  <2> HIDE DEF out, check
  <2> QED BY <1>4 DEF Resolutions
<1> QED BY <1>1, <1>2, <1>3, <1>5, <1>6, <1>7 DEF Skipped

\* Where a part leads that is no link.
Gone(at, part) == IF part = "" THEN at ELSE IF part = DotDot THEN Parent(at) ELSE Append(at, part)

LEMMA GoneIs ==
    /\ \A at : Gone(at, "") = at /\ Gone(at, DotDot) = Parent(at)
    /\ \A at : \A part \in FileNames : Gone(at, part) = Append(at, part)
  BY PartsAre DEF Gone, DotDot

LEMMA SkipImitates ==
    ASSUME NEW fs, IsTree(fs), NEW cwd \in DOMAIN fs, IsDir(fs, cwd),
           NEW jail \in DOMAIN fs, IsDir(fs, jail), NEW end,
           NEW r \in Resolutions, r.err = "", ~r.done, Shaped(r), IsDir(fs, Place(cwd, r)),
           NEW part \in Parts \ {Dot}, NEW rest \in Seq(Parts),
           part = DotDot => r.abs \/ Len(r.out) # r.nup,
           Reaches(fs, jail, TRUE, Gone(Place(cwd, r), part), rest, r.cnt, end)
    PROVE  Imitates(fs, cwd, jail, SkipReadlink(r, part, rest), end)
<1> DEFINE r2 == SkipReadlink(r, part, rest)
           at == Place(cwd, r)
           to == Gone(at, part)
<1>1. /\ r2 \in Resolutions /\ r2.err = "" /\ ~r2.done /\ (r2.abs <=> r.abs)
      /\ r2.nup = r.nup /\ r2.cnt = r.cnt /\ r2.stack = SkipSlashes(rest)
      /\ r2.check => rest # <<>> /\ part # DotDot
      /\ part = DotDot => r2.out = IF r.out = <<>> THEN r.out ELSE Begin(r.out, Len(r.out) - 1)
      /\ part = "" => r2.out = r.out
      /\ part \in FileNames => r2.out = Append(r.out, part)
  <2>1. part \in Parts /\ r2 = SkipReadlink(r, part, rest)
    OBVIOUS
  <2> HIDE DEF r2, to, at
  <2>2. Skipped(r, part, rest, r2)
    BY <2>1, SkipFields
  <2> QED BY <2>2 DEF Skipped
<1>2. Reaches(fs, jail, TRUE, to, rest, r.cnt, end)
  OBVIOUS
<1> HIDE DEF r2, to
<1>3. jail \in Seq(FileNames) /\ at \in Seq(FileNames)
  BY PlaceIs DEF IsTree
<1>4. /\ part \in {"", DotDot} \cup FileNames
      /\ part = "" => to = at
      /\ part = DotDot => to = Parent(at)
      /\ part \in FileNames => to = Append(at, part)
  BY PartsAre, GoneIs DEF to
<1>5. Shaped(r2) /\ Place(cwd, r2) = to
  <2>1. CASE part = ""
    <3>1. Shaped(r2)
      BY <1>1, <2>1 DEF Shaped
    <3>2. Place(cwd, r2) = at
      BY <1>1, <2>1 DEF Place
    <3> QED BY <1>4, <2>1, <3>1, <3>2
  <2>2. CASE part = DotDot /\ r.out = <<>>
    <3>1. r.abs
      <4>1. r.nup \in 0..Len(r.out)
        BY DEF Shaped
      <4> QED BY <2>2, <4>1, NoneLeft
    <3>2. Shaped(r2)
      BY <1>1, <2>2 DEF Shaped
    <3>3. Place(cwd, r2) = <<>> /\ at = <<>>
      BY <1>1, <2>2, <3>1 DEF Place
    <3>4. to = Parent(<<>>)
      BY <1>4, <2>2, <3>3
    <3> QED BY <3>2, <3>3, <3>4 DEF Parent
  <2>3. CASE part = DotDot /\ r.out # <<>>
    <3>1. Len(r.out) # r.nup
      <4>1. r.abs => r.nup = 0
        BY DEF Shaped
      <4>2. r.out \in Seq(Parts)
        BY DEF Resolutions
      <4>3. Len(r.out) # 0
        BY <2>3, <4>2, EmptySeq
      <4> QED BY <2>3, <4>1, <4>3
    <3>2. r2.out = Begin(r.out, Len(r.out) - 1)
      BY <1>1, <2>3
    <3>3. Shaped(r2) /\ Place(cwd, r2) = Parent(at)
      <4> HIDE DEF at
      <4> QED BY <1>1, <2>3, <3>1, <3>2, PlaceRemoved DEF at
    <3> QED BY <1>4, <2>3, <3>3
  <2>4. CASE part \in FileNames
    <3>1. Shaped(r2) /\ Place(cwd, r2) = Append(at, part)
      <4>1. r2.out = Append(r.out, part) /\ (r2.abs <=> r.abs) /\ r2.nup = r.nup
        BY <1>1, <2>4
      <4>2. \A name \in FileNames : r2.out = Append(r.out, name) =>
               Shaped(r2) /\ Place(cwd, r2) = Append(Place(cwd, r), name)
        BY <4>1, PlaceAppended
      <4> QED BY <2>4, <4>1, <4>2
    <3> QED BY <1>4, <2>4, <3>1
  <2> QED BY <1>4, <2>1, <2>2, <2>3, <2>4
<1>6. Reaches(fs, jail, TRUE, to, SkipSlashes(rest), r.cnt, end)
  BY <1>2, <1>3, SkipReaches
<1>7. ~IsAbsolute(SkipSlashes(rest))
  BY SkippedRelative
<1>8. rest # <<>> => IsDir(fs, to)
  <2>1. to \in Seq(FileNames) /\ r.cnt \in 0..SYMLOOP_MAX
    BY <1>2 DEF Reaches
  <2> QED BY <1>2, <1>3, <2>1, ReachesNeeds
<1>9. Imitates(fs, cwd, jail, r2, end)
  BY <1>1, <1>5, <1>6, <1>7, <1>8 DEF Imitates
<1> QED BY <1>9 DEF r2

LEMMA AbsoluteImitates ==
    ASSUME NEW fs, IsTree(fs), NEW cwd, NEW jail \in DOMAIN fs, IsDir(fs, jail), NEW end,
           NEW r \in Resolutions, r.err = "", ~r.done,
           Reaches(fs, jail, TRUE, <<>>, r.stack, r.cnt, end)
    PROVE  Imitates(fs, cwd, jail, [r EXCEPT !.stack = SkipSlashes(@), !.abs = TRUE,
                                             !.two = Doubled(r.stack), !.out = <<>>,
                                             !.nup = 0, !.check = FALSE], end)
<1> DEFINE two == Doubled(r.stack)
           r2 == [r EXCEPT !.stack = SkipSlashes(@), !.abs = TRUE, !.two = two, !.out = <<>>,
                           !.nup = 0, !.check = FALSE]
<1>0. two \in BOOLEAN
  BY DEF Doubled
<1> HIDE DEF two
<1>1. r.stack \in Seq(Parts) /\ jail \in Seq(FileNames) /\ <<>> \in Seq(FileNames)
  <2>1. r.stack \in Seq(Parts)
    BY DEF Resolutions
  <2>2. jail \in Seq(FileNames)
    BY DEF IsTree
  <2> QED BY <2>1, <2>2, NoneLeft
<1>2. r2 \in Resolutions
  <2>1. SkipSlashes(r.stack) \in Seq(Parts) /\ <<>> \in Seq(Parts) /\ 0 \in Nat
    BY <1>1, SkippedIs, NoneLeft
  <2> QED BY <1>0, <2>1 DEF Resolutions
<1>3. /\ r2.err = "" /\ ~r2.done /\ r2.abs /\ ~r2.check /\ r2.out = <<>> /\ r2.nup = 0
      /\ r2.cnt = r.cnt /\ r2.stack = SkipSlashes(r.stack)
  BY DEF Resolutions
<1> HIDE DEF r2
<1>4. Shaped(r2)
  <2>1. Rest(<<>>, 0) = <<>>
    BY <1>1, CutEnds
  <2> QED BY <1>1, <1>3, <2>1, NoneLeft DEF Shaped
<1>5. Place(cwd, r2) = <<>>
  BY <1>3 DEF Place
<1>6. Reaches(fs, jail, TRUE, <<>>, SkipSlashes(r.stack), r.cnt, end)
  BY <1>1, SkipReaches
<1>7. ~IsAbsolute(SkipSlashes(r.stack))
  BY <1>1, SkippedRelative
<1>8. Imitates(fs, cwd, jail, r2, end)
  BY <1>2, <1>3, <1>4, <1>5, <1>6, <1>7 DEF Imitates
<1> QED BY <1>8 DEF r2, two

LEMMA LinksAre ==
    /\ \A l : Ended(l) => l.links \in Nat
    /\ \A i, j, m \in Nat : i <= j /\ j + 1 < m => i # m
    /\ \A n \in Nat : n + 1 \in Nat
<1>1. \A l : Ended(l) => l.links \in 0..SYMLOOP_MAX
  BY DEF Ended, Lookups
<1> QED BY <1>1, KernelAssumption

LEMMA LinkImitates ==
    ASSUME NEW fs, IsTree(fs), NEW cwd \in DOMAIN fs, IsDir(fs, cwd),
           NEW jail \in DOMAIN fs, IsDir(fs, jail), NEW end, end.links + 1 < SYMLOOP_MAX,
           NEW r \in Resolutions, r.err = "", ~r.done, Shaped(r),
           r.check => IsDir(fs, Place(cwd, r)),
           NEW target \in Pathnames, NEW rest \in Seq(Parts),
           Reaches(fs, jail, TRUE, Leading(jail, Place(cwd, r), target), Concat(target, rest),
                   r.cnt + 1, end)
    PROVE  Imitates(fs, cwd, jail, FollowLink(r, HostPath(jail), target, rest), end)
<1> DEFINE root == HostPath(jail)
           t == IF IsAbsolute(target) /\ root # Slash THEN Prepend(root, target) ELSE target
           stack == Push(t, rest)
           n == r.cnt + 1
           at == Place(cwd, r)
           r2 == [r EXCEPT !.cnt = @ + 1, !.stack = stack]
<1>1. jail \in Seq(FileNames) /\ n \in Nat
  BY CountIs DEF IsTree
<1>2. Reaches(fs, jail, TRUE, IF IsAbsolute(stack) THEN <<>> ELSE at, stack, n, end)
  BY LinkPushed
<1>3. stack \in Seq(Parts)
  BY <1>2 DEF Reaches
<1>4. n # SYMLOOP_MAX
  <2> DEFINE s == Concat(target, rest)
             a == Leading(jail, at, target)
  <2>1. Reaches(fs, jail, TRUE, a, s, n, end)
    OBVIOUS
  <2>2. target \in Seq(Parts) /\ target # <<>>
    BY PathnamesAre
  <2>3. s # <<>>
    BY <2>2, Concats
  <2> HIDE DEF a, s, n
  <2>4. a \in Seq(FileNames) /\ s \in Seq(Parts) /\ n \in 0..SYMLOOP_MAX /\ Ended(end)
    BY <2>1 DEF Reaches
  <2>5. Rule(fs, jail, TRUE, a, s, n, end)
    BY <1>1, <2>3, <2>4, ReachesIs
  <2>6. n <= end.links
    BY <2>1, <2>5 DEF Rule
  <2> QED BY <1>1, <2>4, <2>6, LinksAre, KernelAssumption
<1>5. FollowLink(r, root, target, rest) = r2
  BY <1>4 DEF FollowLink
<1> HIDE DEF stack, root
<1>6. r2 \in Resolutions
  BY <1>1, <1>3 DEF Resolutions
<1>7. /\ r2.err = "" /\ ~r2.done /\ r2.out = r.out /\ r2.nup = r.nup /\ r2.stack = stack /\ r2.cnt = n
      /\ (r2.abs <=> r.abs) /\ (r2.check <=> r.check)
  BY DEF Resolutions
<1> HIDE DEF r2, n
<1>8. Shaped(r2)
  BY <1>7 DEF Shaped
<1>9. Place(cwd, r2) = at
  BY <1>7 DEF Place
<1>10. r2.check => IsDir(fs, Place(cwd, r2))
  BY <1>7, <1>9
<1>11. Reaches(fs, jail, TRUE, IF IsAbsolute(r2.stack) THEN <<>> ELSE Place(cwd, r2),
               r2.stack, r2.cnt, end)
  BY <1>2, <1>7, <1>9
<1>12. Imitates(fs, cwd, jail, r2, end)
  BY <1>6, <1>7, <1>8, <1>10, <1>11 DEF Imitates
<1> QED BY <1>5, <1>12 DEF root

LEMMA DotImitates ==
    ASSUME NEW fs, IsTree(fs), NEW cwd, NEW jail \in DOMAIN fs, NEW end,
           NEW r \in Resolutions, r.err = "", ~r.done, Shaped(r),
           r.check => IsDir(fs, Place(cwd, r)), NEW rest \in Seq(Parts),
           Reaches(fs, jail, TRUE, Place(cwd, r), rest, r.cnt, end)
    PROVE  Imitates(fs, cwd, jail, [r EXCEPT !.stack = SkipSlashes(rest)], end)
<1> DEFINE stack == SkipSlashes(rest)
           r2 == [r EXCEPT !.stack = stack]
<1>1. stack \in Seq(Parts) /\ ~IsAbsolute(stack) /\ jail \in Seq(FileNames)
  BY SkippedIs, SkippedRelative DEF IsTree
<1>2. Reaches(fs, jail, TRUE, Place(cwd, r), stack, r.cnt, end)
  BY <1>1, SkipReaches
<1> HIDE DEF stack
<1>3. r2 \in Resolutions
  BY <1>1 DEF Resolutions
<1>4. /\ r2.err = "" /\ ~r2.done /\ r2.out = r.out /\ r2.nup = r.nup /\ r2.stack = stack
      /\ r2.cnt = r.cnt /\ (r2.abs <=> r.abs) /\ (r2.check <=> r.check)
  BY DEF Resolutions
<1> HIDE DEF r2
<1>5. Shaped(r2)
  BY <1>4 DEF Shaped
<1>6. Place(cwd, r2) = Place(cwd, r)
  BY <1>4 DEF Place
<1>7. r2.check => IsDir(fs, Place(cwd, r2))
  BY <1>4, <1>6
<1>8. Reaches(fs, jail, TRUE, IF IsAbsolute(r2.stack) THEN <<>> ELSE Place(cwd, r2),
              r2.stack, r2.cnt, end)
  BY <1>1, <1>2, <1>4, <1>6
<1>9. Imitates(fs, cwd, jail, r2, end)
  BY <1>3, <1>4, <1>5, <1>7, <1>8 DEF Imitates
<1> QED BY <1>9 DEF r2, stack

LEMMA UpImitates ==
    ASSUME NEW fs, IsTree(fs), NEW cwd \in DOMAIN fs, IsDir(fs, cwd), NEW jail \in DOMAIN fs,
           NEW end, NEW r \in Resolutions, r.err = "", ~r.done, Shaped(r),
           ~r.abs, Len(r.out) = r.nup, NEW rest \in Seq(Parts),
           Reaches(fs, jail, TRUE, Parent(Place(cwd, r)), rest, r.cnt, end)
    PROVE  Imitates(fs, cwd, jail, [r EXCEPT !.stack = SkipSlashes(rest),
                                             !.out = Append(@, DotDot), !.nup = @ + 1], end)
<1> DEFINE stack == SkipSlashes(rest)
           r2 == [r EXCEPT !.stack = stack, !.out = Append(@, DotDot), !.nup = @ + 1]
<1>1. stack \in Seq(Parts) /\ ~IsAbsolute(stack) /\ jail \in Seq(FileNames)
  BY SkippedIs, SkippedRelative DEF IsTree
<1>2. Reaches(fs, jail, TRUE, Parent(Place(cwd, r)), stack, r.cnt, end)
  BY <1>1, SkipReaches
<1> HIDE DEF stack
<1>3. r2 \in Resolutions
  <2>1. Append(r.out, DotDot) \in Seq(Parts) /\ r.nup + 1 \in Nat
    <3>1. r.out \in Seq(Parts) /\ r.nup \in Nat /\ DotDot \in Parts
      BY PartsAre DEF Resolutions
    <3>2. r.nup + 1 \in Nat
      BY <3>1, LinksAre
    <3> QED BY <3>1, <3>2, AppendIs
  <2> QED BY <1>1, <2>1 DEF Resolutions
<1>4. /\ r2.err = "" /\ ~r2.done /\ r2.out = Append(r.out, DotDot) /\ r2.nup = r.nup + 1
      /\ r2.stack = stack /\ r2.cnt = r.cnt /\ ~r2.abs
  BY DEF Resolutions
<1> HIDE DEF r2
<1>5. Shaped(r2) /\ Place(cwd, r2) = Parent(Place(cwd, r)) /\ IsDir(fs, Place(cwd, r2))
  BY <1>4, PlaceUp
<1>6. Reaches(fs, jail, TRUE, IF IsAbsolute(r2.stack) THEN <<>> ELSE Place(cwd, r2),
              r2.stack, r2.cnt, end)
  BY <1>1, <1>2, <1>4, <1>5
<1>7. Imitates(fs, cwd, jail, r2, end)
  BY <1>3, <1>4, <1>5, <1>6 DEF Imitates
<1> QED BY <1>7 DEF r2, stack

\* A part that is not empty.
LEMMA PartImitates ==
    ASSUME NEW fs, IsTree(fs), NothingRedirected(fs), NEW cwd \in DOMAIN fs, IsDir(fs, cwd),
           NEW jail \in DOMAIN fs, IsDir(fs, jail), NEW end, end.links + 1 < SYMLOOP_MAX,
           NEW r \in Resolutions, r.err = "", ~r.done, Shaped(r),
           r.check => IsDir(fs, Place(cwd, r)),
           NEW s \in Seq(Parts), s # <<>>, Head(s) # "",
           Reaches(fs, jail, TRUE, Place(cwd, r), s, r.cnt, end)
    PROVE  Imitates(fs, cwd, jail,
                    RealpathPart(fs, cwd, HostPath(jail), TRUE, r, Head(s), Tail(s)), end)
<1> DEFINE part == Head(s)
           rest == Tail(s)
           at == Place(cwd, r)
           root == HostPath(jail)
           next == Append(at, part)
           r2 == RealpathPart(fs, cwd, root, TRUE, r, part, rest)
           R(a, t, n) == Reaches(fs, jail, TRUE, a, t, n, end)
<1>1. part \in Parts /\ rest \in Seq(Parts) /\ jail \in Seq(FileNames)
  BY HeadTailProperties DEF IsTree
<1>2. at \in Seq(FileNames) /\ r.cnt \in 0..SYMLOOP_MAX
  BY DEF Reaches
<1>3. IsDir(fs, at)
  BY <1>1, <1>2, ReachesNeeds
<1>4. Rule(fs, jail, TRUE, at, s, r.cnt, end)
  BY <1>1, <1>2, ReachesIs
<1>5. Dot # DotDot /\ (part \in FileNames <=> part \notin {Dot, DotDot})
      /\ (part \in FileNames => part \notin {"", Dot, DotDot})
  BY <1>1, PartsAre DEF Dot, DotDot
<1> DEFINE seen == LookAt(fs, cwd, r, root, part, rest, Output(r, part))
<1>10. part # Dot => Sees(fs, cwd, r, root, part, rest)
  <2> HIDE DEF part, rest, root
  <2>1. part # Dot => part \in Parts \ {Dot}
    BY <1>1
  <2> QED BY <1>3, <2>1, HostSees
<1>6. CASE part = Dot
  <2>1. R(at, rest, r.cnt)
    BY <1>3, <1>4, <1>6 DEF Rule
  <2>2. r2 = [r EXCEPT !.stack = SkipSlashes(rest)]
    BY <1>6 DEF RealpathPart
  <2>3. Imitates(fs, cwd, jail, [r EXCEPT !.stack = SkipSlashes(rest)], end)
    BY <1>1, <2>1, DotImitates
  <2> QED BY <2>2, <2>3
<1>7. CASE part = DotDot /\ ~r.abs /\ Len(r.out) = r.nup
  <2>1. R(Parent(at), rest, r.cnt)
    BY <1>3, <1>4, <1>7 DEF Rule
  <2>2. r2 = [r EXCEPT !.stack = SkipSlashes(rest), !.out = Append(@, DotDot), !.nup = @ + 1]
    BY <1>5, <1>7 DEF RealpathPart
  <2>3. Imitates(fs, cwd, jail, [r EXCEPT !.stack = SkipSlashes(rest),
                                          !.out = Append(@, DotDot), !.nup = @ + 1], end)
    BY <1>1, <1>7, <2>1, UpImitates
  <2> QED BY <2>2, <2>3
<1>8. CASE part = DotDot /\ ~(~r.abs /\ Len(r.out) = r.nup)
  <2>1. R(Parent(at), rest, r.cnt)
    BY <1>3, <1>4, <1>8 DEF Rule
  <2>2. LookAt(fs, cwd, r, root, part, rest, Output(r, part)) = SkipReadlink(r, part, rest)
    BY <1>5, <1>8, <1>10 DEF Sees
  <2>3. r2 = SkipReadlink(r, part, rest)
    BY <1>5, <1>8, <2>2 DEF RealpathPart
  <2>4. R(Gone(at, part), rest, r.cnt)
    BY <1>8, <2>1, GoneIs
  <2>5. Imitates(fs, cwd, jail, SkipReadlink(r, part, rest), end)
    <3> HIDE DEF part, rest
    <3> QED BY <1>1, <1>3, <1>5, <1>8, <2>4, SkipImitates
  <2> QED BY <2>3, <2>5
<1>9. CASE part \in FileNames
  <2>1. r2 = LookAt(fs, cwd, r, root, part, rest, Output(r, part))
    BY <1>5, <1>9 DEF RealpathPart
  <2>2. CASE IsLink(fs, next)
    <3>1. r2 = FollowLink(r, root, fs[next].target, rest)
      BY <1>5, <1>9, <1>10, <2>1, <2>2 DEF Sees
    <3>2. R(Leading(jail, at, fs[next].target), Concat(fs[next].target, rest), r.cnt + 1)
      BY <1>3, <1>4, <1>5, <1>9, <2>2 DEF Rule, Follows
    <3>3. fs[next].target \in Pathnames
      BY <2>2 DEF IsLink, Exists, IsTree, Inodes
    <3> DEFINE target == fs[next].target
    <3> HIDE DEF target, part, rest, root, r2
    <3>4. Imitates(fs, cwd, jail, FollowLink(r, HostPath(jail), target, rest), end)
      BY <1>1, <3>2, <3>3, LinkImitates DEF target
    <3>5. Imitates(fs, cwd, jail, r2, end)
      BY <3>1, <3>4 DEF target, root
    <3> QED BY <3>5 DEF r2, part, rest, root
  <2>3. CASE ~IsLink(fs, next)
    <3>1. r2 = SkipReadlink(r, part, rest)
      BY <1>5, <1>9, <1>10, <2>1, <2>3 DEF Sees
    <3>2. R(next, rest, r.cnt)
      BY <1>3, <1>4, <1>5, <1>9, <2>3 DEF Rule, Follows
    <3>3. R(Gone(at, part), rest, r.cnt)
      BY <1>9, <3>2, GoneIs
    <3>4. Imitates(fs, cwd, jail, SkipReadlink(r, part, rest), end)
      <4> HIDE DEF part, rest
      <4> QED BY <1>1, <1>3, <1>5, <1>9, <3>3, SkipImitates
    <3> QED BY <3>1, <3>4
  <2> QED BY <2>2, <2>3
<1> QED BY <1>5, <1>6, <1>7, <1>8, <1>9

LEMMA StepImitates ==
    ASSUME NEW fs, IsTree(fs), NothingRedirected(fs), NEW cwd \in DOMAIN fs, IsDir(fs, cwd),
           NEW jail \in DOMAIN fs, IsDir(fs, jail), NEW end, end.links + 1 < SYMLOOP_MAX,
           NEW r, Imitates(fs, cwd, jail, r, end)
    PROVE  Imitates(fs, cwd, jail, RealpathStep(fs, cwd, HostPath(jail), TRUE, r), end)
<1> DEFINE at == Place(cwd, r)
           s == r.stack
           r2 == RealpathStep(fs, cwd, HostPath(jail), TRUE, r)
<1>1. /\ r \in Resolutions /\ r.err = "" /\ Shaped(r) /\ (r.check => IsDir(fs, at))
      /\ Reaches(fs, jail, TRUE, IF IsAbsolute(s) THEN <<>> ELSE at, s, r.cnt, end)
  BY DEF Imitates
<1>2. s \in Seq(Parts) /\ jail \in Seq(FileNames) /\ at \in Seq(FileNames) /\ r.cnt \in 0..SYMLOOP_MAX
  <2>1. s \in Seq(Parts) /\ r.cnt \in 0..SYMLOOP_MAX
    BY <1>1 DEF Reaches
  <2> QED BY <1>1, <2>1, PlaceIs DEF IsTree
<1>3. CASE r.done
  <2>1. r2 = r
    BY <1>3 DEF RealpathStep
  <2> QED BY <2>1
<1>4. CASE ~r.done /\ IsAbsolute(s)
  <2>1. r2 = [r EXCEPT !.stack = SkipSlashes(@), !.abs = TRUE, !.two = Doubled(r.stack),
                       !.out = <<>>, !.nup = 0, !.check = FALSE]
    BY <1>1, <1>4 DEF RealpathStep
  <2>2. Reaches(fs, jail, TRUE, <<>>, r.stack, r.cnt, end)
    BY <1>1, <1>4
  <2> HIDE DEF s
  <2>3. Imitates(fs, cwd, jail, [r EXCEPT !.stack = SkipSlashes(@), !.abs = TRUE,
                                          !.two = Doubled(r.stack), !.out = <<>>,
                                          !.nup = 0, !.check = FALSE], end)
    BY <1>1, <1>4, <2>2, AbsoluteImitates
  <2> QED BY <2>1, <2>3
<1>5. CASE ~r.done /\ ~IsAbsolute(s) /\ s \in {<<>>, Empty} /\ ~r.check
  <2>1. r2 = [r EXCEPT !.done = TRUE]
    BY <1>1, <1>5 DEF RealpathStep
  <2> DEFINE d == [r EXCEPT !.done = TRUE]
  <2>2. d \in Resolutions
    BY <1>1 DEF Resolutions
  <2>3. /\ d.err = r.err /\ d.out = r.out /\ d.nup = r.nup /\ d.stack = s /\ d.cnt = r.cnt
        /\ (d.abs <=> r.abs) /\ ~d.check
    BY <1>1, <1>5 DEF Resolutions
  <2> HIDE DEF d, s
  <2>4. Shaped(d)
    BY <1>1, <2>3 DEF Shaped
  <2>5. Place(cwd, d) = at
    BY <2>3 DEF Place
  <2>6. Reaches(fs, jail, TRUE, IF IsAbsolute(d.stack) THEN <<>> ELSE Place(cwd, d),
                d.stack, d.cnt, end)
    BY <1>1, <2>3, <2>5
  <2>7. Imitates(fs, cwd, jail, d, end)
    BY <1>1, <1>5, <2>2, <2>3, <2>4, <2>6 DEF Imitates
  <2> QED BY <2>1, <2>7 DEF d
<1>6. CASE ~r.done /\ ~IsAbsolute(s) /\ s \in {<<>>, Empty} /\ r.check
  <2>1. r2 = RealpathPart(fs, cwd, HostPath(jail), TRUE, r, "", <<>>)
    BY <1>1, <1>6 DEF RealpathStep
  <2>2. "" # Dot /\ "" # DotDot /\ "" \in Parts /\ "" \notin FileNames /\ <<>> \in Seq(Parts)
    BY PartsAre, NoneLeft DEF Dot, DotDot
  <2>3. IsDir(fs, at)
    BY <1>1, <1>6
  <2>4. LookAt(fs, cwd, r, HostPath(jail), "", <<>>, Output(r, "")) = SkipReadlink(r, "", <<>>)
    <3>1. Sees(fs, cwd, r, HostPath(jail), "", <<>>)
      BY <1>1, <2>2, <2>3, HostSees
    <3> QED BY <2>2, <3>1 DEF Sees
  <2>5. r2 = SkipReadlink(r, "", <<>>)
    BY <2>1, <2>2, <2>4 DEF RealpathPart
  <2>6. Reaches(fs, jail, TRUE, at, <<>>, r.cnt, end)
    <3>1. CASE s = <<>>
      BY <1>1, <1>6, <3>1
    <3>2. CASE s = Empty
      <4>1. Head(s) = "" /\ Tail(s) = <<>> /\ s # <<>>
        BY <3>2, SlashParts, EmptyIs
      <4>2. Rule(fs, jail, TRUE, at, s, r.cnt, end)
        BY <1>2, <4>1, ReachesIs
      <4> QED BY <1>1, <1>6, <2>3, <4>1, <4>2 DEF Rule
    <3> QED BY <1>6, <3>1, <3>2
  <2>7. Gone(at, "") = at
    BY GoneIs
  <2>8. Imitates(fs, cwd, jail, SkipReadlink(r, "", <<>>), end)
    BY <1>1, <1>6, <2>2, <2>3, <2>6, <2>7, SkipImitates
  <2> QED BY <2>5, <2>8
<1>7. CASE ~r.done /\ ~IsAbsolute(s) /\ s \notin {<<>>, Empty}
  <2>1. r2 = RealpathPart(fs, cwd, HostPath(jail), TRUE, r, Head(s), Tail(s))
    BY <1>1, <1>7 DEF RealpathStep
  <2>2. Head(s) # ""
    BY <1>2, <1>7, RelativeHead
  <2>3. Reaches(fs, jail, TRUE, at, s, r.cnt, end) /\ s # <<>>
    BY <1>1, <1>7
  <2> HIDE DEF s
  <2>4. Imitates(fs, cwd, jail, RealpathPart(fs, cwd, HostPath(jail), TRUE, r, Head(s), Tail(s)), end)
    BY <1>1, <1>2, <1>7, <2>2, <2>3, PartImitates
  <2> QED BY <2>1, <2>4
<1> QED BY <1>3, <1>4, <1>5, <1>6, <1>7

LEMMA EndsAt ==
    ASSUME NEW fs, IsTree(fs), NEW root \in Seq(FileNames), NEW follow, NEW at, NEW links, NEW end,
           Reaches(fs, root, follow, at, <<>>, links, end)
    PROVE  end.at = at
<1>1. at \in Seq(FileNames) /\ links \in 0..SYMLOOP_MAX
  BY DEF Reaches
<1>2. end = On(at, <<>>, links)
  BY <1>1, ReachesEnd
<1> QED BY <1>2 DEF On

LEMMA ZeroIn == \A n \in Nat : 0 \in 0..n
  OBVIOUS

LEMMA OneNotMore == \A n : n = 1 => ~(n > 1)
  OBVIOUS

\* At the end of the resolution.
LEMMA DoneIs ==
    ASSUME NEW fs, IsTree(fs), NEW cwd \in DOMAIN fs, IsDir(fs, cwd),
           NEW jail \in DOMAIN fs, NEW end,
           NEW r, Imitates(fs, cwd, jail, r, end), r.done
    PROVE  \A path : RealpathResult(cwd, path, r) = Written(r, end.at)
<1>1. /\ r \in Resolutions /\ Shaped(r) /\ r.stack \in {<<>>, Empty} /\ r.cnt \in 0..SYMLOOP_MAX
      /\ Reaches(fs, jail, TRUE, IF IsAbsolute(r.stack) THEN <<>> ELSE Place(cwd, r),
                 r.stack, r.cnt, end)
  BY DEF Imitates, Reaches
<1> DEFINE place == Place(cwd, r)
<1>2. place \in Seq(FileNames) /\ jail \in Seq(FileNames) /\ cwd \in Seq(FileNames)
  BY <1>1, PlaceIs DEF IsTree
<1>3. ~IsAbsolute(r.stack)
  <2>1. ~IsAbsolute(Empty)
    BY EmptyIs, OneNotMore DEF IsAbsolute
  <2> QED BY <1>1, <2>1, NothingIsRelative
<1>4. Reaches(fs, jail, TRUE, place, r.stack, r.cnt, end)
  BY <1>1, <1>3
<1>5. Reaches(fs, jail, TRUE, place, <<>>, r.cnt, end)
  <2>1. CASE r.stack = <<>>
    BY <1>4, <2>1
  <2>2. CASE r.stack = Empty
    <3>1. Empty \in Seq(Parts) /\ Empty # <<>> /\ Head(Empty) = "" /\ Tail(Empty) = <<>>
      BY EmptyIs, SlashParts
    <3> HIDE DEF place
    <3>2. Rule(fs, jail, TRUE, place, Empty, r.cnt, end)
      BY <1>1, <1>2, <3>1, ReachesIs
    <3> QED BY <1>4, <2>2, <3>1, <3>2 DEF Rule
  <2> QED BY <1>1, <2>1, <2>2
<1>6. end.at = place
  <2> HIDE DEF place
  <2> QED BY <1>2, <1>5, EndsAt
<1>7. RealpathResult(cwd, <<>>, [r EXCEPT !.done = TRUE]) = Written(r, place)
  BY <1>1, PlaceIs
<1>8. [r EXCEPT !.done = TRUE] = r
  BY <1>1 DEF Resolutions
<1>9. \A path : RealpathResult(cwd, path, r) = RealpathResult(cwd, <<>>, r)
  BY DEF RealpathResult
<1> HIDE DEF place
<1> QED BY <1>6, <1>7, <1>8, <1>9

(***************************************************************************)
(* The resolution of __realpathat() comes to where the kernel comes in the *)
(* jail, once it is done.                                                  *)
(***************************************************************************)
LEMMA RunImitates ==
    ASSUME NEW fs, IsTree(fs), NothingRedirected(fs), NEW cwd \in DOMAIN fs, IsDir(fs, cwd),
           NEW jail \in DOMAIN fs, IsDir(fs, jail), NEW end, end.links + 1 < SYMLOOP_MAX,
           NEW path \in Pathnames,
           Reaches(fs, jail, TRUE, IF IsAbsolute(path) THEN <<>> ELSE cwd, path, 0, end)
    PROVE  LET run == RealpathRun(fs, cwd, HostPath(jail), path, TRUE)
           IN  /\ run.err = ""
               /\ __realpathat(fs, cwd, HostPath(jail), path, TRUE)
                     = IF run.done THEN Written(run, end.at) ELSE path
<1> DEFINE root == HostPath(jail)
           last == RealpathRun(fs, cwd, root, path, TRUE)
           I == {r \in Resolutions : Imitates(fs, cwd, jail, r, end)}
           start == RealpathStart(path)
<1>1. cwd \in Seq(FileNames) /\ jail \in Seq(FileNames) /\ root \in Pathnames
  BY HostPathIs DEF IsTree
<1>2. path \in Seq(Parts) /\ path # <<>>
  BY PathnamesAre
<1>3. start \in I
  <2>1. start \in Resolutions
    <3>1. <<>> \in Seq(Parts) /\ 0 \in Nat /\ "" \in Errors
      BY NoneLeft DEF Errors
    <3> QED BY <1>2, <3>1 DEF RealpathStart, Resolutions
  <2>2. /\ start.err = "" /\ ~start.check /\ ~start.done /\ ~start.abs /\ start.stack = path
        /\ start.cnt = 0 /\ start.nup = 0 /\ start.out = <<>>
    BY DEF RealpathStart
  <2> HIDE DEF start
  <2>3. Shaped(start)
    <3>1. Rest(<<>>, 0) = <<>> /\ <<>> \in Seq(FileNames)
      BY CutEnds, NoneLeft
    <3> QED BY <2>2, <3>1, NoneLeft DEF Shaped
  <2>4. Place(cwd, start) = cwd
    <3>1. Rest(<<>>, 0) = <<>> /\ Up(cwd, 0) = cwd /\ cwd \in Seq(Parts)
      BY <1>1, UpIs, CutEnds, NoneLeft, NamesAreParts
    <3>2. Concat(cwd, <<>>) = cwd
      BY <3>1, Concats
    <3> QED BY <2>2, <3>1, <3>2 DEF Place
  <2> QED BY <2>1, <2>2, <2>3, <2>4 DEF Imitates
<1>4. ASSUME NEW r \in I PROVE RealpathStep(fs, cwd, root, TRUE, r) \in I
  <2>1. Imitates(fs, cwd, jail, r, end)
    OBVIOUS
  <2>2. Imitates(fs, cwd, jail, RealpathStep(fs, cwd, root, TRUE, r), end)
    BY <2>1, StepImitates
  <2>3. RealpathStep(fs, cwd, root, TRUE, r) \in Resolutions
    BY <1>1, RealpathStepIs
  <2> QED BY <2>2, <2>3
<1> HIDE DEF I
<1>5. PICK run : /\ Runs(run, fs, cwd, root, path, TRUE)
                 /\ last = run[MaxSteps]
                 /\ __realpathat(fs, cwd, root, path, TRUE) = RealpathResult(cwd, path, run[MaxSteps])
  <2>0. cwd \in Seq(FileNames)
    BY <1>1
  <2> HIDE DEF root, last, start
  <2>1. \A b \in Pathnames : \A f :
            \E run : /\ Runs(run, fs, cwd, b, path, f)
                     /\ RealpathRun(fs, cwd, b, path, f) = run[MaxSteps]
                     /\ __realpathat(fs, cwd, b, path, f)
                           = RealpathResult(cwd, path, run[MaxSteps])
    BY <2>0, RealpathRuns
  <2>2. \E run : /\ Runs(run, fs, cwd, root, path, TRUE)
                 /\ RealpathRun(fs, cwd, root, path, TRUE) = run[MaxSteps]
                 /\ __realpathat(fs, cwd, root, path, TRUE) = RealpathResult(cwd, path, run[MaxSteps])
    BY <1>1, <2>1
  <2> QED BY <2>2 DEF last
<1>6. run[MaxSteps] \in I
  <2> HIDE DEF root
  <2> QED BY <1>3, <1>4, <1>5, RunKeeps
<1>7. Imitates(fs, cwd, jail, last, end)
  <2> HIDE DEF root, last
  <2> QED BY <1>5, <1>6 DEF I
<1> SUFFICES last.err = "" /\ __realpathat(fs, cwd, root, path, TRUE)
                                   = IF last.done THEN Written(last, end.at) ELSE path
  OBVIOUS
<1>11. __realpathat(fs, cwd, root, path, TRUE) = RealpathResult(cwd, path, last)
  <2> HIDE DEF last, root
  <2> QED BY <1>5
<1> HIDE DEF last, root
<1>8. last.err = "" /\ last \in Resolutions
  BY <1>7 DEF Imitates
<1>9. CASE last.done
  <2>1. \A r, p : Imitates(fs, cwd, jail, r, end) /\ r.done =>
                     RealpathResult(cwd, p, r) = Written(r, end.at)
    BY DoneIs
  <2>2. RealpathResult(cwd, path, last) = Written(last, end.at)
    BY <1>7, <1>9, <2>1
  <2> QED BY <1>8, <1>9, <1>11, <2>2
<1>10. CASE ~last.done
  BY <1>8, <1>11, <1>10 DEF RealpathResult
<1> QED BY <1>8, <1>9, <1>10

(***************************************************************************)
(* A lookup ends at a location that is in a directory and is no link, and  *)
(* that is below the root if the lookup is from below the root.            *)
(***************************************************************************)
Stands(fs, at) == at \in Seq(FileNames) /\ IsDir(fs, Parent(at)) /\ ~IsLink(fs, at)

LEMMA DirStands ==
    ASSUME NEW fs, IsTree(fs), NEW at, IsDir(fs, at)
    PROVE  at \in Seq(FileNames) /\ Stands(fs, at) /\ IsDir(fs, Parent(at)) /\ Stands(fs, Parent(at))
<1>1. ASSUME NEW loc, IsDir(fs, loc)
      PROVE  loc \in Seq(FileNames) /\ IsDir(fs, Parent(loc)) /\ Stands(fs, loc)
  BY <1>1 DEF IsTree, IsDir, IsLink, Exists, Stands
<1> QED BY <1>1

\* What the next location of a lookup is to the one before.
NextStands(fs, root, at, at2, todo2) ==
    /\ Below(at, root) => Below(at2, root)
    /\ todo2 = <<>> => Stands(fs, at2)

LEMMA StepStands ==
    ASSUME NEW fs, IsTree(fs), NEW root \in Seq(FileNames),
           NEW at \in Seq(FileNames), NEW todo \in Seq(Parts), todo # <<>>, NEW links,
           NEW m, m.err = "", ~m.clamped,
           Stepping(fs, root, TRUE, at, todo, links, m)
    PROVE  NextStands(fs, root, at, m.at, m.todo)
<1> DEFINE part == Head(todo)
           rest == Tail(todo)
           next == Append(at, part)
           target == fs[next].target
<1>1. part \in Parts /\ rest \in Seq(Parts)
  BY HeadTailProperties
<1>2. IsDir(fs, at)
  BY DEF Stepping
<1>3. Stands(fs, at) /\ Stands(fs, Parent(at))
  BY <1>2, DirStands
<1>0. \A a, s, k : On(a, s, k).at = a /\ On(a, s, k).todo = s
  BY DEF On
<1>4. CASE part \in {"", Dot}
  <2>1. m = On(at, rest, links)
    BY <1>2, <1>4 DEF Stepping
  <2>2. m.at = at
    BY <1>0, <2>1
  <2> QED BY <1>3, <2>2 DEF NextStands
<1>5. CASE part = DotDot
  <2>1. ~(at = root /\ root # <<>>) /\ m = On(Parent(at), rest, links)
    BY <1>2, <1>5 DEF Stepping
  <2>2. Below(at, root) => Below(Parent(at), root)
    <3>1. CASE at = root
      <4>1. root = <<>> /\ Parent(at) \in Seq(FileNames)
        BY <2>1, <3>1, ParentIs
      <4> QED BY <4>1, BelowParent
    <3>2. CASE at # root
      BY <3>2, BelowParent
    <3> QED BY <3>1, <3>2
  <2>3. m.at = Parent(at)
    BY <1>0, <2>1
  <2> QED BY <1>3, <2>2, <2>3 DEF NextStands
<1>6. CASE part \notin {"", Dot, DotDot} /\ Follows(fs, TRUE, at, todo)
  <2>1. m = On(Leading(root, at, target), Concat(target, rest), links + 1)
    BY <1>2, <1>6 DEF Stepping
  <2>2. target \in Pathnames
    <3>1. IsLink(fs, next)
      BY <1>6 DEF Follows
    <3> HIDE DEF next
    <3> QED BY <3>1 DEF IsLink, Exists, IsTree, Inodes
  <2>3. Concat(target, rest) # <<>>
    <3>1. target \in Seq(Parts) /\ target # <<>>
      BY <2>2, PathnamesAre
    <3> HIDE DEF target, rest
    <3> QED BY <1>1, <3>1, Concats
  <2>4. Below(root, root)
    BY BelowParent
  <2>5. Below(at, root) => Below(Leading(root, at, target), root)
    BY <2>4 DEF Leading
  <2> HIDE DEF target
  <2>6. m.at = Leading(root, at, target) /\ m.todo = Concat(target, rest)
    <3> DEFINE count == links + 1
               to == Leading(root, at, target)
               left == Concat(target, rest)
    <3>1. m = On(to, left, count)
      BY <2>1
    <3> HIDE DEF count, to, left
    <3>2. m.at = to /\ m.todo = left
      BY <3>1 DEF On
    <3> QED BY <3>2 DEF to, left
  <2> QED BY <2>3, <2>5, <2>6 DEF NextStands
<1>7. CASE part \notin {"", Dot, DotDot} /\ ~Follows(fs, TRUE, at, todo)
  <2>1. m = On(next, rest, links)
    BY <1>2, <1>7 DEF Stepping
  <2>2. part \in FileNames
    BY <1>1, <1>7, PartsAre
  <2>3. next \in Seq(FileNames) /\ Parent(next) = at
    BY <2>2, ParentOfChild, AppendIs
  <2>4. ~IsLink(fs, next)
    BY <1>7 DEF Follows
  <2>5. Below(at, root) => Below(next, root)
    <3> HIDE DEF next
    <3> QED BY <2>3, BelowParent
  <2> HIDE DEF next
  <2>6. m.at = next
    BY <1>0, <2>1
  <2> QED BY <1>2, <2>3, <2>4, <2>5, <2>6 DEF NextStands, Stands
<1> QED BY <1>4, <1>5, <1>6, <1>7

LEMMA EndStands ==
    ASSUME NEW fs, IsTree(fs), NEW root \in Seq(FileNames),
           NEW at, NEW todo, todo # <<>>, NEW links, NEW end,
           Reaches(fs, root, TRUE, at, todo, links, end)
    PROVE  NextStands(fs, root, at, end.at, <<>>)
<1> DEFINE R(a, s, n, e) == Reaches(fs, root, TRUE, a, s, n, e)
           Ends(l) == \A e : l = On(l.at, l.todo, l.links) /\ R(l.at, l.todo, l.links, e)
                              => /\ Below(l.at, root) => Below(e.at, root)
                                 /\ l.todo # <<>> => Stands(fs, e.at)
           T == {l \in Lookups : Ends(l)}
<1>1. Final \subseteq T
  <2> SUFFICES ASSUME NEW l \in Final, NEW e, l = On(l.at, l.todo, l.links),
                      R(l.at, l.todo, l.links, e)
               PROVE  l.todo = <<>> /\ e.at = l.at
    BY DEF Final
  <2> DEFINE k == On(l.at, l.todo, l.links)
  <2>1. k.err = ""
    BY DEF On
  <2> HIDE DEF k
  <2>2. l.err = ""
    BY <2>1 DEF k
  <2>3. l.todo = <<>>
    BY <2>2 DEF Final
  <2>4. R(l.at, <<>>, l.links, e)
    BY <2>3
  <2> DEFINE b == l.at
             n == l.links
  <2>5. R(b, <<>>, n, e)
    BY <2>4
  <2> HIDE DEF b, n
  <2>6. e.at = b
    BY <2>5, EndsAt
  <2> QED BY <2>3, <2>6 DEF b
<1>2. ASSUME NEW l \in Lookups, l \notin Final, LookupStep(fs, root, TRUE, l) \in T
      PROVE  l \in T
  <2> DEFINE a == l.at
             s == l.todo
             n == l.links
             m == LookupStep(fs, root, TRUE, l)
  <2> SUFFICES ASSUME NEW e, l = On(a, s, n), R(a, s, n, e)
               PROVE  NextStands(fs, root, a, e.at, <<>>)
    BY DEF NextStands
  <2>1. a \in Seq(FileNames) /\ n \in 0..SYMLOOP_MAX /\ s \in Seq(Parts) /\ s # <<>>
    <3>1. l.todo # <<>>
      BY <1>2 DEF Final
    <3>2. l.at \in Seq(FileNames) /\ l.links \in 0..SYMLOOP_MAX /\ l.todo \in Seq(Parts)
      BY <1>2 DEF Lookups
    <3> QED BY <3>1, <3>2
  <2>2. SameEnd(fs, root, TRUE, a, s, n, e, LookupStep(fs, root, TRUE, On(a, s, n)))
    <3> HIDE DEF a, s, n
    <3> QED BY <2>1, ReachesStep
  <2>3. Stepping(fs, root, TRUE, a, s, n, LookupStep(fs, root, TRUE, On(a, s, n)))
    BY OnSteps
  <2>4. Stepping(fs, root, TRUE, a, s, n, m) /\ SameEnd(fs, root, TRUE, a, s, n, e, m)
    BY <2>2, <2>3
  <2>5. R(a, s, n, e) /\ m \in T
    BY <1>2
  <2> HIDE DEF a, s, n, m, T
  <2>6. m = On(m.at, m.todo, m.links) /\ m.err = "" /\ ~m.clamped /\ R(m.at, m.todo, m.links, e)
    BY <2>4, <2>5 DEF SameEnd
  <2>7. NextStands(fs, root, a, m.at, m.todo)
    BY <2>1, <2>4, <2>6, StepStands
  <2>8. /\ Below(m.at, root) => Below(e.at, root)
        /\ m.todo # <<>> => Stands(fs, e.at)
    <3>1. Ends(m)
      BY <2>5 DEF T
    <3> QED BY <2>6, <3>1
  <2>9. m.todo = <<>> => e.at = m.at
    <3> SUFFICES ASSUME m.todo = <<>> PROVE e.at = m.at
      OBVIOUS
    <3> DEFINE b == m.at
               k == m.links
    <3>1. R(b, <<>>, k, e)
      BY <2>6
    <3> HIDE DEF b, k
    <3>2. e.at = b
      BY <3>1, EndsAt
    <3> QED BY <3>2 DEF b
  <2> QED BY <2>7, <2>8, <2>9 DEF NextStands
<1>3. Lookups \subseteq T
  <2> HIDE DEF T
  <2> QED BY <1>1, <1>2, LookupInduction
<1>4. /\ at \in Seq(FileNames) /\ todo \in Seq(Parts) /\ links \in 0..SYMLOOP_MAX
      /\ R(at, todo, links, end)
  BY DEF Reaches
<1> DEFINE l == On(at, todo, links)
<1>5. l \in Lookups /\ l.at = at /\ l.todo = todo /\ l.links = links
  BY <1>4, OnIs DEF On
<1>6. l = On(l.at, l.todo, l.links)
  BY <1>5
<1> HIDE DEF l, R
<1>7. Ends(l)
  BY <1>3, <1>5
<1> QED BY <1>4, <1>5, <1>6, <1>7 DEF NextStands

\* The last name of a location.
LEMMA NameIs ==
    ASSUME NEW loc \in Seq(FileNames), loc # <<>>
    PROVE  \E name \in FileNames : /\ Append(Parent(loc), name) = loc
                                   /\ Concat(Parent(loc), One(name)) = loc
<1>1. Parent(loc) \in Seq(FileNames) /\ \E name \in FileNames : loc = Parent(loc) \o <<name>>
  BY ParentParts
<1>2. PICK name \in FileNames : loc = Parent(loc) \o <<name>>
  BY <1>1
<1>3. loc = Concat(Parent(loc), One(name))
  BY <1>2 DEF Concat, One
<1>4. Append(Parent(loc), name) = Concat(Parent(loc), One(name))
  BY <1>1, AppendIs
<1> QED BY <1>3, <1>4

(***************************************************************************)
(* The path of a location leads to it, whether there is a file or only the *)
(* directory to make one in.                                               *)
(***************************************************************************)
LEMMA HostPathReaches ==
    ASSUME NEW fs, IsTree(fs), NEW root \in Seq(FileNames), NEW follow,
           NEW loc, Stands(fs, loc)
    PROVE  Reaches(fs, root, follow, <<>>, HostPath(loc), 0, On(loc, <<>>, 0))
<1> DEFINE end == On(loc, <<>>, 0)
           up == Parent(loc)
           R(at, s) == Reaches(fs, root, follow, at, s, 0, end)
<1>1. /\ loc \in Seq(FileNames) /\ IsDir(fs, up) /\ ~IsLink(fs, loc) /\ up \in DOMAIN fs
      /\ up \in Seq(FileNames)
  BY ParentIs DEF Stands, IsDir, Exists
<1>2. IsDir(fs, <<>>) /\ <<>> \in Seq(FileNames) /\ 0 \in 0..SYMLOOP_MAX
  BY <1>1, RootIsDir, NoneLeft, KernelAssumption
<1>3. R(loc, <<>>)
  BY <1>1, <1>2, ReachesEnd
<1> DEFINE path == HostPath(loc)
<1>4. path \in Seq(Parts) /\ path # <<>> /\ Head(path) = ""
  BY <1>1, HostPathParts, PathnamesAre
<1>5. R(<<>>, Tail(path)) => R(<<>>, path)
  <2> HIDE DEF path, end
  <2>1. Rule(fs, root, follow, <<>>, path, 0, end)
    BY <1>2, <1>4, ReachesIs
  <2> QED BY <1>2, <1>4, <2>1 DEF Rule
<1>6. CASE loc = <<>>
  <2>1. Tail(path) = Empty /\ Empty \in Seq(Parts) /\ Empty # <<>> /\ Head(Empty) = ""
        /\ Tail(Empty) = <<>>
    BY <1>1, <1>6, HostPathParts, EmptyIs, SlashParts
  <2>2. R(<<>>, <<>>)
    BY <1>3, <1>6
  <2> HIDE DEF path, end
  <2>3. Rule(fs, root, follow, <<>>, Empty, 0, end)
    BY <1>2, <2>1, ReachesIs
  <2>4. R(<<>>, Empty)
    BY <1>2, <2>1, <2>2, <2>3 DEF Rule
  <2> QED BY <1>5, <2>1, <2>4 DEF path, end
<1>7. CASE loc # <<>>
  <2>1. Tail(path) = loc
    BY <1>1, <1>7, HostPathParts
  <2>2. PICK name \in FileNames : Append(up, name) = loc /\ Concat(up, One(name)) = loc
    BY <1>1, <1>7, NameIs
  <2> DEFINE o == One(name)
  <2>3. name \in Parts /\ name # "" /\ name # Dot /\ name # DotDot
    BY PartsAre
  <2>4. o \in Seq(Parts) /\ o # <<>> /\ Head(o) = name /\ Tail(o) = <<>>
    BY <2>3, OneIs
  <2>5. R(up, o)
    <3>1. Rule(fs, root, follow, up, o, 0, end)
      <4> HIDE DEF o, up, end
      <4> QED BY <1>1, <1>2, <2>4, ReachesIs
    <3>2. ~Follows(fs, follow, up, o)
      <4> HIDE DEF o, up
      <4> QED BY <1>1, <2>2, <2>4 DEF Follows
    <3> HIDE DEF o, up, end
    <3> QED BY <1>1, <1>3, <2>2, <2>3, <2>4, <3>1, <3>2 DEF Rule
  <2>6. R(<<>>, loc)
    <3> HIDE DEF o, up, end
    <3>1. 0 \in 0..Len(up)
      BY <1>1, NamesAreParts, ZeroIn
    <3>2. R(up, o) <=> R(Begin(up, 0), Concat(Rest(up, 0), o))
      BY <1>1, <1>2, <2>4, <3>1, WalkDown
    <3>3. Begin(up, 0) = <<>> /\ Rest(up, 0) = up
      BY <1>1, CutEnds
    <3> QED BY <2>2, <2>5, <3>2, <3>3 DEF o
  <2> QED BY <1>5, <2>1, <2>6
<1> QED BY <1>6, <1>7

\* Where a sequence is cut.
LEMMA Cuts ==
    /\ \A n \in Nat : \A k \in 0..n :
          k \in Nat /\ k <= n /\ k <= k /\ n - k \in Nat /\ n - k <= n - k /\ n - (n - k) = k /\ n - 0 = n
    /\ \A n \in Nat : \A k \in 0..n : \A j \in Nat :
          j + 1 <= n - k => /\ j <= n - k /\ n - (j + 1) \in 0..n /\ n - (j + 1) # n
                            /\ (n - (j + 1)) + 1 = n - j /\ (n - (j + 1)) + 1 \in (k + 1)..n
    /\ \A n \in Nat \ {0} : \A i \in 1..n :
          /\ i \in 0..n /\ i - 1 \in 0..n /\ (i - 1) + 1 = i /\ i - 1 # n /\ 1 \in 1..i
          /\ 1 \in 1..(n - (i - 1)) /\ (i = 1 \/ i > 1) /\ (i > 1 => n > 1)
  OBVIOUS

(***************************************************************************)
(* __path_sanitize() takes nothing away that a lookup would go through.    *)
(***************************************************************************)
LEMMA DropLeading ==
    ASSUME NEW fs, IsTree(fs), NEW root \in Seq(FileNames), NEW end, NEW at, NEW links,
           NEW s \in Seq(Parts), NEW k \in 0..Len(s), \A m \in 1..k : s[m] = Dot,
           Reaches(fs, root, TRUE, at, s, links, end)
    PROVE  Reaches(fs, root, TRUE, at, Rest(s, k), links, end)
<1> DEFINE R(t) == Reaches(fs, root, TRUE, at, t, links, end)
           T == {j \in Nat : j <= k => R(Rest(s, j))}
<1>1. at \in Seq(FileNames) /\ links \in 0..SYMLOOP_MAX /\ Len(s) \in Nat
  BY DEF Reaches
<1>0. k \in Nat /\ k <= k
  BY <1>1, Cuts
<1> HIDE DEF R
<1>2. 0 \in T
  BY CutEnds DEF R
<1>3. ASSUME NEW j \in Nat, j \in T PROVE j + 1 \in T
  <2> SUFFICES ASSUME j + 1 <= k PROVE R(Rest(s, j + 1))
    OBVIOUS
  <2>1. j <= k /\ j \in 0..Len(s) /\ j # Len(s) /\ j + 1 \in 1..k
    BY <1>1
  <2>2. R(Rest(s, j)) /\ s[j + 1] = Dot
    BY <1>3, <2>1
  <2>3. Rest(s, j) \in Seq(Parts)
    BY <2>1, CutIs
  <2>4. Rest(s, j) # <<>> /\ Head(Rest(s, j)) = Dot /\ Tail(Rest(s, j)) = Rest(s, j + 1)
    BY <2>1, <2>2, CutSteps
  <2>5. Rule(fs, root, TRUE, at, Rest(s, j), links, end)
    BY <1>1, <2>3, <2>4, ReachesIs
  <2> QED BY <2>2, <2>4, <2>5 DEF Rule, R
<1> HIDE DEF T
<1>4. k \in T
  BY <1>0, <1>2, <1>3, Induction
<1> QED BY <1>0, <1>4 DEF T, R

LEMMA DropTrailing ==
    ASSUME NEW fs, IsTree(fs), NEW root \in Seq(FileNames), NEW end, NEW at, NEW links,
           NEW part \in {"", Dot},
           NEW s \in Seq(Parts), NEW k \in 0..Len(s), \A m \in (k + 1)..Len(s) : s[m] = part,
           Reaches(fs, root, TRUE, at, s, links, end)
    PROVE  Reaches(fs, root, TRUE, at, Begin(s, k), links, end)
<1> DEFINE R(t) == Reaches(fs, root, TRUE, at, t, links, end)
           n == Len(s)
           T == {j \in Nat : j <= n - k => R(Begin(s, n - j))}
<1>5. n \in Nat
  BY Lengths
<1>1. /\ k \in Nat /\ k <= n /\ n - k \in Nat /\ n - k <= n - k /\ n - (n - k) = k /\ n - 0 = n
      /\ n \in Nat
  BY <1>5, Cuts, ZenonT(30)
<1>0. part \in Parts
  BY PartsAre
<1> HIDE DEF R
<1>2. 0 \in T
  BY <1>1, CutEnds DEF R
<1>3. ASSUME NEW j \in Nat, j \in T PROVE j + 1 \in T
  <2>0. j + 1 \in Nat
    BY LinksAre
  <2> SUFFICES ASSUME j + 1 <= n - k PROVE R(Begin(s, n - (j + 1)))
    BY <2>0
  <2> DEFINE i == n - (j + 1)
  <2>1. /\ j <= n - k /\ i \in 0..n /\ i # n /\ i + 1 = n - j /\ i + 1 \in (k + 1)..n
    <3>1. k \in 0..n
      OBVIOUS
    <3> HIDE DEF n, T, i
    <3>2. j + 1 <= n - k => /\ j <= n - k /\ n - (j + 1) \in 0..n /\ n - (j + 1) # n
                            /\ (n - (j + 1)) + 1 = n - j /\ (n - (j + 1)) + 1 \in (k + 1)..n
      BY <1>5, <3>1, Cuts
    <3> QED BY <3>2 DEF i
  <2> HIDE DEF i, n
  <2>2. R(Begin(s, i + 1)) /\ s[i + 1] = part
    BY <1>3, <2>1 DEF n
  <2>3. Begin(s, i) \in Seq(Parts)
    BY <2>1, CutIs DEF n
  <2>4. Begin(s, i + 1) = Append(Begin(s, i), part)
    BY <2>1, <2>2, CutSteps DEF n
  <2>5. Begin(s, i + 1) = Concat(Begin(s, i), Concat(One(part), <<>>))
    <3> HIDE DEF R
    <3> DEFINE b == Begin(s, i)
    <3> HIDE DEF b
    <3>1. b \in Seq(Parts)
      BY <2>3 DEF b
    <3>2. Append(b, part) = Concat(b, One(part)) /\ One(part) \in Seq(Parts)
      BY <1>0, <3>1, AppendIs
    <3>3. Concat(One(part), <<>>) = One(part)
      BY <3>2, Concats
    <3> QED BY <2>4, <3>2, <3>3 DEF b
  <2> DEFINE b == Begin(s, i)
  <2> HIDE DEF b
  <2>6. b \in Seq(Parts) /\ <<>> \in Seq(Parts)
    BY <2>3, NoneLeft DEF b
  <2>7. Reaches(fs, root, TRUE, at, Concat(b, Concat(One(part), <<>>)), links, end)
    BY <2>2, <2>5 DEF R, b
  <2>8. Reaches(fs, root, TRUE, at, Concat(b, <<>>), links, end)
    BY <2>6, <2>7, DropFiller
  <2>9. Concat(b, <<>>) = b
    BY <2>6, Concats
  <2> QED BY <2>8, <2>9 DEF R, b, i
<1> HIDE DEF T
<1>4. n - k \in T
  BY <1>1, <1>2, <1>3, Induction
<1>6. R(Begin(s, n - (n - k)))
  BY <1>1, <1>4 DEF T
<1>7. R(Begin(s, k))
  BY <1>1, <1>6
<1> QED BY <1>7 DEF R

\* A path leads somewhere in the jail when it is given to the kernel of the host.
GivenReaches(fs, cwd, jail, path, end) ==
    path \in Pathnames
    /\ Reaches(fs, jail, TRUE, IF IsAbsolute(path) THEN <<>> ELSE cwd, path, 0, end)

LEMMA LeadReaches ==
    ASSUME NEW fs, IsTree(fs), NEW jail \in Seq(FileNames), NEW cwd, NEW end, NEW path,
           GivenReaches(fs, cwd, jail, path, end)
    PROVE  GivenReaches(fs, cwd, jail, StripLead(path), end)
<1>1. path \in Pathnames /\ path \in Seq(Parts) /\ Len(path) \in Nat \ {0}
  BY AbsoluteIs DEF GivenReaches
<1>2. CASE IsAbsolute(path)
  BY <1>1, <1>2, LeadKept
<1>3. CASE ~IsAbsolute(path)
  <2> DEFINE s == StripLead(path)
  <2>1. PICK n \in 1..Len(path) : /\ s = SubSeq(path, n, Len(path))
                                  /\ \A m \in 1..(n - 1) : path[m] = Dot
                                  /\ n = 1 \/ path[n] # ""
    BY <1>1, LeadCut
  <2> HIDE DEF s
  <2>2. s \in Pathnames
    BY <1>1, StripLeadIs DEF s
  <2>3. n - 1 \in 0..Len(path) /\ (n - 1) + 1 = n /\ n - 1 # Len(path)
    BY <1>1
  <2>4. s = Rest(path, n - 1)
    BY <2>1, <2>3 DEF Rest
  <2>5. Reaches(fs, jail, TRUE, cwd, path, 0, end)
    BY <1>3 DEF GivenReaches
  <2> DEFINE k == n - 1
  <2>6. k \in 0..Len(path) /\ (\A m \in 1..k : path[m] = Dot) /\ s = Rest(path, k)
    BY <2>1, <2>3, <2>4
  <2> HIDE DEF k
  <2>7. Reaches(fs, jail, TRUE, cwd, Rest(path, k), 0, end)
    BY <1>1, <2>5, <2>6, DropLeading
  <2>8. s[1] = path[n]
    <3>1. \A i \in 1..(Len(path) - k) : Rest(path, k)[i] = path[k + i]
      BY <1>1, <2>6, CutIs
    <3>2. 1 \in 1..(Len(path) - k) /\ k + 1 = n
      BY <1>1, <2>3, Cuts DEF k
    <3> QED BY <2>6, <3>1, <3>2
  <2>9. path[1] # ""
    BY <1>1, <1>3, AbsoluteIs
  <2>10. ~IsAbsolute(s)
    BY <2>1, <2>8, <2>9 DEF IsAbsolute
  <2> QED BY <2>2, <2>6, <2>7, <2>10 DEF GivenReaches, s
<1> QED BY <1>2, <1>3

LEMMA TrailReaches ==
    ASSUME NEW fs, IsTree(fs), NEW jail \in Seq(FileNames), NEW cwd, NEW end, NEW path,
           GivenReaches(fs, cwd, jail, path, end), NEW part \in {"", Dot}
    PROVE  GivenReaches(fs, cwd, jail, StripTrail(path, part), end)
<1>1. path \in Pathnames /\ path \in Seq(Parts) /\ Len(path) \in Nat \ {0}
  BY AbsoluteIs DEF GivenReaches
<1> DEFINE s == StripTrail(path, part)
           at == IF IsAbsolute(path) THEN <<>> ELSE cwd
<1>2. PICK n \in 1..Len(path) : /\ s = SubSeq(path, 1, n)
                                /\ \A m \in (n + 1)..Len(path) : path[m] = part
                                /\ n = 1 => ~IsAbsolute(path)
  BY <1>1, TrailIs
<1>3. s \in Pathnames
  BY <1>1, StripTrailIs
<1> HIDE DEF s
<1>0. n \in 0..Len(path) /\ 1 \in 1..n /\ (n = 1 \/ n > 1) /\ (n > 1 => Len(path) > 1)
  BY <1>1, Cuts
<1>4. n \in 0..Len(path) /\ s = Begin(path, n)
  BY <1>0, <1>2 DEF Begin
<1>5. Reaches(fs, jail, TRUE, at, path, 0, end)
  BY DEF GivenReaches
<1> HIDE DEF at
<1>6. Reaches(fs, jail, TRUE, at, Begin(path, n), 0, end)
  BY <1>1, <1>2, <1>4, <1>5, DropTrailing
<1>7. IsAbsolute(s) <=> IsAbsolute(path)
  <2>1. Len(s) = n /\ s[1] = path[1]
    <3>1. Len(Begin(path, n)) = n /\ \A i \in 1..n : Begin(path, n)[i] = path[i]
      BY <1>1, <1>4, CutIs
    <3> QED BY <1>0, <1>4, <3>1
  <2> QED BY <1>0, <1>2, <2>1 DEF IsAbsolute
<1> QED BY <1>3, <1>4, <1>6, <1>7 DEF GivenReaches, at, s

LEMMA SanitizeReaches ==
    ASSUME NEW fs, IsTree(fs), NEW jail \in Seq(FileNames), NEW cwd, NEW end, NEW path,
           GivenReaches(fs, cwd, jail, path, end)
    PROVE  GivenReaches(fs, cwd, jail, __path_sanitize(path), end)
<1>1. GivenReaches(fs, cwd, jail, StripLead(path), end)
  BY LeadReaches
<1>2. \A p, part : GivenReaches(fs, cwd, jail, p, end) /\ part \in {"", Dot}
                      => GivenReaches(fs, cwd, jail, StripTrail(p, part), end)
  BY TrailReaches
<1> QED BY <1>1, <1>2 DEF __path_sanitize

(***************************************************************************)
(* The path before any link is followed leads the kernel of the host where *)
(* the path of the program leads the one of the jail.                      *)
(***************************************************************************)
LEMMA LeadingSlash ==
    ASSUME NEW s \in Seq(Parts), s # <<>>
    PROVE  IsAbsolute(Concat(One(""), s)) /\ Concat(One(""), s) \in Pathnames
<1> DEFINE e == Empty
           p == e \o s
<1>1. e \in Seq(Parts) /\ Len(e) = 1 /\ e # <<>> /\ e[1] = ""
  BY EmptyIs, SlashParts
<1> HIDE DEF e
<1>2. p \in Pathnames
  BY <1>1, LongerIs
<1>3. /\ Len(p) = Len(e) + Len(s)
      /\ \A i \in 1..(Len(e) + Len(s)) : p[i] = IF i <= Len(e) THEN e[i] ELSE s[i - Len(e)]
  BY <1>1, ConcatProperties
<1> HIDE DEF p
<1>5. Len(s) \in Nat \ {0}
  BY EmptySeq
<1>6. \A n \in Nat \ {0} : 1 \in 1..(1 + n) /\ 1 + n > 1 /\ 1 <= 1
  OBVIOUS
<1>4. Len(p) = 1 + Len(s) /\ Len(p) > 1 /\ 1 \in 1..(Len(e) + Len(s)) /\ 1 <= Len(e)
  BY <1>1, <1>3, <1>5, <1>6
<1>8. p[1] = IF 1 <= Len(e) THEN e[1] ELSE s[1 - Len(e)]
  BY <1>3, <1>4
<1>7. IsAbsolute(p)
  BY <1>1, <1>4, <1>8 DEF IsAbsolute
<1> QED BY <1>2, <1>7 DEF p, e, Concat, One, Empty

\* From the root, a slash more leads nowhere else.
LEMMA SlashBefore ==
    ASSUME NEW fs, IsTree(fs), NEW jail \in Seq(FileNames), IsDir(fs, <<>>), NEW end,
           NEW s \in Seq(Parts), s # <<>>, Reaches(fs, jail, TRUE, <<>>, s, 0, end)
    PROVE  /\ IsAbsolute(Concat(One(""), s)) /\ Concat(One(""), s) \in Pathnames
           /\ Reaches(fs, jail, TRUE, <<>>, Concat(One(""), s), 0, end)
<1> DEFINE full == Concat(One(""), s)
<1>1. full \in Seq(Parts) /\ full # <<>> /\ Head(full) = "" /\ Tail(full) = s
  BY PartsAre, OneBefore
<1>2. IsAbsolute(full) /\ full \in Pathnames
  BY LeadingSlash
<1> HIDE DEF full
<1>3. <<>> \in Seq(FileNames) /\ 0 \in 0..SYMLOOP_MAX
  BY NoneLeft, KernelAssumption
<1>4. Rule(fs, jail, TRUE, <<>>, full, 0, end)
  BY <1>1, <1>3, ReachesIs
<1>5. Reaches(fs, jail, TRUE, <<>>, full, 0, end)
  BY <1>1, <1>3, <1>4 DEF Rule
<1> QED BY <1>2, <1>5 DEF full

LEMMA UnderDirectory ==
    ASSUME NEW fs, IsTree(fs), NEW jail \in Seq(FileNames), NEW cwd, NEW end,
           NEW loc \in DOMAIN fs, IsDir(fs, loc), NEW path \in Pathnames,
           Reaches(fs, jail, TRUE, loc, path, 0, end)
    PROVE  GivenReaches(fs, cwd, jail, Concat(One(""), Concat(loc, path)), end)
<1> DEFINE below == Concat(loc, path)
           full == Concat(One(""), below)
<1>1. /\ loc \in Seq(FileNames) /\ loc \in Seq(Parts) /\ path \in Seq(Parts) /\ path # <<>>
      /\ <<>> \in Seq(FileNames) /\ IsDir(fs, <<>>) /\ 0 \in 0..SYMLOOP_MAX /\ Len(loc) \in Nat
  <2>1. loc \in Seq(FileNames)
    BY DEF IsTree
  <2> QED BY <2>1, NamesAreParts, PathnamesAre, NoneLeft, RootIsDir, KernelAssumption
<1>2. below \in Seq(Parts) /\ below # <<>>
  BY <1>1, Concats
<1> HIDE DEF below
<1>3. full \in Seq(Parts) /\ full # <<>> /\ Head(full) = "" /\ Tail(full) = below
  BY <1>2, PartsAre, OneBefore
<1>4. IsAbsolute(full) /\ full \in Pathnames
  BY <1>2, LeadingSlash
<1> HIDE DEF full
<1>5. Reaches(fs, jail, TRUE, <<>>, below, 0, end)
  <2>1. 0 \in 0..Len(loc)
    BY <1>1, ZeroIn
  <2>2. Reaches(fs, jail, TRUE, loc, path, 0, end)
           <=> Reaches(fs, jail, TRUE, Begin(loc, 0), Concat(Rest(loc, 0), path), 0, end)
    BY <1>1, <2>1, WalkDown
  <2>3. Begin(loc, 0) = <<>> /\ Rest(loc, 0) = loc
    BY <1>1, CutEnds
  <2> QED BY <2>2, <2>3 DEF below
<1>6. Rule(fs, jail, TRUE, <<>>, full, 0, end)
  BY <1>1, <1>3, ReachesIs
<1>7. Reaches(fs, jail, TRUE, <<>>, full, 0, end)
  BY <1>1, <1>3, <1>5, <1>6 DEF Rule
<1> QED BY <1>4, <1>7 DEF GivenReaches, full, below

\* A directory of the host, by the path /proc/self/fd has for it, or none.
DirPaths(fs) == {NoDir} \cup {HostPath(loc) : loc \in {loc \in DOMAIN fs : IsDir(fs, loc)}}
Base(cwd, dir) == IF dir = NoDir THEN cwd ELSE Location(dir)

LEMMA BaseIs ==
    ASSUME NEW fs, IsTree(fs), NEW cwd \in DOMAIN fs, IsDir(fs, cwd), NEW dir \in DirPaths(fs)
    PROVE  /\ Base(cwd, dir) \in DOMAIN fs /\ Base(cwd, dir) \in Seq(FileNames)
           /\ IsDir(fs, Base(cwd, dir))
           /\ dir # NoDir => dir = HostPath(Base(cwd, dir))
           /\ dir \in Roots
<1>1. CASE dir = NoDir
  BY <1>1 DEF Base, NoDir, Roots, IsTree
<1>2. CASE dir # NoDir
  <2>1. PICK loc \in DOMAIN fs : IsDir(fs, loc) /\ dir = HostPath(loc)
    BY <1>2 DEF DirPaths
  <2>2. loc \in Seq(FileNames)
    BY DEF IsTree
  <2>3. HostPath(loc) \in Pathnames /\ Location(HostPath(loc)) = loc
    BY <2>2, HostPathIs
  <2>4. Base(cwd, dir) = loc
    BY <1>2, <2>1, <2>3 DEF Base
  <2> QED BY <2>1, <2>2, <2>3, <2>4 DEF Roots
<1> QED BY <1>1, <1>2

LEMMA JoinReaches ==
    ASSUME NEW fs, IsTree(fs), NEW cwd \in DOMAIN fs, IsDir(fs, cwd),
           NEW jail \in DOMAIN fs, IsDir(fs, jail), NEW dir \in DirPaths(fs), NEW end,
           NEW path \in Pathnames,
           Reaches(fs, jail, TRUE, IF IsAbsolute(path) THEN jail ELSE Base(cwd, dir), path, 0, end),
           IsAbsolute(path) /\ InJail(HostPath(jail)) => ~__strleq(path, HostPath(jail))
    PROVE  GivenReaches(fs, cwd, jail,
               JoinPath(IF InJail(HostPath(jail)) THEN HostPath(jail) ELSE Empty, dir, path), end)
<1> DEFINE rootdir == HostPath(jail)
           root == IF InJail(rootdir) THEN rootdir ELSE Empty
           joined == JoinPath(root, dir, path)
<1>1. /\ jail \in Seq(FileNames) /\ cwd \in Seq(FileNames) /\ path \in Seq(Parts) /\ path # <<>>
      /\ (InJail(rootdir) <=> jail # <<>>)
  <2>1. jail \in Seq(FileNames) /\ cwd \in Seq(FileNames)
    BY DEF IsTree
  <2> QED BY <2>1, HostPathParts, PathnamesAre DEF InJail
<1>2. CASE IsAbsolute(path) /\ jail # <<>>
  <2>1. root = rootdir /\ ~__strleq(path, rootdir)
    BY <1>1, <1>2
  <2>2. joined = Prepend(rootdir, path)
    BY <1>2, <2>1 DEF JoinPath
  <2>3. Concat(path, <<>>) = path
    BY <1>1, Concats
  <2>4. Reaches(fs, jail, TRUE, jail, Concat(path, <<>>), 0, end)
    BY <1>2, <2>3
  <2>5. <<>> \in Seq(Parts)
    BY NoneLeft
  <2>6. /\ Prepend(HostPath(jail), path) \in Pathnames
        /\ IsAbsolute(Prepend(HostPath(jail), path))
        /\ Reaches(fs, jail, TRUE, <<>>, Concat(Prepend(HostPath(jail), path), <<>>), 0, end)
    BY <1>2, <2>4, <2>5, UnderRoot
  <2>7. joined \in Seq(Parts) /\ Concat(joined, <<>>) = joined
    <3>1. joined \in Seq(Parts)
      BY <2>2, <2>6, PathnamesAre
    <3> HIDE DEF joined
    <3> QED BY <3>1, Concats
  <2> QED BY <2>2, <2>6, <2>7 DEF GivenReaches
<1>3. CASE IsAbsolute(path) /\ jail = <<>>
  <2>1. root = Empty
    BY <1>1, <1>3
  <2>2. joined = path
    BY <1>3, <2>1 DEF JoinPath, Prepend
  <2>3. Reaches(fs, jail, TRUE, <<>>, path, 0, end)
    BY <1>3
  <2> QED BY <1>3, <2>2, <2>3 DEF GivenReaches
<1>4. CASE ~IsAbsolute(path) /\ dir = NoDir
  <2>1. joined = path
    BY <1>4 DEF JoinPath
  <2>2. Reaches(fs, jail, TRUE, cwd, path, 0, end)
    BY <1>4 DEF Base
  <2> QED BY <1>4, <2>1, <2>2 DEF GivenReaches
<1>5. CASE ~IsAbsolute(path) /\ dir # NoDir
  <2> DEFINE loc == Base(cwd, dir)
  <2>1. loc \in DOMAIN fs /\ IsDir(fs, loc) /\ loc \in Seq(FileNames) /\ dir = HostPath(loc)
    BY <1>5, BaseIs
  <2>2. Reaches(fs, jail, TRUE, loc, path, 0, end)
    BY <1>5
  <2> HIDE DEF loc
  <2>3. GivenReaches(fs, cwd, jail, Concat(One(""), Concat(loc, path)), end)
    BY <1>1, <2>1, <2>2, UnderDirectory
  <2>4. joined = dir \o path
    BY <1>5 DEF JoinPath
  <2> HIDE DEF joined
  <2>5. One("") \in Seq(Parts) /\ loc \in Seq(Parts)
    BY <2>1, OneIs, PartsAre, NamesAreParts
  <2>6. CASE loc # <<>>
    <3>1. dir = Concat(One(""), loc)
      BY <2>1, <2>6 DEF HostPath, Concat, One
    <3>2. joined = Concat(Concat(One(""), loc), path)
      BY <2>4, <3>1 DEF Concat
    <3>3. joined = Concat(One(""), Concat(loc, path))
      BY <1>1, <2>5, <3>2, ConcatParts
    <3> QED BY <2>3, <3>3 DEF joined
  <2>7. CASE loc = <<>>
    <3> DEFINE s == Concat(One(""), path)
    <3>1. Concat(<<>>, path) = path
      BY <1>1, Concats
    <3>2. GivenReaches(fs, cwd, jail, s, end) /\ IsAbsolute(s)
      BY <1>1, <2>3, <2>7, <3>1, LeadingSlash
    <3>3. s \in Seq(Parts) /\ s # <<>> /\ Reaches(fs, jail, TRUE, <<>>, s, 0, end)
      BY <3>2, PathnamesAre DEF GivenReaches
    <3>4. joined = Concat(One(""), s)
      <4>1. dir = One("") \o One("")
        BY <2>1, <2>7, TwiceEmpty DEF HostPath, One, Empty
      <4>2. joined = Concat(Concat(One(""), One("")), path)
        BY <2>4, <4>1 DEF Concat
      <4> QED BY <1>1, <2>5, <4>2, ConcatParts
    <3> HIDE DEF s
    <3>5. GivenReaches(fs, cwd, jail, Concat(One(""), s), end)
      BY <1>1, <2>1, <2>7, <3>3, SlashBefore DEF GivenReaches
    <3> QED BY <3>4, <3>5 DEF joined
  <2> QED BY <2>6, <2>7
<1> QED BY <1>2, <1>3, <1>4, <1>5

(***************************************************************************)
(* Only what is below the root is left to the host once it is resolved: a  *)
(* name that begins as the one of the root does, "/r2" and "/r", leaves    *)
(* letters and no slash, and what the regex matches begins with a slash.   *)
(***************************************************************************)
LEMMA BeforeLast == \A i \in Nat : i > 1 => 1 \in 1..(i - 1)
  OBVIOUS

LEMMA NotIgnored ==
    ASSUME NEW path, path[1] # ""
    PROVE  ~ignore(path)
<1> SUFFICES ASSUME NEW prefix \in Ignored, __strleq(path, prefix) PROVE FALSE
  BY DEF ignore
<1>1. IsAbsolute(prefix) /\ prefix \in Seq(Parts)
  BY PathsAssumption, PathnamesAre
<1> DEFINE n == Len(prefix)
<1>2. n > 1 /\ prefix[1] = "" /\ \A i \in 1..(n - 1) : path[i] = prefix[i]
  BY <1>1 DEF IsAbsolute, __strleq
<1>3. n \in Nat
  BY <1>1, Lengths
<1> HIDE DEF n
<1>5. 1 \in 1..(n - 1)
  BY <1>2, <1>3, BeforeLast
<1> QED BY <1>2, <1>5

LEMMA AfterFirst ==
    ASSUME NEW x, NEW s, s \in Seq(Parts), x \in Parts
    PROVE  (<<x>> \o s)[1] = x
<1> DEFINE o == One(x)
<1>1. o \in Seq(Parts) /\ Head(o) = x /\ o # <<>>
  BY OneIs
<1> HIDE DEF o
<1>2. Head(o \o s) = Head(o) /\ o \o s \in Seq(Parts) /\ o \o s # <<>>
  BY <1>1, HeadOfConcat, ConcatProperties, ConcatEqualIffEmpty
<1>3. (o \o s)[1] = Head(o \o s)
  BY <1>2, FirstIs
<1> QED BY <1>1, <1>2, <1>3 DEF o, One

LEMMA Places ==
    \A k \in Nat \ {0}, m \in Nat :
       /\ k + 1 - 1 = k /\ k \in 1..k /\ (k + 1 <= 2 => k = 1) /\ (k + 1 <= m + 1 => k <= m)
       /\ (k + 1 <= m => (k + 1) + 1 \in 1..(m + 1)) /\ m \in 0..m
       /\ \A i \in 1..k : (i = k \/ i + 1 \in 1..k) /\ (k <= m => i \in 1..m)
  OBVIOUS

LEMMA OutsideIs ==
    ASSUME NEW loc \in Seq(FileNames), NEW dir \in Seq(FileNames), dir # <<>>,
           ~Below(loc, dir), __strleq(HostPath(loc), HostPath(dir))
    PROVE  After(HostPath(loc), HostPath(dir))[1] # ""
<1> DEFINE s == HostPath(loc)
           t == HostPath(dir)
           k == Len(dir)
           m == Len(loc)
<1>1. k \in Nat \ {0} /\ m \in Nat
  BY EmptySeq
<1>2. Len(t) = k + 1 /\ (\A i \in 1..k : t[i + 1] = dir[i]) /\ \A i \in 1..k : dir[i] \in FileNames
  BY HostPathNames
<1>3. s \in Seq(Parts) /\ Len(s) \in Nat
  <2>1. s \in Pathnames
    BY HostPathParts
  <2> HIDE DEF s
  <2> QED BY <2>1, PathnamesAre, Lengths
<1>4. /\ Len(t) <= Len(s)
      /\ \A i \in 1..(Len(t) - 1) : s[i] = t[i]
      /\ t[Len(t)] = "" \/ t[Len(t)] = s[Len(t)] \/ <<t[Len(t)], s[Len(t)]>> \in NamePrefixes
  <2> HIDE DEF s, t
  <2> QED BY DEF __strleq, s, t
<1>5. loc = <<>> => Len(s) = 2 /\ s[2] = ""
  <2> SUFFICES ASSUME loc = <<>> PROVE Len(s) = 2 /\ s[2] = ""
    OBVIOUS
  <2>1. s = <<"", "">>
    BY DEF HostPath, Slash
  <2>2. \A x : Len(<<x, x>>) = 2 /\ <<x, x>>[2] = x
    OBVIOUS
  <2> HIDE DEF s
  <2> QED BY <2>1, <2>2
<1>6. loc # <<>> => Len(s) = m + 1 /\ \A i \in 1..m : s[i + 1] = loc[i]
  BY HostPathNames
<1>7. NamePrefixes \subseteq FileNames \X FileNames
  BY PathsAssumption
<1> HIDE DEF s, t, k, m
<1>8. k + 1 - 1 = k /\ k \in 1..k
  BY <1>1, Places
<1>9. t[k + 1] = dir[k] /\ dir[k] # "" /\ dir[k] \in FileNames
  BY <1>2, <1>8, PartsAre
<1>10. dir[k] = s[k + 1] \/ <<dir[k], s[k + 1]>> \in NamePrefixes
  BY <1>2, <1>4, <1>9
<1>11. s[k + 1] \in FileNames /\ s[k + 1] # ""
  BY <1>7, <1>9, <1>10, PartsAre
<1>12. loc # <<>> /\ k <= m
  <2>1. loc = <<>> => k = 1
    <3>1. loc = <<>> => k + 1 <= 2
      BY <1>2, <1>4, <1>5
    <3> QED BY <1>1, <3>1, Places
  <2>2. loc # <<>>
    <3> SUFFICES ASSUME loc = <<>> PROVE FALSE
      OBVIOUS
    <3>1. k + 1 = 2
      BY <2>1
    <3>2. s[k + 1] = ""
      BY <1>5, <3>1
    <3> QED BY <1>11, <3>2
  <2>3. k + 1 <= m + 1
    BY <1>2, <1>4, <1>6, <2>2
  <2> QED BY <1>1, <2>2, <2>3, Places
<1>13. dir[k] # s[k + 1]
  <2> SUFFICES ASSUME dir[k] = s[k + 1] PROVE FALSE
    OBVIOUS
  <2>1. ASSUME NEW i \in 1..k PROVE loc[i] = dir[i]
    <3>1. i \in 1..m
      BY <1>1, <1>12, Places
    <3>2. s[i + 1] = loc[i] /\ t[i + 1] = dir[i]
      BY <1>2, <1>6, <1>12, <3>1
    <3>3. i = k \/ i + 1 \in 1..k
      BY <1>1, Places
    <3>4. \A j \in 1..k : s[j] = t[j]
      <4>1. Len(t) - 1 = k
        BY <1>2, <1>8
      <4> QED BY <1>4, <4>1
    <3> QED BY <3>2, <3>3, <3>4
  <2> DEFINE b == Begin(loc, k)
  <2>2. b \in Seq(FileNames) /\ Len(b) = k /\ \A i \in 1..k : b[i] = loc[i]
    <3>1. k \in 0..Len(loc)
      BY <1>1, <1>12 DEF m
    <3> QED BY <3>1, CutIs
  <2> HIDE DEF b
  <2>3. Len(b) = Len(dir) /\ \A i \in 1..Len(b) : b[i] = dir[i]
    BY <2>1, <2>2 DEF k
  <2>4. b = dir
    BY <2>2, <2>3, SeqEqual
  <2> QED BY <1>12, <2>4 DEF b, Begin, Below, k, m
<1>14. <<dir[k], s[k + 1]>> \in NamePrefixes
  BY <1>10, <1>13
<1> DEFINE x == NameRest[<<dir[k], s[k + 1]>>]
           q == SubSeq(s, (k + 1) + 1, Len(s))
<1>15. x \in Parts /\ x # ""
  BY <1>14, PathsAssumption
<1>16. q \in Seq(Parts)
  <2>1. (k + 1) + 1 \in 1..(Len(s) + 1) /\ Len(s) \in 0..Len(s)
    <3>1. k + 1 <= Len(s)
      BY <1>2, <1>4
    <3> QED BY <1>1, <1>3, <3>1, Places
  <2> QED BY <1>3, <2>1, SubSeqIs
<1>17. After(s, t) = <<x>> \o q
  BY <1>2, <1>9, <1>13 DEF After
<1> HIDE DEF x, q
<1>18. (<<x>> \o q)[1] = x
  BY <1>15, <1>16, AfterFirst
<1> QED BY <1>15, <1>17, <1>18 DEF s, t

\* The paths that lead to a location: they begin with one slash or with two.
PathsTo(loc) == {HostPath(loc), Concat(One(""), HostPath(loc))}

LEMMA TwoSlashes ==
    ASSUME NEW loc \in Seq(FileNames), NEW jail \in Seq(FileNames), jail # <<>>
    PROVE  ~__strleq(Concat(One(""), HostPath(loc)), HostPath(jail))
<1> DEFINE t == HostPath(jail)
           s == HostPath(loc)
           p == Concat(One(""), s)
           k == Len(jail)
<1>1. k \in Nat \ {0}
  BY EmptySeq
<1>2. Len(t) = k + 1 /\ (\A i \in 1..k : t[i + 1] = jail[i]) /\ \A i \in 1..k : jail[i] \in FileNames
  BY HostPathNames
<1>3. p \in Seq(Parts) /\ Len(p) \in Nat /\ p[2] = ""
  <2>1. s \in Seq(Parts) /\ s # <<>> /\ Head(s) = ""
    BY HostPathParts, PathnamesAre
  <2> HIDE DEF s
  <2>2. p \in Seq(Parts) /\ p # <<>> /\ Tail(p) = s
    BY <2>1, PartsAre, OneBefore
  <2> HIDE DEF p
  <2>3. s[1] = "" /\ Len(s) \in Nat \ {0}
    BY <2>1, FirstIs, EmptySeq
  <2>4. Len(s) = Len(p) - 1 /\ \A i \in 1..Len(s) : s[i] = p[i + 1]
    BY <2>2, HeadTailProperties
  <2>5. 1 \in 1..Len(s) /\ 1 + 1 = 2 /\ Len(p) \in Nat
    <3>1. \A n \in Nat \ {0} : 1 \in 1..n /\ 1 + 1 = 2
      OBVIOUS
    <3> QED BY <2>2, <2>3, <3>1, Lengths
  <2> QED BY <2>2, <2>3, <2>4, <2>5
<1> HIDE DEF t, p, k
<1>4. 1 \in 1..k /\ 1 + 1 = 2 /\ (k = 1 => k + 1 = 2) /\ (k # 1 => 2 \in 1..((k + 1) - 1))
  BY <1>1
<1>5. t[2] \in FileNames /\ t[2] # ""
  BY <1>2, <1>4, PartsAre
<1>6. ~(t[2] = p[2]) /\ ~(<<t[2], p[2]>> \in NamePrefixes)
  BY <1>3, <1>5, PathsAssumption, PartsAre
<1> QED BY <1>2, <1>4, <1>5, <1>6 DEF __strleq, t, p

Kept(loc, jail, dir, path, s, root) ==
    /\ loc \in Seq(FileNames) /\ jail \in Seq(FileNames) /\ s \in PathsTo(loc)
    /\ root = IF InJail(HostPath(jail)) THEN HostPath(jail) ELSE Empty
    /\ dir = HostPath(jail) /\ jail # <<>> /\ ~IsAbsolute(path)
          => Below(loc, jail) /\ s = HostPath(loc)
    /\ Below(loc, jail) => ~ignore(Concat(One(""), Rest(loc, Len(jail))))

LEMMA KeptIs ==
    ASSUME NEW loc, NEW jail, NEW dir, NEW path, NEW s, NEW root, NEW prflags,
           Kept(loc, jail, dir, path, s, root)
    PROVE  StripIgnored(HostPath(jail), root, KeepInRoot(root, dir, path, s), prflags) = s
<1>0. /\ loc \in Seq(FileNames) /\ jail \in Seq(FileNames) /\ s \in PathsTo(loc)
      /\ root = IF InJail(HostPath(jail)) THEN HostPath(jail) ELSE Empty
      /\ dir = HostPath(jail) /\ jail # <<>> /\ ~IsAbsolute(path)
            => Below(loc, jail) /\ s = HostPath(loc)
      /\ Below(loc, jail) => ~ignore(Concat(One(""), Rest(loc, Len(jail))))
  BY Zenon DEF Kept
<1> DEFINE rootdir == HostPath(jail)
           one == HostPath(loc)
<1>1. InJail(rootdir) <=> jail # <<>>
  BY <1>0, HostPathParts DEF InJail
<1>2. KeepInRoot(root, dir, path, s) = s
  <2>1. root # Empty /\ dir = root /\ ~IsAbsolute(path) => __strleq(s, root)
    <3> SUFFICES ASSUME root # Empty, dir = root, ~IsAbsolute(path) PROVE __strleq(s, root)
      OBVIOUS
    <3>1. jail # <<>> /\ root = rootdir
      BY <1>0, <1>1
    <3>2. Below(loc, jail) /\ s = one
      BY <1>0, <3>1
    <3> QED BY <1>0, <3>1, <3>2, BelowBegins
  <2> QED BY <2>1 DEF KeepInRoot
<1>3. StripIgnored(rootdir, root, s, prflags) = s
  <2>1. CASE jail = <<>>
    <3>1. rootdir = Slash
      BY <2>1 DEF HostPath
    <3>2. __striprootdir(rootdir, s) = s
      <4> HIDE DEF rootdir
      <4> QED BY <3>1 DEF __striprootdir
    <3> HIDE DEF rootdir
    <3> QED BY <3>2 DEF StripIgnored
  <2>2. CASE jail # <<>>
    <3>1. root = rootdir
      BY <1>0, <1>1, <2>2
    <3>2. __strleq(s, rootdir) => ~ignore(After(s, rootdir))
      <4>1. CASE s = one /\ Below(loc, jail)
        <5>1. After(one, rootdir) = Empty \o Rest(loc, Len(jail))
          BY <1>0, <2>2, <4>1, AfterBegins
        <5> QED BY <1>0, <4>1, <5>1 DEF Empty, Concat, One
      <4>2. CASE s = one /\ ~Below(loc, jail)
        <5>1. __strleq(one, rootdir) => ~ignore(After(one, rootdir))
          BY <1>0, <2>2, <4>2, OutsideIs, NotIgnored
        <5> QED BY <4>2, <5>1
      <4>3. CASE s # one
        <5>1. s = Concat(One(""), one)
          BY <1>0, <4>3 DEF PathsTo
        <5> QED BY <1>0, <2>2, <5>1, TwoSlashes
      <4> QED BY <4>1, <4>2, <4>3
    <3> HIDE DEF rootdir
    <3> QED BY <3>1, <3>2 DEF StripIgnored
  <2> QED BY <2>1, <2>2
<1> QED BY <1>2, <1>3

(***************************************************************************)
(* Below a root the output has one slash: the root is put before the links *)
(* that are absolute.                                                      *)
(***************************************************************************)
Single(s) == IsAbsolute(s) => s[2] # ""

LEMMA SingleIs == \A s \in Seq(Parts) : Single(s) => Doubled(s) = FALSE
<1> SUFFICES ASSUME NEW s \in Seq(Parts), Single(s), Doubled(s) PROVE FALSE
  BY DEF Doubled
<1>1. Len(s) > 1 /\ s[1] = "" /\ s[2] = ""
  BY DoubledIs
<1> QED BY <1>1 DEF Single, IsAbsolute

LEMMA Two ==
    /\ \A n \in Nat : n >= 2 => n # 0 /\ n \in Nat \ {0} /\ n > 1 /\ 2 \in 1..n /\ 2 <= n /\ 1 \in 1..n
    /\ \A n \in Nat : \A m \in Nat : n >= 2 => n + m >= 2 /\ 2 \in 1..(n + m) /\ n + m \in Nat
    /\ \A n \in Nat : n >= 2 /\ n # 2 =>
          n - 1 \in 0..n /\ n - 1 \in Nat /\ n - 1 >= 2 /\ 2 \in 1..(n - 1)
    /\ \A n \in Nat \ {0} : 1 \in 1..n /\ 1 + 1 = 2 /\ n + 1 >= 2
    /\ \A m \in Nat : \A n \in 1..m : n \in Nat /\ n \in 0..m /\ (n # 1 => n >= 2)
  OBVIOUS

LEMMA SecondIs ==
    ASSUME NEW a \in Seq(Parts), NEW c \in Seq(Parts), Len(a) >= 2
    PROVE  (a \o c)[2] = a[2]
<1>1. /\ Len(a) \in Nat /\ Len(c) \in Nat
      /\ \A i \in 1..(Len(a) + Len(c)) : (a \o c)[i] = IF i <= Len(a) THEN a[i] ELSE c[i - Len(a)]
  BY ConcatProperties
<1>2. 2 \in 1..(Len(a) + Len(c)) /\ 2 <= Len(a)
  BY <1>1, Two
<1> QED BY <1>1, <1>2

\* What is below the root begins as the root does.
LEMMA RootSingle ==
    ASSUME NEW jail \in Seq(FileNames), jail # <<>>, NEW s \in Seq(Parts)
    PROVE  /\ (HostPath(jail) \o s)[2] # "" /\ HostPath(jail) \o s \in Seq(Parts)
           /\ Len(HostPath(jail) \o s) >= 2
<1> DEFINE t == HostPath(jail)
<1> DEFINE n == Len(jail)
<1>1. n \in Nat \ {0} /\ 1 \in 1..n /\ jail[1] \in FileNames
  BY EmptySeq, FirstIs
<1>2. t \in Seq(Parts) /\ Len(t) = n + 1 /\ t[1 + 1] = jail[1]
  BY <1>1, HostPathNames, HostPathParts, PathnamesAre
<1> HIDE DEF t, n
<1>3. Len(t) >= 2 /\ t[2] # "" /\ Len(t) \in Nat
  BY <1>1, <1>2, PartsAre, Two, Lengths
<1>4. Len(t \o s) = Len(t) + Len(s) /\ t \o s \in Seq(Parts) /\ Len(s) \in Nat
  BY <1>2, ConcatProperties, Lengths
<1>5. (t \o s)[2] = t[2]
  BY <1>2, <1>3, SecondIs
<1>6. Len(t) + Len(s) >= 2
  BY <1>3, <1>4, Two
<1> QED BY <1>3, <1>4, <1>5, <1>6 DEF t

LEMMA PushSingle ==
    ASSUME NEW t \in Seq(Parts), Len(t) >= 2, t[2] # "", NEW rest \in Seq(Parts)
    PROVE  Push(t, rest)[2] # ""
<1> DEFINE n == Len(t)
           b == Begin(t, n - 1)
           left == SkipSlashes(rest)
<1>1. n \in Nat /\ left \in Seq(Parts)
  BY SkippedIs, Lengths
<1>2. CASE t[n] # ""
  BY <1>2, SecondIs DEF Push
<1>3. CASE t[n] = "" /\ left = <<>>
  BY <1>3 DEF Push
<1>4. CASE t[n] = "" /\ left # <<>>
  <2>1. n # 2 /\ n - 1 \in 0..n /\ n - 1 >= 2 /\ 2 \in 1..(n - 1)
    <3>1. n # 2 /\ n >= 2
      BY <1>4
    <3> HIDE DEF n
    <3> QED BY <1>1, <3>1, Two
  <2>2. b \in Seq(Parts) /\ Len(b) = n - 1 /\ b[2] = t[2]
    <3>1. \A k \in 0..Len(t) : /\ Begin(t, k) \in Seq(Parts) /\ Len(Begin(t, k)) = k
                               /\ \A i \in 1..k : Begin(t, k)[i] = t[i]
      BY CutIs
    <3> QED BY <2>1, <3>1
  <2>3. Push(t, rest) = b \o left
    BY <1>4 DEF Push, Begin
  <2> HIDE DEF b, left, n
  <2>4. (b \o left)[2] = b[2]
    BY <1>1, <2>1, <2>2, SecondIs
  <2> QED BY <2>2, <2>3, <2>4
<1> QED BY <1>2, <1>3, <1>4

LEMMA LinkSingle ==
    ASSUME NEW jail \in Seq(FileNames), jail # <<>>, NEW r \in Resolutions,
           Single(r.stack), ~r.two, NEW target \in Pathnames, NEW rest \in Seq(Parts)
    PROVE  /\ Single(FollowLink(r, HostPath(jail), target, rest).stack)
           /\ ~FollowLink(r, HostPath(jail), target, rest).two
<1> DEFINE root == HostPath(jail)
           t == IF IsAbsolute(target) /\ root # Slash THEN Prepend(root, target) ELSE target
           stack == Push(t, rest)
<1>1. root # Slash /\ root # Empty /\ root \in Roots
  BY HostPathParts, EmptyIs, HostPathIs DEF Roots
<1>2. target \in Seq(Parts) /\ target # <<>> /\ Tail(target) \in Seq(Parts)
  <2>1. target \in Seq(Parts) /\ target # <<>>
    BY PathnamesAre
  <2> QED BY <2>1, HeadTailProperties
<1>3. Single(stack)
  <2>1. CASE IsAbsolute(target)
    <3>1. t = root \o Tail(target)
      BY <1>1, <2>1 DEF Prepend
    <3>2. t \in Seq(Parts) /\ Len(t) >= 2 /\ t[2] # ""
      BY <1>2, <3>1, RootSingle
    <3> HIDE DEF t
    <3> QED BY <3>2, PushSingle DEF Single
  <2>2. CASE ~IsAbsolute(target)
    <3>1. ~IsAbsolute(Push(target, rest))
      BY <2>2, PushAbsolute
    <3> QED BY <2>2, <3>1 DEF Single
  <2> QED BY <2>1, <2>2
<1>4. FollowLink(r, root, target, rest) =
           IF r.cnt + 1 = SYMLOOP_MAX THEN [r EXCEPT !.err = "ELOOP"]
           ELSE [r EXCEPT !.cnt = @ + 1, !.stack = stack]
  BY DEF FollowLink
<1> HIDE DEF stack
<1>5. /\ [r EXCEPT !.err = "ELOOP"].stack = r.stack
      /\ [r EXCEPT !.cnt = @ + 1, !.stack = stack].stack = stack
      /\ ~[r EXCEPT !.err = "ELOOP"].two /\ ~[r EXCEPT !.cnt = @ + 1, !.stack = stack].two
  BY DEF Resolutions
<1> QED BY <1>3, <1>4, <1>5

LEMMA PartSingle ==
    ASSUME NEW fs, IsTree(fs), NothingRedirected(fs), NEW cwd \in Seq(FileNames), NEW follow,
           NEW jail \in Seq(FileNames), jail # <<>>, NEW r \in Resolutions,
           Single(r.stack), ~r.two, NEW part \in Parts, NEW rest \in Seq(Parts),
           NEW r2, r2 = RealpathPart(fs, cwd, HostPath(jail), follow, r, part, rest)
    PROVE  Single(r2.stack) /\ ~r2.two
<1> DEFINE left == SkipSlashes(rest)
           path == Output(r, part)
           root == HostPath(jail)
           skip == SkipReadlink(r, part, rest)
<1>1. Single(left)
  BY SkippedRelative DEF Single
<1> HIDE DEF left
<1>2. Single(skip.stack) /\ ~skip.two
  <2>1. \A a, b : LET m == [r EXCEPT !.check = a, !.stack = left, !.out = b]
                  IN  m.stack = left /\ ~m.two
    BY DEF Resolutions
  <2>2. \E a, b : skip = [r EXCEPT !.check = a, !.stack = left, !.out = b]
    BY DEF SkipReadlink, left
  <2> HIDE DEF skip
  <2> QED BY <1>1, <2>1, <2>2
<1>3. [r EXCEPT !.stack = left].stack = left /\ ~[r EXCEPT !.stack = left].two
  BY DEF Resolutions
<1>4. \A a, b : LET m == [r EXCEPT !.stack = left, !.out = a, !.nup = b]
                IN  m.stack = left /\ ~m.two
  BY DEF Resolutions
<1> DEFINE m == LookAt(fs, cwd, r, root, part, rest, path)
<1>5. Single(m.stack) /\ ~m.two
  <2> DEFINE l == Lookup(fs, <<>>, cwd, path, FALSE)
             at == IF Found(fs, l) /\ IsLink(fs, l.at) THEN Lookup(fs, <<>>, cwd, path, TRUE) ELSE l
             link == LinkAt(fs, l)
  <2>1. l \in Final
    <3>1. <<>> \in Seq(FileNames)
      BY NoneLeft
    <3>2. path \in Seq(Parts)
      BY OutputIs
    <3> HIDE DEF path
    <3> QED BY <3>1, <3>2, LookupTyped
  <2>2. m = Follow(r, root, part, rest, RedirectAt(fs, at), link)
    BY DEF LookAt
  <2> HIDE DEF m, l, at
  <2>3. RedirectAt(fs, at) = NoRedirect
    BY DEF RedirectAt, Found, Exists, NothingRedirected
  <2>4. link.err = "" => link.target \in Pathnames
    BY <2>1, LinkIs
  <2> HIDE DEF link, root, skip
  <2>5. m = IF link.err = "" THEN FollowLink(r, root, link.target, rest)
            ELSE IF link.err \in {"ENOENT", "EINVAL"} THEN skip
            ELSE [r EXCEPT !.err = link.err]
    BY <2>2, <2>3 DEF Follow, skip
  <2>6. CASE link.err = ""
    <3> DEFINE target == link.target
    <3>1. target \in Pathnames /\ m = FollowLink(r, HostPath(jail), target, rest)
      BY <2>4, <2>5, <2>6 DEF root
    <3> HIDE DEF target
    <3> QED BY <3>1, LinkSingle
  <2>7. CASE link.err # "" /\ link.err \in {"ENOENT", "EINVAL"}
    BY <1>2, <2>5, <2>7
  <2>8. CASE link.err # "" /\ link.err \notin {"ENOENT", "EINVAL"}
    <3>1. \A e : [r EXCEPT !.err = e].stack = r.stack /\ ~[r EXCEPT !.err = e].two
      BY DEF Resolutions
    <3> QED BY <2>5, <2>8, <3>1
  <2> QED BY <2>6, <2>7, <2>8
<1> HIDE DEF m, skip
<1>6. \/ r2 = [r EXCEPT !.stack = left]
      \/ \E a, b : r2 = [r EXCEPT !.stack = left, !.out = a, !.nup = b]
      \/ r2 = skip
      \/ r2 = m
  BY DEF RealpathPart, left, m, skip
<1> QED BY <1>1, <1>2, <1>3, <1>4, <1>5, <1>6

LEMMA StepSingle ==
    ASSUME NEW fs, IsTree(fs), NothingRedirected(fs), NEW cwd \in Seq(FileNames), NEW follow,
           NEW jail \in Seq(FileNames), jail # <<>>, NEW r \in Resolutions,
           Single(r.stack), ~r.two,
           NEW r2, r2 = RealpathStep(fs, cwd, HostPath(jail), follow, r)
    PROVE  Single(r2.stack) /\ ~r2.two
<1> DEFINE s == r.stack
           end == s \in {<<>>, Empty}
           part == IF end THEN "" ELSE Head(s)
           rest == IF end THEN <<>> ELSE Tail(s)
           root == HostPath(jail)
<1>1. s \in Seq(Parts)
  BY DEF Resolutions
<1>2. part \in Parts /\ rest \in Seq(Parts)
  <2>1. s # <<>> => Head(s) \in Parts /\ Tail(s) \in Seq(Parts)
    BY <1>1, HeadTailProperties
  <2> QED BY <2>1, PartsAre, NoneLeft
<1> HIDE DEF part, rest, root
<1>3. CASE r.err # "" \/ r.done
  BY <1>3 DEF RealpathStep
<1>4. CASE ~(r.err # "" \/ r.done) /\ IsAbsolute(s)
  <2> DEFINE two == Doubled(s)
             left == SkipSlashes(s)
             q == [r EXCEPT !.stack = left, !.abs = TRUE, !.two = two, !.out = <<>>, !.nup = 0,
                            !.check = FALSE]
  <2>1. two = FALSE
    BY <1>1, SingleIs
  <2>2. Single(left)
    BY <1>1, SkippedRelative DEF Single
  <2>3. r2 = q
    BY <1>4 DEF RealpathStep
  <2> HIDE DEF two, left, s
  <2>4. q.stack = left /\ q.two = two
    BY DEF Resolutions
  <2> QED BY <2>1, <2>2, <2>3, <2>4
<1>5. CASE ~(r.err # "" \/ r.done) /\ ~IsAbsolute(s) /\ end /\ ~r.check
  <2>1. r2 = [r EXCEPT !.done = TRUE]
    BY <1>5 DEF RealpathStep
  <2>2. [r EXCEPT !.done = TRUE].stack = s /\ ~[r EXCEPT !.done = TRUE].two
    BY DEF Resolutions
  <2> QED BY <2>1, <2>2
<1>6. CASE ~(r.err # "" \/ r.done) /\ ~IsAbsolute(s) /\ ~(end /\ ~r.check)
  <2>1. r2 = RealpathPart(fs, cwd, root, follow, r, part, rest)
    BY <1>6 DEF RealpathStep, part, rest, root
  <2> QED BY <1>2, <2>1, PartSingle DEF root
<1> QED BY <1>3, <1>4, <1>5, <1>6

LEMMA RunSingle ==
    ASSUME NEW fs, IsTree(fs), NothingRedirected(fs), NEW cwd \in Seq(FileNames),
           NEW jail \in Seq(FileNames), jail # <<>>, NEW path \in Pathnames, Single(path)
    PROVE  ~RealpathRun(fs, cwd, HostPath(jail), path, TRUE).two
<1> DEFINE root == HostPath(jail)
           last == RealpathRun(fs, cwd, root, path, TRUE)
           I == {r \in Resolutions : Single(r.stack) /\ ~r.two}
           start == RealpathStart(path)
<1>1. root \in Pathnames /\ path \in Seq(Parts)
  BY HostPathIs, PathnamesAre
<1>2. start \in I
  <2>1. <<>> \in Seq(Parts) /\ 0 \in Nat /\ "" \in Errors
    BY NoneLeft DEF Errors
  <2>2. start \in Resolutions
    BY <1>1, <2>1 DEF RealpathStart, Resolutions
  <2>3. start.stack = path /\ ~start.two
    BY DEF RealpathStart
  <2> HIDE DEF start
  <2> QED BY <2>2, <2>3
<1>3. ASSUME NEW r \in I PROVE RealpathStep(fs, cwd, root, TRUE, r) \in I
  <2> DEFINE r2 == RealpathStep(fs, cwd, root, TRUE, r)
  <2>1. r2 \in Resolutions
    BY <1>1, RealpathStepIs
  <2>2. r \in Resolutions /\ Single(r.stack) /\ ~r.two
    OBVIOUS
  <2>3. \A m : m = RealpathStep(fs, cwd, HostPath(jail), TRUE, r) => Single(m.stack) /\ ~m.two
    BY <2>2, StepSingle
  <2>4. Single(r2.stack) /\ ~r2.two
    BY <2>3
  <2> HIDE DEF r2
  <2> QED BY <2>1, <2>4 DEF r2
<1> HIDE DEF I
<1>4. PICK run : Runs(run, fs, cwd, root, path, TRUE) /\ last = run[MaxSteps]
  <2> HIDE DEF root, last, start
  <2>1. \A b \in Pathnames : \A f :
            \E run : /\ Runs(run, fs, cwd, b, path, f)
                     /\ RealpathRun(fs, cwd, b, path, f) = run[MaxSteps]
    BY RealpathRuns
  <2>2. \E run : Runs(run, fs, cwd, root, path, TRUE)
                 /\ RealpathRun(fs, cwd, root, path, TRUE) = run[MaxSteps]
    BY <1>1, <2>1
  <2> QED BY <2>2 DEF last
<1>5. run[MaxSteps] \in I
  <2> HIDE DEF root
  <2> QED BY <1>2, <1>3, <1>4, RunKeeps
<1>6. last \in I
  <2> HIDE DEF last, root
  <2> QED BY <1>4, <1>5
<1> QED BY <1>6 DEF I

LEMMA TrailSingle ==
    ASSUME NEW p \in Pathnames, IsAbsolute(p), Single(p), NEW part
    PROVE  /\ StripTrail(p, part) \in Pathnames /\ IsAbsolute(StripTrail(p, part))
           /\ Single(StripTrail(p, part))
<1> DEFINE s == StripTrail(p, part)
           k == Len(p)
<1>1. p \in Seq(Parts) /\ k \in Nat
  BY PathnamesAre, Lengths
<1>2. PICK n \in 1..Len(p) : /\ s = SubSeq(p, 1, n)
                             /\ \A m \in (n + 1)..Len(p) : p[m] = part
                             /\ n = 1 => ~IsAbsolute(p)
  BY TrailIs
<1>3. s \in Pathnames
  BY StripTrailIs
<1>4. n # 1 /\ s = Begin(p, n)
  <2>1. n # 1
    BY <1>2
  <2>2. s = Begin(p, n)
    BY <1>2, Zenon DEF Begin
  <2> QED BY <2>1, <2>2
<1> HIDE DEF s
<1>5. n \in 0..k /\ n > 1 /\ 1 \in 1..n /\ 2 \in 1..n
  <2>0. n \in 1..k
    OBVIOUS
  <2> HIDE DEF k
  <2>1. n \in Nat /\ n \in 0..k /\ n >= 2
    BY <1>1, <1>4, <2>0, Two
  <2> QED BY <2>1, Two
<1>6. Len(s) = n /\ s[1] = p[1] /\ s[2] = p[2]
  <2>1. Len(Begin(p, n)) = n /\ \A i \in 1..n : Begin(p, n)[i] = p[i]
    BY <1>1, <1>5, CutIs
  <2> QED BY <1>4, <1>5, <2>1
<1>7. IsAbsolute(s) /\ Single(s)
  BY <1>5, <1>6 DEF IsAbsolute, Single
<1> QED BY <1>3, <1>7 DEF s

LEMMA SanitizeSingle ==
    ASSUME NEW path \in Pathnames, IsAbsolute(path), Single(path)
    PROVE  __path_sanitize(path) \in Pathnames /\ Single(__path_sanitize(path))
<1> DEFINE s == StripTrail(path, Dot)
<1>2. s \in Pathnames /\ IsAbsolute(s) /\ Single(s)
  BY TrailSingle
<1> HIDE DEF s
<1>3. StripTrail(s, "") \in Pathnames /\ Single(StripTrail(s, ""))
  BY <1>2, TrailSingle
<1>4. __path_sanitize(path) = StripTrail(s, "")
  BY LeadKept DEF __path_sanitize, s
<1> QED BY <1>3, <1>4

(***************************************************************************)
(* A path that leads somewhere in the jail is resolved to the path of the  *)
(* host that leads there.                                                  *)
(***************************************************************************)
LEMMA ResolutionUnfolds ==
    ASSUME NEW fs, NEW cwd, NEW rootdir, NEW dir, NEW path \in Pathnames, ~ignore(path)
    PROVE  LET root == IF InJail(rootdir) THEN rootdir ELSE Empty
           IN  path_resolution(fs, cwd, rootdir, dir, path, TRUE)
                  = __realpathat(fs, cwd, rootdir,
                        StripIgnored(rootdir, root,
                            KeepInRoot(root, dir, path,
                                __realpathat(fs, cwd, rootdir, Sanitized(rootdir, dir, path), TRUE)), {}),
                        TRUE)
<1>1. path # MagicRoot /\ ~__strleq(path, MagicFds) /\ ~ignore(path)
  BY PathnamesAre, EmptyIs, MagicIgnored
<1>2. NOWALKALONG \notin {} /\ NOIGNORE \notin {}
  OBVIOUS
<1> QED BY <1>1, <1>2 DEF path_resolution, path_resolution2, Sanitized

LEMMA PathsLead ==
    ASSUME NEW fs, IsTree(fs), NEW jail \in Seq(FileNames), NEW loc, Stands(fs, loc),
           NEW path \in PathsTo(loc)
    PROVE  /\ path \in Pathnames /\ IsAbsolute(path)
           /\ Reaches(fs, jail, TRUE, <<>>, path, 0, On(loc, <<>>, 0))
<1> DEFINE one == HostPath(loc)
           end == On(loc, <<>>, 0)
<1>1. loc \in Seq(FileNames) /\ IsDir(fs, Parent(loc)) /\ Parent(loc) \in DOMAIN fs
  BY DEF Stands, IsDir, Exists
<1>2. IsDir(fs, <<>>)
  BY <1>1, RootIsDir
<1>3. one \in Pathnames /\ IsAbsolute(one) /\ one \in Seq(Parts) /\ one # <<>>
  BY <1>1, HostPathParts, PathnamesAre
<1>4. Reaches(fs, jail, TRUE, <<>>, one, 0, end)
  <2>1. \A f : Reaches(fs, jail, f, <<>>, HostPath(loc), 0, On(loc, <<>>, 0))
    BY HostPathReaches
  <2> QED BY <2>1
<1> HIDE DEF one, end
<1>5. /\ IsAbsolute(Concat(One(""), one)) /\ Concat(One(""), one) \in Pathnames
      /\ Reaches(fs, jail, TRUE, <<>>, Concat(One(""), one), 0, end)
  BY <1>2, <1>3, <1>4, SlashBefore
<1>6. path = one \/ path = Concat(One(""), one)
  BY DEF PathsTo, one
<1> QED BY <1>3, <1>4, <1>5, <1>6 DEF end

LEMMA WrittenIs == \A r, loc : Written(r, loc) \in PathsTo(loc) /\ (~r.two => Written(r, loc) = HostPath(loc))
  BY DEF Written, PathsTo, Concat, One, Empty

LEMMA RealpathStands ==
    ASSUME NEW fs, IsTree(fs), NothingRedirected(fs), NEW cwd \in DOMAIN fs, IsDir(fs, cwd),
           NEW jail \in DOMAIN fs, IsDir(fs, jail), 1 < SYMLOOP_MAX, NEW loc, Stands(fs, loc),
           NEW path \in PathsTo(loc)
    PROVE  __realpathat(fs, cwd, HostPath(jail), path, TRUE) \in PathsTo(loc)
<1> DEFINE end == On(loc, <<>>, 0)
           run == RealpathRun(fs, cwd, HostPath(jail), path, TRUE)
<1>1. end.at = loc /\ end.links + 1 < SYMLOOP_MAX
  <2>1. end.at = loc /\ end.links = 0 /\ 0 + 1 = 1
    BY DEF On
  <2> QED BY <2>1
<1>2. loc \in Seq(FileNames) /\ jail \in Seq(FileNames)
  BY DEF Stands, IsTree
<1>3. path \in Pathnames /\ IsAbsolute(path) /\ Reaches(fs, jail, TRUE, <<>>, path, 0, end)
  BY <1>2, PathsLead
<1> HIDE DEF end
<1>5. Reaches(fs, jail, TRUE, IF IsAbsolute(path) THEN <<>> ELSE cwd, path, 0, end)
  BY <1>3
<1>6. __realpathat(fs, cwd, HostPath(jail), path, TRUE) = IF run.done THEN Written(run, end.at) ELSE path
  BY <1>1, <1>3, <1>5, RunImitates
<1> HIDE DEF run
<1> QED BY <1>1, <1>6, WrittenIs

LEMMA OneAllowed == \A n, max \in Nat : n + 1 < max => 1 < max
  OBVIOUS

\* A path that leads somewhere in the jail, and what run its resolution is.
Resolvable(fs, cwd, jail, dir, path, end, run) ==
    /\ IsTree(fs) /\ NothingRedirected(fs)
    /\ cwd \in DOMAIN fs /\ IsDir(fs, cwd) /\ jail \in DOMAIN fs /\ IsDir(fs, jail)
    /\ dir \in DirPaths(fs)
    /\ end.links \in Nat /\ end.links + 1 < SYMLOOP_MAX
    /\ path \in Pathnames /\ ~ignore(path)
    /\ Reaches(fs, jail, TRUE, IF IsAbsolute(path) THEN jail ELSE Base(cwd, dir), path, 0, end)
    /\ Below(end.at, jail) => ~ignore(Concat(One(""), Rest(end.at, Len(jail))))
    /\ IsAbsolute(path) /\ InJail(HostPath(jail)) => ~__strleq(path, HostPath(jail))
    /\ run = RealpathRun(fs, cwd, HostPath(jail), Sanitized(HostPath(jail), dir, path), TRUE)
    /\ run.done \/ run.err # ""

LEMMA ResolutionLeads ==
    ASSUME NEW fs, NEW cwd, NEW jail, NEW dir, NEW path, NEW end, NEW run,
           Resolvable(fs, cwd, jail, dir, path, end, run)
    PROVE  /\ path_resolution(fs, cwd, HostPath(jail), dir, path, TRUE) \in PathsTo(end.at)
           /\ Stands(fs, end.at)
<1> USE DEF Resolvable
<1> DEFINE rootdir == HostPath(jail)
           root == IF InJail(rootdir) THEN rootdir ELSE Empty
           clean == Sanitized(rootdir, dir, path)
           loc == end.at
           at == IF IsAbsolute(path) THEN jail ELSE Base(cwd, dir)
<1>1. jail \in Seq(FileNames) /\ cwd \in Seq(FileNames) /\ path \in Seq(Parts) /\ path # <<>>
  BY PathnamesAre DEF IsTree
<1>2. (Below(at, jail) => Below(loc, jail)) /\ Stands(fs, loc) /\ loc \in Seq(FileNames)
  <2>1. Reaches(fs, jail, TRUE, at, path, 0, end)
    OBVIOUS
  <2> HIDE DEF at
  <2> QED BY <1>1, <2>1, EndStands DEF NextStands, Stands
<1>3. dir = rootdir => Below(loc, jail)
  <2> SUFFICES ASSUME dir = rootdir PROVE Below(at, jail)
    BY <1>2
  <2>1. rootdir # NoDir /\ Location(rootdir) = jail
    BY <1>1, HostPathIs, EmptyIs DEF NoDir
  <2>2. at = jail
    BY <2>1 DEF Base
  <2>3. Below(jail, jail)
    BY <1>1, BelowParent
  <2> QED BY <2>2, <2>3
<1>4. GivenReaches(fs, cwd, jail, clean, end)
  <2>1. GivenReaches(fs, cwd, jail, JoinPath(root, dir, path), end)
    BY JoinReaches
  <2> HIDE DEF root, rootdir
  <2>2. GivenReaches(fs, cwd, jail, __path_sanitize(JoinPath(root, dir, path)), end)
    BY <1>1, <2>1, SanitizeReaches
  <2> QED BY <2>2 DEF Sanitized, root
<1> DEFINE first == __realpathat(fs, cwd, rootdir, clean, TRUE)
<1>5. first = Written(run, loc) /\ run = RealpathRun(fs, cwd, HostPath(jail), clean, TRUE)
  <2>2. clean \in Pathnames
        /\ Reaches(fs, jail, TRUE, IF IsAbsolute(clean) THEN <<>> ELSE cwd, clean, 0, end)
    BY <1>4 DEF GivenReaches
  <2>1. run = RealpathRun(fs, cwd, HostPath(jail), clean, TRUE) /\ (run.done \/ run.err # "")
    OBVIOUS
  <2> HIDE DEF clean
  <2> DEFINE last == RealpathRun(fs, cwd, HostPath(jail), clean, TRUE)
  <2>3. last.err = "" /\ __realpathat(fs, cwd, rootdir, clean, TRUE)
                            = IF last.done THEN Written(last, loc) ELSE clean
    BY <2>2, RunImitates
  <2>4. run = last
    BY <2>1
  <2> HIDE DEF rootdir, last
  <2> QED BY <2>1, <2>3, <2>4
<1>6. dir = rootdir /\ jail # <<>> /\ ~IsAbsolute(path) => Below(loc, jail) /\ first = HostPath(loc)
  <2> SUFFICES ASSUME dir = rootdir, jail # <<>>, ~IsAbsolute(path) PROVE ~run.two
    BY <1>3, <1>5, WrittenIs
  <2> DEFINE joined == rootdir \o path
  <2>1. rootdir # NoDir /\ rootdir # Slash /\ rootdir \in Pathnames
    BY <1>1, HostPathIs, HostPathParts, EmptyIs DEF NoDir
  <2>2. joined[2] # "" /\ joined \in Seq(Parts) /\ Len(joined) >= 2
    BY <1>1, RootSingle
  <2>3. JoinPath(root, dir, path) = joined
    BY <2>1 DEF JoinPath
  <2>4. joined \in Pathnames /\ IsAbsolute(joined)
    <3> DEFINE s == Concat(jail, path)
    <3>1. jail \in Seq(Parts)
      BY <1>1, NamesAreParts
    <3>2. s \in Seq(Parts) /\ s # <<>>
      BY <1>1, <3>1, Concats
    <3>3. joined = Concat(One(""), s)
      <4>1. rootdir = Concat(One(""), jail)
        BY DEF HostPath, Concat, One
      <4>2. joined = Concat(Concat(One(""), jail), path)
        BY <4>1 DEF Concat
      <4>3. One("") \in Seq(Parts)
        BY OneIs, PartsAre
      <4> HIDE DEF joined
      <4> QED BY <1>1, <3>1, <4>2, <4>3, ConcatParts
    <3> HIDE DEF s, joined
    <3> QED BY <3>2, <3>3, LeadingSlash
  <2> HIDE DEF joined
  <2>5. clean \in Pathnames /\ Single(clean)
    <3>1. clean = __path_sanitize(joined)
      BY <2>3 DEF Sanitized
    <3> QED BY <2>2, <2>4, <3>1, SanitizeSingle DEF Single
  <2> HIDE DEF clean, rootdir
  <2>6. ~RealpathRun(fs, cwd, HostPath(jail), clean, TRUE).two
    BY <1>1, <2>5, RunSingle
  <2> QED BY <1>5, <2>6
<1>7. StripIgnored(rootdir, root, KeepInRoot(root, dir, path, first), {}) = first
  <2> DEFINE f == first
             l == loc
             b == root
             none == {}
  <2>1. first \in PathsTo(loc)
    BY <1>5, WrittenIs
  <2>2. f \in PathsTo(l) /\ l \in Seq(FileNames) /\ jail \in Seq(FileNames)
        /\ (dir = HostPath(jail) /\ jail # <<>> /\ ~IsAbsolute(path) => Below(l, jail) /\ f = HostPath(l))
        /\ (Below(l, jail) => ~ignore(Concat(One(""), Rest(l, Len(jail)))))
    <3>1. Below(loc, jail) => ~ignore(Concat(One(""), Rest(loc, Len(jail))))
      OBVIOUS
    <3>2. dir = HostPath(jail) /\ jail # <<>> /\ ~IsAbsolute(path)
             => Below(loc, jail) /\ first = HostPath(loc)
      BY <1>6
    <3> HIDE DEF first, Resolvable
    <3> QED BY <1>1, <1>2, <2>1, <3>1, <3>2, Zenon
  <2>3. b = IF InJail(HostPath(jail)) THEN HostPath(jail) ELSE Empty
    OBVIOUS
  <2> HIDE DEF f, l, b, none, Resolvable
  <2>4. StripIgnored(HostPath(jail), b, KeepInRoot(b, dir, path, f), none) = f
    <3>1. Kept(l, jail, dir, path, f, b)
      BY <2>2, <2>3, Zenon DEF Kept
    <3> QED BY <3>1, KeptIs
  <2> QED BY <2>4 DEF f, b, none
<1>8. __realpathat(fs, cwd, rootdir, first, TRUE) \in PathsTo(loc)
  <2>1. 1 < SYMLOOP_MAX
    BY KernelAssumption, OneAllowed
  <2>2. first \in PathsTo(loc)
    BY <1>5, WrittenIs
  <2> HIDE DEF first, loc
  <2> QED BY <1>2, <2>1, <2>2, RealpathStands
<1>9. path_resolution(fs, cwd, rootdir, dir, path, TRUE)
         = __realpathat(fs, cwd, rootdir,
               StripIgnored(rootdir, root, KeepInRoot(root, dir, path, first), {}), TRUE)
  BY ResolutionUnfolds
<1> HIDE DEF rootdir, root, clean, loc, first
<1>10. path_resolution(fs, cwd, rootdir, dir, path, TRUE) \in PathsTo(loc)
  BY <1>7, <1>8, <1>9
<1> QED BY <1>2, <1>10 DEF rootdir, loc

=============================================================================
