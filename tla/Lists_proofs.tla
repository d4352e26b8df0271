----------------------------- MODULE Lists_proofs -----------------------------
(***************************************************************************)
(* Induction over the naturals, recursive functions, and what Only() of    *)
(* Lists returns.  The induction theorems of the library have an operator  *)
(* as parameter; the same facts are stated here of a set and a function,   *)
(* from the one theorem that is: a well-founded order has minima.          *)
(***************************************************************************)
EXTENDS Lists, FiniteSetsExt, WellFoundedInduction, TLAPS

(***************************************************************************)
(* Induction: a set with 0 and the successors of its elements has all the  *)
(* natural numbers.                                                        *)
(***************************************************************************)
LEMMA Induction ==
    ASSUME NEW T, 0 \in T, \A n \in Nat : n \in T => n + 1 \in T
    PROVE  Nat \subseteq T
<1> DEFINE R == OpToRel(<, Nat)
<1>1. IsWellFoundedOn(R, Nat)
  BY NatLessThanWellFounded
<1>2. \A x, y \in Nat : x < y => <<x, y>> \in R
  BY DEF OpToRel
<1> HIDE DEF R
<1> SUFFICES ASSUME Nat \ T # {} PROVE FALSE
  OBVIOUS
<1>3. PICK x \in Nat \ T : \A y \in Nat \ T : <<y, x>> \notin R
  <2>1. Nat \ T \subseteq Nat
    OBVIOUS
  <2> QED BY <1>1, <2>1, WFMin
<1>4. x # 0
  OBVIOUS
<1>5. x - 1 \in Nat /\ x - 1 < x /\ (x - 1) + 1 = x
  BY <1>4
<1>6. x - 1 \notin T
  BY <1>5
<1> QED BY <1>2, <1>3, <1>5, <1>6

(***************************************************************************)
(* A set of natural numbers that is not empty has a least one.             *)
(***************************************************************************)
LEMMA Least ==
    ASSUME NEW T \in SUBSET Nat, T # {}
    PROVE  \E i \in T : \A j \in T : i <= j
<1> DEFINE R == OpToRel(<, Nat)
<1>1. IsWellFoundedOn(R, Nat)
  BY NatLessThanWellFounded
<1>2. \A x, y \in Nat : x < y => <<x, y>> \in R
  BY DEF OpToRel
<1> HIDE DEF R
<1>3. PICK i \in T : \A j \in T : <<j, i>> \notin R
  BY <1>1, WFMin
<1>4. ASSUME NEW j \in T PROVE i <= j
  <2>1. ~(j < i)
    BY <1>2, <1>3
  <2> QED BY <2>1
<1> QED BY <1>4

(***************************************************************************)
(* There is a function with a given start and a given step.                *)
(***************************************************************************)
Steps(f, n, a, step) == f[0] = a /\ \A i \in 1..n : f[i] = step[i][f[i - 1]]

LEMMA Recursion ==
    ASSUME NEW S, NEW n \in Nat, NEW a \in S, NEW step \in [1..n -> [S -> S]]
    PROVE  \E f \in [0..n -> S] : Steps(f, n, a, step)
<1> DEFINE P(m, f) == f[0] = a /\ \A i \in 1..m : f[i] = step[i][f[i - 1]]
           T == {m \in Nat : m <= n => \E f \in [0..m -> S] : P(m, f)}
<1>1. 0 \in T
  <2> DEFINE f == [i \in 0..0 |-> a]
  <2>1. f \in [0..0 -> S] /\ P(0, f)
    OBVIOUS
  <2> QED BY <2>1
<1>2. ASSUME NEW m \in Nat, m \in T PROVE m + 1 \in T
  <2> SUFFICES ASSUME m + 1 <= n PROVE \E f \in [0..(m + 1) -> S] : P(m + 1, f)
    OBVIOUS
  <2>1. PICK f \in [0..m -> S] : P(m, f)
    BY <1>2
  <2> DEFINE next == step[m + 1][f[m]]
             g    == [i \in 0..(m + 1) |-> IF i = m + 1 THEN next ELSE f[i]]
  <2>2. next \in S
    OBVIOUS
  <2>3. g \in [0..(m + 1) -> S]
    BY <2>2
  <2>4. g[0] = a
    BY <2>1
  <2>5. g[m + 1] = next /\ \A i \in 0..m : g[i] = f[i]
    OBVIOUS
  <2>6. ASSUME NEW i \in 1..(m + 1) PROVE g[i] = step[i][g[i - 1]]
    <3> HIDE DEF g
    <3>1. CASE i = m + 1
      <4>1. i - 1 = m /\ m \in 0..m
        BY <3>1
      <4> QED BY <2>5, <3>1, <4>1
    <3>2. CASE i # m + 1
      <4>1. i \in 1..m /\ i \in 0..m /\ i - 1 \in 0..m
        BY <3>2
      <4> QED BY <2>1, <2>5, <4>1
    <3> QED BY <3>1, <3>2
  <2> HIDE DEF g
  <2> QED BY <2>3, <2>4, <2>6
<1> HIDE DEF T
<1>3. Nat \subseteq T
  BY <1>1, <1>2, Induction
<1> QED BY <1>3 DEF T, Steps

(***************************************************************************)
(* Only() looks at the elements one after the other.                       *)
(***************************************************************************)
Keeps(f, s, S) ==
    /\ f[0] = <<>>
    /\ \A i \in 1..Len(s) :
          f[i] = IF s[i] \in S THEN Append(f[i - 1], s[i]) ELSE f[i - 1]
    /\ Only(s, S) = f[Len(s)]

LEMMA OnlyIsRecursive ==
    ASSUME NEW A, NEW s \in Seq(A), NEW S
    PROVE  \E f \in [0..Len(s) -> Seq(A)] : Keeps(f, s, S)
<1> DEFINE Step(i, k)  == IF s[i] \in S THEN Append(k, s[i]) ELSE k
           step        == [i \in 1..Len(s) |-> [k \in Seq(A) |-> Step(i, k)]]
           F(f)        == [i \in 0..Len(s) |-> IF i = 0 THEN <<>> ELSE Step(i, f[i - 1])]
           P(f)        == f[0] = <<>> /\ \A i \in 1..Len(s) : f[i] = Step(i, f[i - 1])
<1>1. Len(s) \in Nat /\ \A i \in 1..Len(s) : s[i] \in A
  OBVIOUS
<1>2. step \in [1..Len(s) -> [Seq(A) -> Seq(A)]]
  BY <1>1
<1>3. PICK f \in [0..Len(s) -> Seq(A)] : Steps(f, Len(s), <<>>, step)
  <2>1. <<>> \in Seq(A)
    OBVIOUS
  <2>2. \A n, T, a, g :
           n \in Nat /\ a \in T /\ g \in [1..n -> [T -> T]]
           => \E f \in [0..n -> T] : Steps(f, n, a, g)
    BY Recursion
  <2> HIDE DEF step
  <2> QED BY <1>1, <1>2, <2>1, <2>2
<1>4. P(f)
  <2>1. ASSUME NEW i \in 1..Len(s) PROVE f[i] = Step(i, f[i - 1])
    <3>1. i - 1 \in 0..Len(s)
      BY <1>1
    <3>2. f[i - 1] \in Seq(A)
      BY <3>1
    <3>3. step[i][f[i - 1]] = Step(i, f[i - 1])
      BY <3>2
    <3> QED BY <1>3, <3>3 DEF Steps
  <2> QED BY <1>3, <2>1 DEF Steps
<1> HIDE DEF Step
<1>5. f = F(f)
  BY <1>1, <1>4
<1> DEFINE kept == CHOOSE g : g = F(g)
<1>6. kept = F(kept)
  BY <1>5
<1>7. Only(s, S) = kept[Len(s)]
  BY DEF Only, Step
<1> HIDE DEF kept
<1>8. ASSUME NEW i \in 0..Len(s) PROVE kept[i] = f[i]
  <2> DEFINE T == {m \in Nat : m <= Len(s) => kept[m] = f[m]}
  <2>1. 0 \in T
    BY <1>1, <1>4, <1>6
  <2>2. ASSUME NEW m \in Nat, m \in T PROVE m + 1 \in T
    BY <1>1, <1>4, <1>6, <2>2
  <2> HIDE DEF T
  <2>3. Nat \subseteq T
    BY <2>1, <2>2, Induction
  <2> QED BY <1>1, <2>3 DEF T
<1>9. Only(s, S) = f[Len(s)]
  BY <1>1, <1>7, <1>8
<1> QED BY <1>4, <1>9 DEF Step, Keeps

(***************************************************************************)
(* Only() returns the elements that are in the set, each once, in their    *)
(* order: h gives their places among the first m elements of s.            *)
(***************************************************************************)
Picks(r, s, m, S, h) ==
    /\ h \in [1..Len(r) -> 1..m]
    /\ \A i, j \in 1..Len(r) : i < j => h[i] < h[j]
    /\ \A i \in 1..Len(r) : r[i] = s[h[i]] /\ s[h[i]] \in S
    /\ \A j \in 1..m : s[j] \in S => \E i \in 1..Len(r) : h[i] = j

LEMMA OnlyPicks ==
    ASSUME NEW A, NEW s \in Seq(A), NEW S
    PROVE  /\ Only(s, S) \in Seq(A)
           /\ \E h : Picks(Only(s, S), s, Len(s), S, h)
<1>1. PICK f \in [0..Len(s) -> Seq(A)] : Keeps(f, s, S)
  BY OnlyIsRecursive
<1>2. Len(s) \in Nat /\ \A i \in 1..Len(s) : s[i] \in A
  OBVIOUS
<1> DEFINE T == {m \in Nat : m <= Len(s) => \E h : Picks(f[m], s, m, S, h)}
<1>3. 0 \in T
  <2> DEFINE h == [i \in 1..0 |-> 0]
  <2>1. Len(f[0]) = 0
    BY <1>1 DEF Keeps
  <2>2. Picks(f[0], s, 0, S, h)
    BY <2>1 DEF Picks
  <2> QED BY <2>2
<1>4. ASSUME NEW m \in Nat, m \in T PROVE m + 1 \in T
  <2> SUFFICES ASSUME m + 1 <= Len(s) PROVE \E g : Picks(f[m + 1], s, m + 1, S, g)
    OBVIOUS
  <2>1. PICK h : Picks(f[m], s, m, S, h)
    BY <1>2, <1>4
  <2> DEFINE r == f[m]
             x == s[m + 1]
             n == Len(r)
  <2>2. r \in Seq(A) /\ n \in Nat /\ x \in A /\ m + 1 \in 1..Len(s)
    <3>1. m \in 0..Len(s) /\ m + 1 \in 1..Len(s)
      BY <1>2
    <3>2. r \in Seq(A)
      BY <1>1, <3>1
    <3> QED BY <1>2, <3>1, <3>2
  <2>3. f[m + 1] = IF x \in S THEN Append(r, x) ELSE r
    BY <1>1, <2>2 DEF Keeps
  <2>4. CASE x \notin S
    <3> HIDE DEF r, x
    <3>1. Picks(r, s, m + 1, S, h)
      BY <2>1, <2>2, <2>4 DEF Picks, r, x
    <3> QED BY <2>3, <2>4, <3>1
  <2>5. CASE x \in S
    <3> DEFINE q == Append(r, x)
               g == [i \in 1..(n + 1) |-> IF i = n + 1 THEN m + 1 ELSE h[i]]
    <3>1. /\ Len(q) = n + 1 /\ q[n + 1] = x
          /\ \A i \in 1..n : q[i] = r[i]
      BY <2>2
    <3>2. /\ h \in [1..n -> 1..m]
          /\ \A i, j \in 1..n : i < j => h[i] < h[j]
          /\ \A i \in 1..n : r[i] = s[h[i]] /\ s[h[i]] \in S
          /\ \A j \in 1..m : s[j] \in S => \E i \in 1..n : h[i] = j
      BY <2>1 DEF Picks
    <3>3. g[n + 1] = m + 1 /\ \A i \in 1..n : g[i] = h[i]
      BY <2>2
    <3>4. g \in [1..(n + 1) -> 1..(m + 1)]
      BY <2>2, <3>2
    <3> HIDE DEF q, g
    <3>5. \A i, j \in 1..(n + 1) : i < j => g[i] < g[j]
      <4> SUFFICES ASSUME NEW i \in 1..(n + 1), NEW j \in 1..(n + 1), i < j
                   PROVE  g[i] < g[j]
        OBVIOUS
      <4> HIDE DEF n, r, x
      <4>1. i \in 1..n /\ h[i] \in 1..m
        <5>1. n \in Nat
          BY <2>2
        <5>2. i \in 1..n
          BY <5>1
        <5> QED BY <3>2, <5>2
      <4>2. CASE j = n + 1
        BY <3>3, <4>1, <4>2
      <4>3. CASE j # n + 1
        <5>1. j \in 1..n
          <6>1. n \in Nat
            BY <2>2
          <6> QED BY <4>3, <6>1
        <5> QED BY <3>2, <3>3, <4>1, <5>1
      <4> QED BY <4>2, <4>3
    <3>6. \A i \in 1..(n + 1) : q[i] = s[g[i]] /\ s[g[i]] \in S
      BY <2>2, <2>5, <3>1, <3>2, <3>3
    <3>7. \A j \in 1..(m + 1) : s[j] \in S => \E i \in 1..(n + 1) : g[i] = j
      <4> SUFFICES ASSUME NEW j \in 1..(m + 1), s[j] \in S
                   PROVE  \E i \in 1..(n + 1) : g[i] = j
        OBVIOUS
      <4>1. CASE j = m + 1
        BY <2>2, <3>3, <4>1
      <4>2. CASE j # m + 1
        <5>1. PICK i \in 1..n : h[i] = j
          BY <3>2, <4>2
        <5>2. i \in 1..(n + 1) /\ g[i] = j
          BY <2>2, <3>3, <5>1
        <5> QED BY <5>2
      <4> QED BY <4>1, <4>2
    <3>8. Picks(q, s, m + 1, S, g)
      BY <3>1, <3>4, <3>5, <3>6, <3>7 DEF Picks
    <3> QED BY <2>3, <2>5, <3>8 DEF q
  <2> QED BY <2>4, <2>5
<1> HIDE DEF T
<1>5. Nat \subseteq T
  BY <1>3, <1>4, Induction
<1>6. \E h : Picks(f[Len(s)], s, Len(s), S, h)
  BY <1>2, <1>5 DEF T
<1>7. f[Len(s)] \in Seq(A)
  BY <1>2
<1> QED BY <1>1, <1>6, <1>7 DEF Keeps

(***************************************************************************)
(* Only() of no element, and of a sequence with one more: it is appended   *)
(* if it is in the set.                                                    *)
(***************************************************************************)
LEMMA OnlyNothing == \A S : Only(<<>>, S) = <<>>
<1> TAKE S
<1>1. \A A, s, V : s \in Seq(A) => \E f \in [0..Len(s) -> Seq(A)] : Keeps(f, s, V)
  BY OnlyIsRecursive
<1>2. <<>> \in Seq({S}) /\ Len(<<>>) = 0
  OBVIOUS
<1>3. PICK f \in [0..Len(<<>>) -> Seq({S})] : Keeps(f, <<>>, S)
  BY <1>1, <1>2
<1> QED BY <1>2, <1>3 DEF Keeps

LEMMA OnlyAppends ==
    ASSUME NEW A, NEW s \in Seq(A), NEW x \in A, NEW S
    PROVE  Only(Append(s, x), S) = IF x \in S THEN Append(Only(s, S), x) ELSE Only(s, S)
<1> DEFINE t == Append(s, x)
<1>1. /\ t \in Seq(A) /\ Len(s) \in Nat /\ Len(t) = Len(s) + 1 /\ t[Len(s) + 1] = x
      /\ \A i \in 1..Len(s) : t[i] = s[i]
  OBVIOUS
<1> HIDE DEF t
<1>2. \A B, u, V : u \in Seq(B) => \E f \in [0..Len(u) -> Seq(B)] : Keeps(f, u, V)
  BY OnlyIsRecursive
<1>3. PICK f \in [0..Len(s) -> Seq(A)] : Keeps(f, s, S)
  BY <1>2
<1>4. PICK g \in [0..Len(t) -> Seq(A)] : Keeps(g, t, S)
  BY <1>1, <1>2
<1> DEFINE T == {i \in Nat : i <= Len(s) => f[i] = g[i]}
<1>6. 0 \in T
  BY <1>3, <1>4 DEF Keeps
<1>7. ASSUME NEW i \in Nat, i \in T PROVE i + 1 \in T
  <2> SUFFICES ASSUME i + 1 <= Len(s) PROVE f[i + 1] = g[i + 1]
    OBVIOUS
  <2>1. i + 1 \in 1..Len(s) /\ i + 1 \in 1..Len(t) /\ (i + 1) - 1 = i
    BY <1>1
  <2>2. f[i + 1] = IF s[i + 1] \in S THEN Append(f[i], s[i + 1]) ELSE f[i]
    BY <1>3, <2>1 DEF Keeps
  <2>3. g[i + 1] = IF t[i + 1] \in S THEN Append(g[i], t[i + 1]) ELSE g[i]
    BY <1>4, <2>1 DEF Keeps
  <2>4. f[i] = g[i] /\ t[i + 1] = s[i + 1]
    BY <1>1, <1>7, <2>1
  <2> QED BY <2>2, <2>3, <2>4
<1> HIDE DEF T
<1>8. Nat \subseteq T
  BY <1>6, <1>7, Induction
<1>9. f[Len(s)] = g[Len(s)]
  BY <1>1, <1>8 DEF T
<1>10. Len(t) \in 1..Len(t) /\ Len(t) - 1 = Len(s)
  BY <1>1
<1>11. g[Len(t)] = IF t[Len(t)] \in S THEN Append(g[Len(t) - 1], t[Len(t)]) ELSE g[Len(t) - 1]
  BY <1>4, <1>10 DEF Keeps
<1>12. Only(t, S) = g[Len(t)] /\ Only(s, S) = f[Len(s)]
  BY <1>3, <1>4 DEF Keeps
<1>13. Only(t, S) = IF x \in S THEN Append(Only(s, S), x) ELSE Only(s, S)
  BY <1>1, <1>9, <1>10, <1>11, <1>12
<1> QED BY <1>13 DEF t

(***************************************************************************)
(* Min() and Max() of the community modules, of natural numbers.           *)
(***************************************************************************)
LEMMA MinIs ==
    ASSUME NEW T \in SUBSET Nat, T # {}
    PROVE  Min(T) \in T /\ \A j \in T : Min(T) <= j
<1>1. \E i \in T : \A j \in T : i <= j
  BY Least
<1> QED BY <1>1 DEF Min

LEMMA MinUnique ==
    ASSUME NEW T \in SUBSET Nat, NEW i \in T, \A j \in T : i <= j
    PROVE  Min(T) = i
<1>1. Min(T) \in T /\ Min(T) <= i
  BY MinIs
<1>2. Min(T) \in Nat /\ i \in Nat /\ i <= Min(T)
  BY <1>1
<1> QED BY <1>1, <1>2

LEMMA MaxIs ==
    ASSUME NEW n \in Nat \ {0}, NEW f \in [1..n -> Nat]
    PROVE  LET T == {f[i] : i \in 1..n} IN Max(T) \in T /\ \A j \in T : Max(T) >= j
<1> DEFINE Most(m, k) == k \in 1..m /\ \A i \in 1..m : f[k] >= f[i]
           S == {m \in Nat : m + 1 <= n => \E k \in 1..n : Most(m + 1, k)}
           T == {f[i] : i \in 1..n}
<1>1. 0 \in S
  <2>1. Most(1, 1) /\ 1 \in 1..n
    OBVIOUS
  <2> QED BY <2>1
<1>2. ASSUME NEW m \in Nat, m \in S PROVE m + 1 \in S
  <2> SUFFICES ASSUME (m + 1) + 1 <= n PROVE \E k \in 1..n : Most((m + 1) + 1, k)
    OBVIOUS
  <2>1. PICK k \in 1..n : Most(m + 1, k)
    BY <1>2
  <2>2. (m + 1) + 1 \in 1..n /\ \A i \in 1..((m + 1) + 1) : i \in 1..(m + 1) \/ i = (m + 1) + 1
    OBVIOUS
  <2>3. f[k] \in Nat /\ f[(m + 1) + 1] \in Nat /\ \A i \in 1..((m + 1) + 1) : f[i] \in Nat
    BY <2>2
  <2>4. CASE f[k] >= f[(m + 1) + 1]
    <3>1. Most((m + 1) + 1, k)
      BY <2>1, <2>2, <2>3, <2>4
    <3> QED BY <3>1
  <2>5. CASE ~(f[k] >= f[(m + 1) + 1])
    <3>1. Most((m + 1) + 1, (m + 1) + 1)
      BY <2>1, <2>2, <2>3, <2>5
    <3> QED BY <2>2, <3>1
  <2> QED BY <2>4, <2>5
<1>3. Nat \subseteq S
  <2> HIDE DEF S
  <2> QED BY <1>1, <1>2, Induction
<1>4. n - 1 \in S /\ (n - 1) + 1 = n
  <2>1. n - 1 \in Nat /\ (n - 1) + 1 = n
    OBVIOUS
  <2> HIDE DEF S
  <2> QED BY <1>3, <2>1
<1>5. PICK k \in 1..n : Most(n, k)
  BY <1>4
<1>6. f[k] \in T /\ \A j \in T : f[k] >= j
  BY <1>5
<1>7. \E x \in T : \A j \in T : x >= j
  BY <1>6
<1> QED BY <1>7 DEF Max
=============================================================================
