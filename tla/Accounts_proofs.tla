--------------------------- MODULE Accounts_proofs ---------------------------
(***************************************************************************)
(* Theorems about Accounts: the types, and that enumerations, lookups and  *)
(* the calls with a buffer agree with the files.                           *)
(***************************************************************************)
EXTENDS Accounts, Lists_proofs, SequenceTheorems

Contents == Seq(Lines)

-----------------------------------------------------------------------------
(* The places of the lines that have all their fields *)

LEMMA LineTyped ==
    ASSUME NEW line \in Lines
    PROVE  /\ line \in [name : STRING, id : Nat, last : Seq(STRING), ok : BOOLEAN,
                        nl : BOOLEAN, len : Nat]
           /\ line.nl \/ line.last \in DOMAIN Cut
BY DEF Lines

(***************************************************************************)
(* An entry has the name and the id of its line.                           *)
(***************************************************************************)
LEMMA EntryIs ==
    ASSUME NEW line \in Lines
    PROVE  /\ Entry(line) \in EntryFields
           /\ Entry(line).name = line.name /\ Entry(line).id = line.id
<1>1. Cut \in [DOMAIN Cut -> Seq(STRING)]
  BY AccountsAssumption
<1>2. (IF line.nl THEN line.last ELSE Cut[line.last]) \in Seq(STRING)
  BY <1>1, LineTyped
<1>3. line.name \in STRING /\ line.id \in Nat
  BY LineTyped
<1> QED BY <1>2, <1>3 DEF Entry, EntryFields

(***************************************************************************)
(* A line read adds its place, if it has all its fields.                   *)
(***************************************************************************)
LEMMA PlacesStep ==
    ASSUME NEW content \in Contents
    PROVE  /\ Places(content, 0) = <<>>
           /\ \A n \in Nat : n + 1 <= Len(content) =>
                 /\ Places(content, n) \in Seq(1..Len(content))
                 /\ Places(content, n + 1) = IF content[n + 1].ok THEN Append(Places(content, n), n + 1)
                                             ELSE Places(content, n)
<1> DEFINE S == {i \in DOMAIN content : content[i].ok}
           A == 1..Len(content)
           upto(n) == [i \in 1..n |-> i]
<1>1. Len(content) \in Nat /\ DOMAIN content = A
  BY DEF Contents
<1>3. \A n \in Nat : n + 1 <= Len(content) =>
          /\ upto(n) \in Seq(A) /\ n + 1 \in A /\ upto(n + 1) = Append(upto(n), n + 1)
  <2> TAKE n \in Nat
  <2> HAVE n + 1 <= Len(content)
  <2>1. upto(n) \in Seq(A) /\ Len(upto(n)) = n /\ n + 1 \in A
    BY <1>1
  <2> QED BY <2>1
<1>4. upto(0) = <<>>
  OBVIOUS
<1>5. \A s : s \in Seq(A) => Only(s, S) \in Seq(A)
  BY OnlyPicks
<1>6. \A n : Places(content, n) = Only(upto(n), S)
  BY DEF Places
<1> HIDE DEF upto, S, A
<1>7. Places(content, 0) = <<>>
  BY <1>4, <1>6, OnlyNothing
<1>8. ASSUME NEW n \in Nat, n + 1 <= Len(content)
      PROVE  /\ Places(content, n) \in Seq(A)
             /\ Places(content, n + 1) = IF content[n + 1].ok THEN Append(Places(content, n), n + 1)
                                         ELSE Places(content, n)
  <2>1. n + 1 \in S <=> content[n + 1].ok
    BY <1>1, <1>3, <1>8 DEF S
  <2>2. upto(n) \in Seq(A) /\ n + 1 \in A /\ upto(n + 1) = Append(upto(n), n + 1)
    BY <1>3, <1>8
  <2>3. Only(upto(n + 1), S) = IF n + 1 \in S THEN Append(Only(upto(n), S), n + 1)
                               ELSE Only(upto(n), S)
    <3>1. Only(Append(upto(n), n + 1), S) = IF n + 1 \in S THEN Append(Only(upto(n), S), n + 1)
                                            ELSE Only(upto(n), S)
      <4>1. \A s \in Seq(A) : \A x \in A :
                Only(Append(s, x), S) = IF x \in S THEN Append(Only(s, S), x) ELSE Only(s, S)
        BY OnlyAppends
      <4> QED BY <2>2, <4>1
    <3> QED BY <2>2, <3>1
  <2> QED BY <1>5, <1>6, <2>1, <2>2, <2>3
<1> QED BY <1>7, <1>8 DEF A

(***************************************************************************)
(* The places of the first lines begin those of more lines.                *)
(***************************************************************************)
Begins(p, q) == Len(p) <= Len(q) /\ \A i \in 1..Len(p) : q[i] = p[i]

LEMMA BeginsMore ==
    ASSUME NEW A, NEW p \in Seq(A), NEW q \in Seq(A), NEW x \in A, Begins(p, q)
    PROVE  Begins(p, Append(q, x))
<1>1. /\ Len(p) \in Nat /\ Len(q) \in Nat /\ Len(Append(q, x)) = Len(q) + 1
      /\ \A i \in 1..Len(q) : Append(q, x)[i] = q[i]
  OBVIOUS
<1> QED BY <1>1 DEF Begins

LEMMA PlacesTyped ==
    ASSUME NEW content \in Contents, NEW n \in 0..Len(content)
    PROVE  Places(content, n) \in Seq(1..Len(content))
<1>1. Len(content) \in Nat
  BY DEF Contents
<1>2. CASE n = 0
  <2>1. Places(content, 0) = <<>>
    BY PlacesStep
  <2>2. <<>> \in Seq(1..Len(content))
    OBVIOUS
  <2> QED BY <1>2, <2>1, <2>2
<1>3. CASE n # 0
  <2>1. n - 1 \in Nat /\ (n - 1) + 1 = n /\ n \in 1..Len(content) /\ n <= Len(content)
    BY <1>1, <1>3
  <2>2. \A k \in Nat : k + 1 <= Len(content) =>
           /\ Places(content, k) \in Seq(1..Len(content))
           /\ Places(content, k + 1) = IF content[k + 1].ok THEN Append(Places(content, k), k + 1)
                                       ELSE Places(content, k)
    BY PlacesStep
  <2>3. /\ Places(content, n - 1) \in Seq(1..Len(content))
        /\ Places(content, n) = IF content[n].ok THEN Append(Places(content, n - 1), n)
                                ELSE Places(content, n - 1)
    BY <2>1, <2>2
  <2>4. \A q \in Seq(1..Len(content)) : Append(q, n) \in Seq(1..Len(content))
    BY <2>1
  <2> QED BY <2>3, <2>4
<1> QED BY <1>2, <1>3

LEMMA PlacesBegin ==
    ASSUME NEW content \in Contents, NEW m \in 0..Len(content), NEW n \in m..Len(content)
    PROVE  Begins(Places(content, m), Places(content, n))
<1> DEFINE T == {k \in Nat : m + k <= Len(content)
                             => Begins(Places(content, m), Places(content, m + k))}
<1>1. Len(content) \in Nat /\ m \in Nat
  BY DEF Contents
<1>2. 0 \in T
  <2>1. Places(content, m) \in Seq(1..Len(content))
    BY PlacesTyped
  <2>2. Begins(Places(content, m), Places(content, m))
    BY <2>1 DEF Begins
  <2> QED BY <1>1, <2>2
<1>3. ASSUME NEW k \in Nat, k \in T PROVE k + 1 \in T
  <2> SUFFICES ASSUME m + (k + 1) <= Len(content)
               PROVE  Begins(Places(content, m), Places(content, m + (k + 1)))
    OBVIOUS
  <2>1. m + k \in Nat /\ (m + k) + 1 = m + (k + 1) /\ m + k <= Len(content)
        /\ (m + k) + 1 \in 1..Len(content) /\ (m + k) + 1 <= Len(content)
    BY <1>1
  <2>2. Begins(Places(content, m), Places(content, m + k))
    BY <1>3, <2>1
  <2>3. Places(content, m) \in Seq(1..Len(content))
    BY PlacesTyped
  <2>4. /\ Places(content, m + k) \in Seq(1..Len(content))
        /\ Places(content, (m + k) + 1) = IF content[(m + k) + 1].ok
                                          THEN Append(Places(content, m + k), (m + k) + 1)
                                          ELSE Places(content, m + k)
    BY <2>1, PlacesStep
  <2>5. Begins(Places(content, m), Append(Places(content, m + k), (m + k) + 1))
    BY <2>1, <2>2, <2>3, <2>4, BeginsMore
  <2> QED BY <2>1, <2>2, <2>4, <2>5
<1> HIDE DEF T
<1>4. Nat \subseteq T
  BY <1>2, <1>3, Induction
<1>5. n - m \in Nat /\ m + (n - m) = n /\ n <= Len(content)
  BY <1>1
<1> QED BY <1>4, <1>5 DEF T

(***************************************************************************)
(* Lines without all their fields add no place.                            *)
(***************************************************************************)
LEMMA PlacesSkip ==
    ASSUME NEW content \in Contents, NEW m \in 0..Len(content), NEW n \in m..Len(content),
           \A i \in (m + 1)..n : ~content[i].ok
    PROVE  Places(content, n) = Places(content, m)
<1> DEFINE T == {k \in Nat : m + k <= n => Places(content, m + k) = Places(content, m)}
<1>1. Len(content) \in Nat /\ m \in Nat /\ n \in Nat /\ n <= Len(content)
  BY DEF Contents
<1>2. 0 \in T
  BY <1>1
<1>3. ASSUME NEW k \in Nat, k \in T PROVE k + 1 \in T
  <2> SUFFICES ASSUME m + (k + 1) <= n PROVE Places(content, m + (k + 1)) = Places(content, m)
    OBVIOUS
  <2>1. m + k \in Nat /\ (m + k) + 1 = m + (k + 1) /\ m + k <= n
        /\ (m + k) + 1 \in (m + 1)..n /\ (m + k) + 1 <= Len(content)
    BY <1>1
  <2>2. Places(content, (m + k) + 1) = IF content[(m + k) + 1].ok
                                       THEN Append(Places(content, m + k), (m + k) + 1)
                                       ELSE Places(content, m + k)
    BY <2>1, PlacesStep
  <2> QED BY <1>3, <2>1, <2>2
<1> HIDE DEF T
<1>4. Nat \subseteq T
  BY <1>2, <1>3, Induction
<1>5. n - m \in Nat /\ m + (n - m) = n
  BY <1>1
<1> QED BY <1>4, <1>5 DEF T

(***************************************************************************)
(* The places are those of the lines looked at, whatever else changes.     *)
(***************************************************************************)
LEMMA PlacesSame ==
    ASSUME NEW content \in Contents, NEW other \in Contents,
           NEW n \in 0..Len(content), n <= Len(other),
           \A i \in 1..n : other[i].ok = content[i].ok
    PROVE  Places(other, n) = Places(content, n)
<1> DEFINE T == {k \in Nat : k <= n => Places(other, k) = Places(content, k)}
<1>1. Len(content) \in Nat /\ Len(other) \in Nat /\ n \in Nat /\ n <= Len(content)
  BY DEF Contents
<1>2. 0 \in T
  BY PlacesStep
<1>3. ASSUME NEW k \in Nat, k \in T PROVE k + 1 \in T
  <2> SUFFICES ASSUME k + 1 <= n PROVE Places(other, k + 1) = Places(content, k + 1)
    OBVIOUS
  <2>1. k + 1 \in 1..n /\ k <= n /\ k + 1 <= Len(content) /\ k + 1 <= Len(other)
    BY <1>1
  <2>2. Places(content, k + 1) = IF content[k + 1].ok THEN Append(Places(content, k), k + 1)
                                 ELSE Places(content, k)
    BY <2>1, PlacesStep
  <2>3. Places(other, k + 1) = IF other[k + 1].ok THEN Append(Places(other, k), k + 1)
                               ELSE Places(other, k)
    BY <2>1, PlacesStep
  <2> QED BY <1>3, <2>1, <2>2, <2>3
<1> HIDE DEF T
<1>4. Nat \subseteq T
  BY <1>2, <1>3, Induction
<1> QED BY <1>1, <1>4 DEF T

LEMMA PlacesAreGood ==
    ASSUME NEW content \in Contents
    PROVE  \A k \in Nat : k <= Len(content) =>
              \A i \in 1..Len(Places(content, k)) : content[Places(content, k)[i]].ok
<1> DEFINE p(k) == Places(content, k)
           T == {k \in Nat : k <= Len(content) => \A i \in 1..Len(p(k)) : content[p(k)[i]].ok}
<1>1. 0 \in T
  BY PlacesStep
<1>2. ASSUME NEW k \in Nat, k \in T PROVE k + 1 \in T
  <2> SUFFICES ASSUME k + 1 <= Len(content), NEW i \in 1..Len(p(k + 1))
               PROVE  content[p(k + 1)[i]].ok
    OBVIOUS
  <2>1. k \in 0..Len(content) /\ k <= Len(content)
    BY DEF Contents
  <2>2. /\ p(k) \in Seq(1..Len(content))
        /\ p(k + 1) = IF content[k + 1].ok THEN Append(p(k), k + 1) ELSE p(k)
    BY PlacesStep
  <2>3. \A j \in 1..Len(p(k)) : content[p(k)[j]].ok
    BY <1>2, <2>1
  <2> HIDE DEF p
  <2>4. CASE content[k + 1].ok
    <3>1. (i \in 1..Len(p(k)) /\ p(k + 1)[i] = p(k)[i]) \/ p(k + 1)[i] = k + 1
      BY <2>2, <2>4
    <3> QED BY <2>3, <2>4, <3>1
  <2>5. CASE ~content[k + 1].ok
    BY <2>2, <2>3, <2>5
  <2> QED BY <2>4, <2>5
<1> HIDE DEF T
<1>3. Nat \subseteq T
  BY <1>1, <1>2, Induction
<1> QED BY <1>3 DEF T

\* Every line with all its fields is at a place.
LEMMA PlacesAll ==
    ASSUME NEW content \in Contents
    PROVE  \A k \in Nat : k <= Len(content) =>
              \A i \in 1..k : content[i].ok =>
                 \E j \in 1..Len(Places(content, k)) : Places(content, k)[j] = i
<1> DEFINE p(k) == Places(content, k)
           At1(k, i) == \E j \in 1..Len(p(k)) : p(k)[j] = i
           T == {k \in Nat : k <= Len(content) => \A i \in 1..k : content[i].ok => At1(k, i)}
<1>1. 0 \in T
  OBVIOUS
<1>2. ASSUME NEW k \in Nat, k \in T PROVE k + 1 \in T
  <2> SUFFICES ASSUME k + 1 <= Len(content), NEW i \in 1..(k + 1), content[i].ok
               PROVE  At1(k + 1, i)
    OBVIOUS
  <2>1. k \in 0..Len(content) /\ k <= Len(content)
    BY DEF Contents
  <2>2. /\ p(k) \in Seq(1..Len(content))
        /\ p(k + 1) = IF content[k + 1].ok THEN Append(p(k), k + 1) ELSE p(k)
    BY PlacesStep
  <2>3. \A h \in 1..k : content[h].ok => At1(k, h)
    BY <1>2, <2>1
  <2> HIDE DEF p
  <2>4. CASE i = k + 1
    <3>1. p(k + 1) = Append(p(k), i)
      BY <2>2, <2>4
    <3>2. Len(p(k + 1)) = Len(p(k)) + 1 /\ p(k + 1)[Len(p(k)) + 1] = i /\ Len(p(k)) \in Nat
      BY <2>2, <2>4, <3>1
    <3>3. Len(p(k)) + 1 \in 1..Len(p(k + 1))
      BY <3>2
    <3> QED BY <3>2, <3>3
  <2>5. CASE i # k + 1
    <3>1. i \in 1..k
      BY <2>5
    <3>2. PICK j \in 1..Len(p(k)) : p(k)[j] = i
      BY <2>3, <3>1
    <3>3. CASE content[k + 1].ok
      <4>1. p(k + 1) = Append(p(k), k + 1) /\ k + 1 \in 1..Len(content)
        BY <2>1, <2>2, <3>3
      <4>2. \A q \in Seq(1..Len(content)) : \A x \in 1..Len(content) : \A h \in 1..Len(q) :
                h \in 1..Len(Append(q, x)) /\ Append(q, x)[h] = q[h]
        OBVIOUS
      <4>3. j \in 1..Len(p(k + 1)) /\ p(k + 1)[j] = i
        BY <2>2, <3>2, <4>1, <4>2, Zenon
      <4> QED BY <4>3
    <3>4. CASE ~content[k + 1].ok
      BY <2>2, <3>2, <3>4
    <3> QED BY <3>3, <3>4
  <2> QED BY <2>4, <2>5
<1> HIDE DEF T
<1>3. Nat \subseteq T
  BY <1>1, <1>2, Induction
<1> QED BY <1>3 DEF T

(***************************************************************************)
(* The entries are those of the lines at the places.                       *)
(***************************************************************************)
LEMMA EntriesAre ==
    ASSUME NEW content \in Contents, NEW n \in 0..Len(content)
    PROVE  /\ Entries(content, n) \in Seq(EntryFields)
           /\ Len(Entries(content, n)) = Len(Places(content, n))
           /\ \A i \in 1..Len(Places(content, n)) :
                 /\ Places(content, n)[i] \in 1..Len(content)
                 /\ content[Places(content, n)[i]] \in Lines
                 /\ Entries(content, n)[i] = Entry(content[Places(content, n)[i]])
<1> DEFINE p == Places(content, n)
<1>1. p \in Seq(1..Len(content)) /\ Len(p) \in Nat /\ DOMAIN p = 1..Len(p)
  BY PlacesTyped
<1> HIDE DEF p
<1>2. \A i \in 1..Len(p) : p[i] \in 1..Len(content) /\ content[p[i]] \in Lines
  BY <1>1 DEF Contents
<1>3. \A i \in 1..Len(p) : Entry(content[p[i]]) \in EntryFields
  BY <1>2, EntryIs
<1>4. [i \in DOMAIN p |-> Entry(content[p[i]])] \in Seq(EntryFields)
  BY <1>1, <1>3
<1>5. Entries(content, n) = [i \in DOMAIN p |-> Entry(content[p[i]])]
  BY DEF Entries, p
<1> QED BY <1>1, <1>2, <1>4, <1>5 DEF p

-----------------------------------------------------------------------------
(* What a stream has returned *)

\* What was returned are the entries of the first n lines, or errors in their place.
Told(returned, content, n) ==
    LET p == Places(content, n)
    IN  /\ Len(returned) = Len(p)
        /\ \A i \in 1..Len(p) :
              returned[i] # NULL => /\ returned[i].name = content[p[i]].name
                                    /\ returned[i].id = content[p[i]].id

\* The lines of a file stay where they are when others append to it.
Kept(content, other) ==
    /\ Len(content) <= Len(other)
    /\ \A i \in 1..Len(content) : /\ other[i].ok = content[i].ok
                                  /\ other[i].name = content[i].name /\ other[i].id = content[i].id

\* A stream is in a content it can be in.
At(s, contents) == s.inode \in DOMAIN contents /\ s.at \in 0..Len(contents[s.inode])

\* A line is read from s: it has the first place after those before it.
Reads(next, s, content) ==
    /\ next.s \in StreamFields /\ next.s.inode = s.inode
    /\ next.s.at \in 0..Len(content)
    /\ next.line => /\ next.s.at \in 1..Len(content)
                    /\ Places(content, next.s.at) = Append(Places(content, s.at), next.s.at)
                    /\ next.res \in {Entry(content[next.s.at]), NULL}
    /\ ~next.line => Places(content, next.s.at) = Places(content, s.at)

LEMMA ToldIs ==
    ASSUME NEW content \in Contents, NEW n \in 0..Len(content),
           NEW returned \in Seq(EntryFields \cup {NULL})
    PROVE  Told(returned, content, n) <=>
              /\ Len(returned) = Len(Entries(content, n))
              /\ \A i \in DOMAIN Entries(content, n) : returned[i] # NULL =>
                    /\ returned[i].name = Entries(content, n)[i].name
                    /\ returned[i].id = Entries(content, n)[i].id
<1> DEFINE p == Places(content, n)
           e == Entries(content, n)
<1>1. p \in Seq(1..Len(content)) /\ e \in Seq(EntryFields) /\ Len(e) = Len(p)
  BY PlacesTyped, EntriesAre
<1>2. ASSUME NEW i \in 1..Len(p) PROVE e[i].name = content[p[i]].name /\ e[i].id = content[p[i]].id
  <2>1. content[p[i]] \in Lines /\ e[i] = Entry(content[p[i]])
    BY EntriesAre
  <2> QED BY <2>1, EntryIs
<1>3. DOMAIN e = 1..Len(p) /\ Len(returned) \in Nat
  BY <1>1
<1>4. Told(returned, content, n) <=>
              /\ Len(returned) = Len(p)
              /\ \A i \in 1..Len(p) : returned[i] # NULL =>
                    /\ returned[i].name = content[p[i]].name
                    /\ returned[i].id = content[p[i]].id
  BY DEF Told
<1> HIDE DEF p, e
<1>5. Told(returned, content, n) <=>
              /\ Len(returned) = Len(e)
              /\ \A i \in DOMAIN e : returned[i] # NULL =>
                    returned[i].name = e[i].name /\ returned[i].id = e[i].id
  BY <1>1, <1>2, <1>3, <1>4
<1> QED BY <1>5 DEF e

LEMMA ToldMore ==
    ASSUME NEW content \in Contents, NEW n \in 0..Len(content), NEW m \in 1..Len(content),
           NEW returned \in Seq(EntryFields \cup {NULL}), Told(returned, content, n),
           Places(content, m) = Append(Places(content, n), m),
           NEW res \in {Entry(content[m]), NULL}
    PROVE  /\ Append(returned, res) \in Seq(EntryFields \cup {NULL})
           /\ Told(Append(returned, res), content, m)
<1> DEFINE p == Places(content, n)
           q == Places(content, m)
<1>1. p \in Seq(1..Len(content)) /\ q = Append(p, m) /\ Len(p) \in Nat
  BY PlacesTyped
<1>2. Len(returned) = Len(p) /\ \A i \in 1..Len(p) :
              returned[i] # NULL => /\ returned[i].name = content[p[i]].name
                                    /\ returned[i].id = content[p[i]].id
  BY DEF Told
<1> HIDE DEF p, q
<1>3. content[m] \in Lines
  BY DEF Contents
<1>4. res \in EntryFields \cup {NULL}
  BY <1>3, EntryIs
<1>5. res # NULL => res.name = content[m].name /\ res.id = content[m].id
  BY <1>3, EntryIs
<1>6. Len(q) = Len(p) + 1 /\ q[Len(p) + 1] = m /\ \A i \in 1..Len(p) : q[i] = p[i]
  BY <1>1
<1> DEFINE more == Append(returned, res)
<1>7. /\ more \in Seq(EntryFields \cup {NULL}) /\ Len(more) = Len(p) + 1
      /\ more[Len(p) + 1] = res /\ \A i \in 1..Len(p) : more[i] = returned[i]
  BY <1>2, <1>4
<1> HIDE DEF more
<1>8. ASSUME NEW i \in 1..Len(q), more[i] # NULL
      PROVE  more[i].name = content[q[i]].name /\ more[i].id = content[q[i]].id
  <2>1. i \in 1..Len(p) \/ i = Len(p) + 1
    BY <1>1, <1>6
  <2>2. CASE i \in 1..Len(p)
    BY <1>2, <1>6, <1>7, <1>8, <2>2
  <2>3. CASE i = Len(p) + 1
    BY <1>5, <1>6, <1>7, <1>8, <2>3
  <2> QED BY <2>1, <2>2, <2>3
<1>9. Told(more, content, m)
  BY <1>6, <1>7, <1>8 DEF Told, q
<1> QED BY <1>7, <1>9 DEF more

LEMMA ToldKept ==
    ASSUME NEW content \in Contents, NEW other \in Contents, Kept(content, other),
           NEW n \in 0..Len(content), NEW returned, Told(returned, content, n)
    PROVE  n \in 0..Len(other) /\ Told(returned, other, n)
<1>1. Len(content) \in Nat /\ Len(other) \in Nat /\ Len(content) <= Len(other)
  BY DEF Contents, Kept
<1>2. n \in 0..Len(other) /\ n <= Len(other) /\ \A i \in 1..n : i \in 1..Len(content)
  BY <1>1
<1>3. \A i \in 1..n : other[i].ok = content[i].ok
  BY <1>2 DEF Kept
<1>4. Places(other, n) = Places(content, n)
  BY <1>2, <1>3, PlacesSame
<1> DEFINE p == Places(content, n)
<1>5. \A i \in 1..Len(p) : p[i] \in 1..Len(content)
  BY EntriesAre
<1>6. \A i \in 1..Len(p) : other[p[i]].name = content[p[i]].name /\ other[p[i]].id = content[p[i]].id
  <2> HIDE DEF p
  <2> QED BY <1>5 DEF Kept
<1> QED BY <1>2, <1>4, <1>6 DEF Told

-----------------------------------------------------------------------------
(* The operations *)

(***************************************************************************)
(* NextLine() reads the next line that has all its fields, or what is left *)
(* of the file.                                                            *)
(***************************************************************************)
LEMMA NextLineReads ==
    ASSUME lines \in Seq(Contents), NEW s \in StreamFields, At(s, lines)
    PROVE  /\ Reads(NextLine(s), s, lines[s.inode])
           /\ NextLine(s).line => NextLine(s).res # NULL
<1> DEFINE content == lines[s.inode]
           good == {i \in DOMAIN content : i > s.at /\ content[i].ok}
           next == NextLine(s)
<1>1. content \in Contents /\ s.at \in 0..Len(content) /\ Len(content) \in Nat
      /\ DOMAIN content = 1..Len(content)
  <2>1. content \in Contents /\ s.at \in 0..Len(content)
    BY DEF At
  <2> HIDE DEF content
  <2> QED BY <2>1 DEF Contents
<1>2. s.inode \in Nat /\ s.at \in Nat /\ s.eof \in BOOLEAN
  BY DEF StreamFields
<1>3. CASE s.eof
  <2>1. next.line = FALSE /\ next.s = [s EXCEPT !.at = s.at, !.eof = TRUE]
    BY <1>3 DEF NextLine
  <2>2. next.s \in StreamFields /\ next.s.inode = s.inode /\ next.s.at = s.at
    BY <2>1, <1>2 DEF StreamFields
  <2> QED BY <1>1, <2>1, <2>2 DEF Reads
<1>4. CASE ~s.eof /\ good = {}
  <2>1. next.line = FALSE /\ next.s = [s EXCEPT !.at = Len(content), !.eof = TRUE]
    BY <1>4 DEF NextLine
  <2> HIDE DEF content
  <2>2. next.s \in StreamFields /\ next.s.inode = s.inode /\ next.s.at = Len(content)
    BY <2>1, <1>1, <1>2 DEF StreamFields
  <2>3. \A i \in (s.at + 1)..Len(content) : ~content[i].ok
    BY <1>1, <1>4
  <2>4. Len(content) \in s.at..Len(content)
    BY <1>1
  <2>5. Places(content, Len(content)) = Places(content, s.at)
    BY <1>1, <2>3, <2>4, PlacesSkip
  <2> HIDE DEF next
  <2>6. Reads(next, s, content)
    <3>1. ~next.line /\ next.s.at \in 0..Len(content)
      BY <1>1, <2>1, <2>2
    <3> QED BY <2>2, <2>5, <3>1 DEF Reads
  <2> QED BY <2>1, <2>6 DEF content, next
<1>5. CASE ~s.eof /\ good # {}
  <2> DEFINE m == Min(good)
  <2>1. /\ next.line = TRUE /\ next.res = Entry(content[m])
        /\ next.s = [s EXCEPT !.at = m, !.eof = ~content[m].nl]
    BY <1>5 DEF NextLine
  <2> HIDE DEF content
  <2>2. good \in SUBSET Nat
    BY <1>1
  <2>3. m \in good /\ \A j \in good : m <= j
    BY <1>5, <2>2, MinIs
  <2> HIDE DEF m
  <2>4. m \in 1..Len(content) /\ m > s.at /\ content[m].ok /\ content[m] \in Lines
    <3>1. m \in DOMAIN content /\ m > s.at /\ content[m].ok
      BY <2>3
    <3>2. content[m] \in Lines
      BY <1>1, <3>1 DEF Contents
    <3> QED BY <1>1, <3>1, <3>2
  <2>5. content[m].nl \in BOOLEAN
    BY <2>4, LineTyped
  <2>6. ASSUME NEW i \in (s.at + 1)..(m - 1) PROVE ~content[i].ok
    <3>1. i \in 1..Len(content) /\ i > s.at /\ ~(m <= i)
      BY <1>1, <2>4
    <3> QED BY <1>1, <2>3, <3>1
  <2> HIDE DEF good, next
  <2>7. next.s \in StreamFields /\ next.s.inode = s.inode /\ next.s.at = m
    <3> DEFINE eof == ~content[m].nl
    <3>1. eof \in BOOLEAN
      OBVIOUS
    <3>2. next.s = [s EXCEPT !.at = m, !.eof = eof]
      BY <2>1
    <3> HIDE DEF eof
    <3>3. m \in Nat
      BY <1>1, <2>4
    <3>4. PICK e \in BOOLEAN : next.s = [s EXCEPT !.at = m, !.eof = e]
      BY <3>1, <3>2
    <3> DEFINE t == [s EXCEPT !.at = m, !.eof = e]
    <3>5. t \in StreamFields /\ t.inode = s.inode /\ t.at = m
      BY <3>3 DEF StreamFields
    <3>6. next.s = t
      BY <3>4
    <3> HIDE DEF t
    <3> QED BY <3>5, <3>6
  <2>8. m - 1 \in s.at..Len(content) /\ m - 1 \in Nat /\ (m - 1) + 1 = m /\ m <= Len(content)
    BY <1>1, <2>4
  <2>9. Places(content, m - 1) = Places(content, s.at)
    BY <1>1, <2>6, <2>8, PlacesSkip
  <2>10. Places(content, m) = Append(Places(content, m - 1), m)
    <3>1. \A n \in Nat : n + 1 <= Len(content) =>
                 Places(content, n + 1) = IF content[n + 1].ok THEN Append(Places(content, n), n + 1)
                                          ELSE Places(content, n)
      BY <1>1, PlacesStep
    <3> QED BY <2>4, <2>8, <3>1
  <2>11. next.res # NULL
    BY <2>1, <2>4, EntryIs, AccountsAssumption
  <2>12. Reads(next, s, content)
    <3>1. next.s.at \in 0..Len(content) /\ next.s.at \in 1..Len(content)
      BY <1>1, <2>4, <2>7
    <3>2. Places(content, next.s.at) = Append(Places(content, s.at), next.s.at)
      BY <2>7, <2>9, <2>10
    <3>3. next.res \in {Entry(content[next.s.at]), NULL}
      BY <2>1, <2>7
    <3> QED BY <2>1, <2>7, <3>1, <3>2, <3>3 DEF Reads
  <2> QED BY <2>11, <2>12 DEF content, next
<1> QED BY <1>2, <1>3, <1>4, <1>5

LEMMA GrentReads ==
    ASSUME lines \in Seq(Contents), NEW s \in StreamFields, At(s, lines), NEW nomem \in BOOLEAN
    PROVE  Reads(__getgrent_a(s, nomem), s, lines[s.inode])
<1> DEFINE next == NextLine(s)
           content == lines[s.inode]
<1>1. Reads(next, s, content)
  BY NextLineReads
<1>2. CASE ~nomem
  BY <1>1, <1>2 DEF __getgrent_a
<1>3. CASE nomem
  <2>1. __getgrent_a(s, nomem) = [next EXCEPT !.res = NULL]
    BY <1>3 DEF __getgrent_a
  <2>2. next = [line |-> next.line, res |-> next.res, s |-> next.s]
    BY DEF NextLine
  <2> HIDE DEF next, content
  <2>3. /\ [next EXCEPT !.res = NULL].line = next.line /\ [next EXCEPT !.res = NULL].s = next.s
        /\ [next EXCEPT !.res = NULL].res = NULL
    BY <2>2
  <2> QED BY <1>1, <2>1, <2>3 DEF Reads, content
<1> QED BY <1>2, <1>3

(***************************************************************************)
(* What is appended changes neither the names nor the ids of the lines     *)
(* there are.                                                              *)
(***************************************************************************)
LEMMA AppendedKeeps ==
    ASSUME NEW content \in Contents, NEW line \in Written
    PROVE  Appended(content, line) \in Contents /\ Kept(content, Appended(content, line))
<1> DEFINE n == Len(content)
<1>1. n \in Nat /\ \A i \in 1..n : content[i] \in Lines
  BY DEF Contents
<1>2. line \in Lines /\ line.last \in DOMAIN Cut /\ line.nl
  BY DEF Written
<1>3. CASE content # <<>> /\ ~content[n].nl
  <2> DEFINE old == content[n]
             new == [old EXCEPT !.nl = TRUE, !.last = Cut[line.last]]
             other == [content EXCEPT ![n] = new]
  <2>1. Appended(content, line) = other
    BY <1>3 DEF Appended
  <2>2. n \in 1..n /\ old \in Lines
    BY <1>1, <1>3 DEF Contents
  <2>3. Cut[line.last] \in Seq(STRING)
    BY <1>2, AccountsAssumption
  <2>4. old \in [name : STRING, id : Nat, last : Seq(STRING), ok : BOOLEAN, nl : BOOLEAN, len : Nat]
    BY <2>2, LineTyped
  <2> HIDE DEF old
  <2>5. /\ new.name = old.name /\ new.id = old.id /\ new.ok = old.ok /\ new.len = old.len
        /\ new.nl /\ new.last = Cut[line.last]
    BY <2>4
  <2>6. new \in [name : STRING, id : Nat, last : Seq(STRING), ok : BOOLEAN, nl : BOOLEAN, len : Nat]
    BY <2>3, <2>4
  <2>7. new \in Lines
    BY <2>5, <2>6 DEF Lines
  <2> HIDE DEF new, n
  <2>8. other \in Contents /\ Len(other) = n /\ other[n] = new
        /\ \A i \in 1..n : i # n => other[i] = content[i]
    BY <2>2, <2>7 DEF Contents, n
  <2> HIDE DEF other
  <2>9. \A i \in 1..n : other[i].ok = content[i].ok
                        /\ other[i].name = content[i].name /\ other[i].id = content[i].id
    BY <2>5, <2>8 DEF old
  <2> QED BY <1>1, <2>1, <2>8, <2>9 DEF Kept, n
<1>4. CASE ~(content # <<>> /\ ~content[n].nl)
  <2>1. Appended(content, line) = Append(content, line)
    BY <1>4 DEF Appended
  <2>2. /\ Append(content, line) \in Contents /\ Len(Append(content, line)) = n + 1
        /\ \A i \in 1..n : Append(content, line)[i] = content[i]
    BY <1>2 DEF Contents
  <2> HIDE DEF n
  <2>3. n <= n + 1
    BY <1>1
  <2> QED BY <2>1, <2>2, <2>3 DEF Kept, n
<1> QED BY <1>3, <1>4

-----------------------------------------------------------------------------
(* The inductive invariant *)

\* The types, without the places of the streams.
Typed ==
    /\ root \in Roots /\ readable \in BOOLEAN
    /\ lines \in Seq(Contents)
    /\ etc \in [Roots -> [Files -> DOMAIN lines]]
    /\ stream \in [Files -> StreamFields \cup {NULL}] /\ own \in OwnFields \cup {NULL}
    /\ seen \in [Files -> Seq(EntryFields \cup {NULL})]
    /\ asking \in AskingFields \cup {NULL}
    /\ shadow \in Shadows \cup {<<>>}

Placed ==
    /\ \A file \in Files : stream[file] # NULL => At(stream[file], lines)
    /\ own # NULL => At(own.s, lines)

\* An enumeration that has not begun has returned nothing, and users are never errors.
Begun ==
    /\ \A file \in Files : stream[file] = NULL => seen[file] = <<>>
    /\ \A i \in DOMAIN seen["passwd"] : seen["passwd"][i] # NULL

Returned ==
    \A file \in Files : stream[file] # NULL =>
        Told(seen[file], lines[stream[file].inode], stream[file].at)

IInv == Typed /\ Placed /\ Begun /\ Returned

LEMMA TypesAre == AccountsTypeOK <=> Typed /\ Placed
<1>1. Placed <=> \A s \in Streams : At(s, lines)
  BY DEF Placed, Streams
<1> QED BY <1>1 DEF AccountsTypeOK, Typed, At, Contents

LEMMA IInvImplies == IInv => AccountsTypeOK /\ EnumeratedOnce
<1> SUFFICES ASSUME IInv PROVE AccountsTypeOK /\ EnumeratedOnce
  OBVIOUS
<1>1. EnumeratedOnce <=> Returned
  <2>1. ASSUME NEW file \in Files, stream[file] # NULL
        PROVE  LET e == Entries(lines[stream[file].inode], stream[file].at)
               IN  Told(seen[file], lines[stream[file].inode], stream[file].at) <=>
                     /\ Len(seen[file]) = Len(e)
                     /\ \A i \in DOMAIN e : seen[file][i] # NULL =>
                           seen[file][i].name = e[i].name /\ seen[file][i].id = e[i].id
    <3>1. lines[stream[file].inode] \in Contents
          /\ stream[file].at \in 0..Len(lines[stream[file].inode])
      BY <2>1 DEF IInv, Typed, Placed, At
    <3>2. seen[file] \in Seq(EntryFields \cup {NULL})
      BY DEF IInv, Typed
    <3> QED BY <3>1, <3>2, ToldIs
  <2> QED BY <2>1 DEF EnumeratedOnce, Returned
<1> QED BY <1>1, TypesAre DEF IInv

(***************************************************************************)
(* Contents only grow at their end, or are new.                            *)
(***************************************************************************)
Grown(contents, others) ==
    /\ others \in Seq(Contents) /\ Len(contents) <= Len(others)
    /\ \A i \in DOMAIN contents : Kept(contents[i], others[i])

LEMMA GrownSame == \A contents \in Seq(Contents) : Grown(contents, contents)
<1> TAKE contents \in Seq(Contents)
<1>1. Len(contents) <= Len(contents)
  OBVIOUS
<1>2. ASSUME NEW i \in DOMAIN contents PROVE Kept(contents[i], contents[i])
  <2>1. contents[i] \in Contents
    OBVIOUS
  <2>2. Len(contents[i]) <= Len(contents[i])
    BY <2>1 DEF Contents
  <2> QED BY <2>2 DEF Kept
<1> QED BY <1>1, <1>2 DEF Grown

LEMMA GrownAt ==
    ASSUME NEW contents \in Seq(Contents), NEW others, Grown(contents, others), NEW s, At(s, contents)
    PROVE  At(s, others)
<1>1. s.inode \in DOMAIN others /\ s.inode \in DOMAIN contents
  BY DEF At, Grown
<1>2. contents[s.inode] \in Contents /\ others[s.inode] \in Contents
      /\ Len(contents[s.inode]) <= Len(others[s.inode])
  BY <1>1 DEF Grown, Kept
<1>3. s.at \in 0..Len(contents[s.inode])
  BY DEF At
<1>4. Len(contents[s.inode]) \in Nat /\ Len(others[s.inode]) \in Nat
  BY <1>2 DEF Contents
<1>5. s.at \in 0..Len(others[s.inode])
  BY <1>2, <1>3, <1>4
<1> QED BY <1>1, <1>5 DEF At

(***************************************************************************)
(* What has been returned stays true of contents that grow.                *)
(***************************************************************************)
LEMMA StreamsStay ==
    ASSUME IInv, stream' = stream, seen' = seen, Grown(lines, lines'),
           own' # NULL => At(own'.s, lines')
    PROVE  Placed' /\ Begun' /\ Returned'
<1>1. lines \in Seq(Contents)
  BY DEF IInv, Typed
<1>2. ASSUME NEW file \in Files, stream[file] # NULL
      PROVE  /\ At(stream[file], lines')
             /\ Told(seen[file], lines'[stream[file].inode], stream[file].at)
  <2> DEFINE s == stream[file]
  <2>1. At(s, lines) /\ Told(seen[file], lines[s.inode], s.at)
    BY <1>2 DEF IInv, Placed, Returned
  <2> HIDE DEF s
  <2>2. At(s, lines')
    BY <1>1, <2>1, GrownAt
  <2>3. s.inode \in DOMAIN lines /\ s.inode \in DOMAIN lines' /\ s.at \in 0..Len(lines[s.inode])
    BY <2>1, <2>2 DEF At
  <2>4. lines[s.inode] \in Contents /\ lines'[s.inode] \in Contents
        /\ Kept(lines[s.inode], lines'[s.inode])
    BY <1>1, <2>3 DEF Grown
  <2>5. Told(seen[file], lines'[s.inode], s.at)
    BY <2>1, <2>3, <2>4, ToldKept
  <2> QED BY <2>2, <2>5 DEF s
<1>3. Placed'
  BY <1>2 DEF Placed
<1>4. Returned'
  BY <1>2 DEF Returned
<1>5. Begun'
  BY DEF IInv, Begun
<1> QED BY <1>3, <1>4, <1>5

LEMMA AskingTyped ==
    ASSUME IInv, NEW user, NEW gid \in Nat, NEW ngroups \in Nat, NEW nomem
    PROVE  getgrouplist(user, gid, ngroups, nomem).n \in Nat
<1> DEFINE group == lines[etc[root]["group"]]
           S == {l \in ToSet(group) : l.ok /\ user \in ToSet(Entry(l).last)}
           of == Only(group, S)
           ids == [i \in DOMAIN of |-> of[i].id]
<1>1. group \in Contents
  <2>1. etc[root]["group"] \in DOMAIN lines
    BY DEF IInv, Typed, Files
  <2> QED BY <2>1 DEF IInv, Typed
<1> HIDE DEF S, group
<1>2. of \in Contents
  BY <1>1, OnlyPicks DEF Contents
<1> HIDE DEF of
<1>3. ids \in Seq(Nat)
  <2>1. \A i \in DOMAIN of : of[i].id \in Nat
    BY <1>2, LineTyped DEF Contents
  <2>2. Len(of) \in Nat /\ DOMAIN of = 1..Len(of)
    BY <1>2 DEF Contents
  <2> QED BY <2>1, <2>2
<1>4. <<gid>> \o ids \in Seq(Nat)
  BY <1>3
<1>5. GroupsOf(user, gid) = <<gid>> \o ids
  BY DEF GroupsOf, of, S, group
<1>6. Len(GroupsOf(user, gid)) \in Nat
  BY <1>4, <1>5
<1> QED BY <1>6 DEF getgrouplist

(***************************************************************************)
(* A stream that is opened is at the beginning of a content, and nothing   *)
(* has been returned from it.                                              *)
(***************************************************************************)
LEMMA StreamIs ==
    ASSUME IInv, NEW file \in Files
    PROVE  /\ Open(file) \in StreamFields /\ At(Open(file), lines)
           /\ Stream(file) \in StreamFields /\ At(Stream(file), lines)
           /\ Told(seen[file], lines[Stream(file).inode], Stream(file).at)
<1> DEFINE inode == etc[root][file]
<1>1. inode \in DOMAIN lines /\ inode \in Nat /\ lines[inode] \in Contents
  BY DEF IInv, Typed
<1>2. /\ Open(file) \in StreamFields /\ Open(file).inode = inode /\ Open(file).at = 0
      /\ At(Open(file), lines)
  <2> HIDE DEF inode
  <2>1. Open(file) = [inode |-> inode, at |-> 0, eof |-> FALSE]
    BY DEF Open, inode
  <2>2. Open(file) \in StreamFields /\ Open(file).inode = inode /\ Open(file).at = 0
    BY <1>1, <2>1 DEF StreamFields
  <2>3. 0 \in 0..Len(lines[inode])
    BY <1>1 DEF Contents
  <2> QED BY <1>1, <2>2, <2>3 DEF At
<1>3. CASE stream[file] = NULL
  <2>1. Stream(file) = Open(file) /\ seen[file] = <<>>
    BY <1>3 DEF Stream, IInv, Begun
  <2>2. Places(lines[inode], 0) = <<>>
    BY <1>1, PlacesStep
  <2>3. Told(<<>>, lines[inode], 0)
    BY <2>2 DEF Told
  <2> QED BY <1>2, <2>1, <2>3
<1>4. CASE stream[file] # NULL
  <2>1. Stream(file) = stream[file] /\ stream[file] \in StreamFields
    BY <1>4 DEF Stream, IInv, Typed
  <2>2. At(stream[file], lines) /\ Told(seen[file], lines[stream[file].inode], stream[file].at)
    BY <1>4 DEF IInv, Placed, Returned
  <2> QED BY <1>2, <2>1, <2>2
<1> QED BY <1>3, <1>4

(***************************************************************************)
(* A step of an enumeration, whichever entry it returns.                   *)
(***************************************************************************)
LEMMA EnumeratedStep ==
    ASSUME IInv, NEW file \in Files, NEW next, Enumerated(file, next),
           Reads(next, Stream(file), lines[Stream(file).inode]),
           file = "passwd" /\ next.line => next.res # NULL
    PROVE  IInv'
<1> DEFINE s == Stream(file)
           content == lines[s.inode]
           more == IF next.line THEN Append(seen[file], next.res) ELSE seen[file]
<1>1. s \in StreamFields /\ At(s, lines) /\ Told(seen[file], content, s.at)
  BY StreamIs
<1>2. content \in Contents /\ s.at \in 0..Len(content)
  BY <1>1 DEF At, IInv, Typed
<1>3. Reads(next, s, content)
  OBVIOUS
<1>4. seen[file] \in Seq(EntryFields \cup {NULL})
  BY DEF IInv, Typed
<1> HIDE DEF content, s
<1>5. more \in Seq(EntryFields \cup {NULL}) /\ Told(more, content, next.s.at)
  <2>1. CASE next.line
    <3>1. /\ next.s.at \in 1..Len(content)
          /\ Places(content, next.s.at) = Append(Places(content, s.at), next.s.at)
          /\ next.res \in {Entry(content[next.s.at]), NULL}
      BY <1>3, <2>1 DEF Reads
    <3> QED BY <1>1, <1>2, <1>4, <2>1, <3>1, ToldMore
  <2>2. CASE ~next.line
    <3>1. Places(content, next.s.at) = Places(content, s.at)
      BY <1>3, <2>2 DEF Reads
    <3>2. Told(seen[file], content, next.s.at)
      BY <1>1, <3>1 DEF Told
    <3> QED BY <1>4, <2>2, <3>2
  <2> QED BY <2>1, <2>2
<1>6. /\ next.s \in StreamFields /\ next.s # NULL /\ At(next.s, lines)
      /\ lines[next.s.inode] = content
  BY <1>1, <1>3, AccountsAssumption DEF Reads, At, content
<1>7. /\ stream' = [stream EXCEPT ![file] = next.s] /\ seen' = [seen EXCEPT ![file] = more]
      /\ UNCHANGED <<root, etc, lines, readable, own, asking, shadow>>
  BY DEF Enumerated
<1>8. file = "passwd" => \A i \in DOMAIN more : more[i] # NULL
  <2>1. file = "passwd" => \A i \in DOMAIN seen[file] : seen[file][i] # NULL
    BY DEF IInv, Begun
  <2>2. CASE next.line
    <3>1. next.res \in EntryFields \cup {NULL}
      <4>1. next.s.at \in 1..Len(content) /\ next.res \in {Entry(content[next.s.at]), NULL}
        BY <1>3, <2>2 DEF Reads
      <4>2. content[next.s.at] \in Lines
        BY <1>2, <4>1 DEF Contents
      <4> QED BY <4>1, <4>2, EntryIs
    <3>2. \A i \in DOMAIN more : (i \in DOMAIN seen[file] /\ more[i] = seen[file][i])
                                 \/ more[i] = next.res
      BY <1>4, <2>2, <3>1
    <3> QED BY <2>1, <2>2, <3>2
  <2>3. CASE ~next.line
    BY <2>1, <2>3
  <2> QED BY <2>2, <2>3
<1> HIDE DEF more
<1>9. Typed'
  BY <1>5, <1>6, <1>7 DEF IInv, Typed
<1>10. stream'[file] = next.s /\ seen'[file] = more
       /\ \A f \in Files \ {file} : stream'[f] = stream[f] /\ seen'[f] = seen[f]
  BY <1>7 DEF IInv, Typed
<1>11. Placed'
  BY <1>6, <1>7, <1>10 DEF IInv, Placed
<1>12. Begun'
  <2>1. \A f \in Files : stream'[f] = NULL => seen'[f] = <<>>
    BY <1>6, <1>10 DEF IInv, Begun
  <2>2. \A i \in DOMAIN seen'["passwd"] : seen'["passwd"][i] # NULL
    <3>1. CASE file = "passwd"
      BY <1>8, <1>10, <3>1
    <3>2. CASE file # "passwd"
      <4>1. "passwd" \in Files
        BY DEF Files
      <4>2. seen'["passwd"] = seen["passwd"]
        BY <1>10, <3>2, <4>1
      <4> QED BY <4>2 DEF IInv, Begun
    <3> QED BY <3>1, <3>2
  <2> QED BY <2>1, <2>2 DEF Begun
<1>13. Returned'
  <2>1. ASSUME NEW f \in Files, stream'[f] # NULL
        PROVE  Told(seen'[f], lines'[stream'[f].inode], stream'[f].at)
    <3>1. CASE f = file
      BY <1>5, <1>6, <1>7, <1>10, <3>1
    <3>2. CASE f # file
      <4>1. stream'[f] = stream[f] /\ seen'[f] = seen[f] /\ lines' = lines
        BY <1>7, <1>10, <3>2
      <4> QED BY <2>1, <4>1 DEF IInv, Returned
    <3> QED BY <3>1, <3>2
  <2> QED BY <2>1 DEF Returned
<1> QED BY <1>9, <1>11, <1>12, <1>13 DEF IInv

LEMMA RewindStep ==
    ASSUME IInv, NEW file \in Files, Rewind(file)
    PROVE  IInv'
<1>1. /\ stream' = [stream EXCEPT ![file] = NULL] /\ seen' = [seen EXCEPT ![file] = <<>>]
      /\ UNCHANGED <<root, etc, lines, readable, own, asking, shadow>>
  BY DEF Rewind
<1>2. Typed'
  BY <1>1 DEF IInv, Typed
<1>3. stream'[file] = NULL /\ seen'[file] = <<>>
      /\ \A f \in Files \ {file} : stream'[f] = stream[f] /\ seen'[f] = seen[f]
  BY <1>1 DEF IInv, Typed
<1>4. Placed'
  BY <1>1, <1>3 DEF IInv, Placed
<1>5. Returned'
  BY <1>1, <1>3 DEF IInv, Returned
<1>6. Begun'
  <2>1. \A f \in Files : stream'[f] = NULL => seen'[f] = <<>>
    BY <1>3 DEF IInv, Begun
  <2>2. "passwd" \in Files
    BY DEF Files
  <2>3. seen'["passwd"] = <<>> \/ seen'["passwd"] = seen["passwd"]
    BY <1>3, <2>2
  <2>4. \A i \in DOMAIN seen'["passwd"] : seen'["passwd"][i] # NULL
    BY <2>3 DEF IInv, Begun
  <2> QED BY <2>1, <2>4 DEF Begun
<1> QED BY <1>2, <1>4, <1>5, <1>6 DEF IInv

(***************************************************************************)
(* The streams of the program.                                             *)
(***************************************************************************)
LEMMA OwnStep ==
    ASSUME IInv, own' \in OwnFields \cup {NULL}, own' # NULL => At(own'.s, lines),
           UNCHANGED <<root, etc, lines, readable, stream, seen, asking, shadow>>
    PROVE  IInv'
<1>1. lines' = lines /\ stream' = stream /\ seen' = seen /\ lines \in Seq(Contents)
  BY DEF IInv, Typed
<1>2. Grown(lines, lines')
  BY <1>1, GrownSame
<1>3. own' # NULL => At(own'.s, lines')
  BY <1>1
<1>4. Placed' /\ Begun' /\ Returned'
  BY <1>1, <1>2, <1>3, StreamsStay
<1>5. Typed'
  BY DEF IInv, Typed
<1> QED BY <1>4, <1>5 DEF IInv

LEMMA FgetentStep ==
    ASSUME IInv, NEW file, NEW next, own # NULL, Fgetent(file, next),
           Reads(next, own.s, lines[own.s.inode])
    PROVE  IInv'
<1>1. own \in OwnFields /\ own.s \in StreamFields /\ At(own.s, lines)
  BY DEF IInv, Typed, Placed, OwnFields
<1>2. /\ own' = [own EXCEPT !.s = next.s]
      /\ UNCHANGED <<root, etc, lines, readable, stream, seen, asking, shadow>>
  BY DEF Fgetent
<1>3. next.s \in StreamFields /\ At(next.s, lines)
  BY <1>1 DEF Reads, At
<1>4. own' \in OwnFields /\ own'.s = next.s
  BY <1>1, <1>2, <1>3 DEF OwnFields
<1> QED BY <1>2, <1>3, <1>4, OwnStep

LEMMA FopenStep ==
    ASSUME IInv, NEW file \in Files, fopen(file)
    PROVE  IInv'
<1>1. Open(file) \in StreamFields /\ At(Open(file), lines)
  BY StreamIs
<1>2. /\ own' = [file |-> file, s |-> Open(file)]
      /\ UNCHANGED <<root, etc, lines, readable, stream, seen, asking, shadow>>
  BY DEF fopen
<1> DEFINE s == Open(file)
<1> HIDE DEF s
<1>3. own' \in OwnFields /\ own'.s = s
  <2>1. own' = [file |-> file, s |-> s] /\ s \in StreamFields
    BY <1>1, <1>2 DEF s
  <2> QED BY <2>1 DEF OwnFields
<1> QED BY <1>1, <1>2, <1>3, OwnStep DEF s

(***************************************************************************)
(* What others write, and the steps that touch no stream.                  *)
(***************************************************************************)
LEMMA PutentStep ==
    ASSUME IInv, NEW file \in Files, NEW line \in Written, Putent(file, line)
    PROVE  IInv'
<1> DEFINE inode == etc[root][file]
           content == Appended(lines[inode], line)
<1>1. lines \in Seq(Contents) /\ inode \in DOMAIN lines /\ lines[inode] \in Contents
  BY DEF IInv, Typed
<1>2. content \in Contents /\ Kept(lines[inode], content)
  BY <1>1, AppendedKeeps
<1>3. /\ lines' = [lines EXCEPT ![inode] = content]
      /\ UNCHANGED <<root, etc, readable, stream, own, seen, asking, shadow>>
  BY DEF Putent
<1> HIDE DEF content, inode
<1>4. /\ lines' \in Seq(Contents) /\ DOMAIN lines' = DOMAIN lines /\ Len(lines') = Len(lines)
      /\ lines'[inode] = content /\ \A i \in DOMAIN lines : i # inode => lines'[i] = lines[i]
  BY <1>1, <1>2, <1>3
<1>5. Grown(lines, lines')
  <2>1. Grown(lines, lines)
    BY <1>1, GrownSame
  <2>2. \A i \in DOMAIN lines : Kept(lines[i], lines'[i])
    BY <1>2, <1>4, <2>1 DEF Grown
  <2> QED BY <1>4, <2>1, <2>2 DEF Grown
<1>6. own' # NULL => At(own'.s, lines')
  BY <1>1, <1>3, <1>5, GrownAt DEF IInv, Placed
<1>7. Placed' /\ Begun' /\ Returned'
  BY <1>3, <1>5, <1>6, StreamsStay
<1>8. Typed'
  BY <1>3, <1>4 DEF IInv, Typed
<1> QED BY <1>7, <1>8 DEF IInv

LEMMA NewInodeStep ==
    ASSUME IInv, NEW file \in Files, NewInode(file)
    PROVE  IInv'
<1> DEFINE content == Replacing[file]
<1>1. lines \in Seq(Contents) /\ Len(lines) \in Nat /\ content \in Contents
  BY AccountsAssumption DEF IInv, Typed, Contents
<1>2. /\ lines' = Append(lines, content)
      /\ etc' = [etc EXCEPT ![root][file] = Len(lines) + 1]
      /\ UNCHANGED <<root, readable, stream, own, seen, asking, shadow>>
  BY DEF NewInode
<1> HIDE DEF content
<1>3. /\ lines' \in Seq(Contents) /\ Len(lines') = Len(lines) + 1
      /\ DOMAIN lines' = 1..(Len(lines) + 1) /\ DOMAIN lines = 1..Len(lines)
      /\ \A i \in DOMAIN lines : lines'[i] = lines[i]
  BY <1>1, <1>2
<1>4. Grown(lines, lines')
  <2>1. Grown(lines, lines)
    BY <1>1, GrownSame
  <2>2. Len(lines) <= Len(lines')
    BY <1>1, <1>3
  <2> QED BY <1>3, <2>1, <2>2 DEF Grown
<1>5. own' # NULL => At(own'.s, lines')
  BY <1>1, <1>2, <1>4, GrownAt DEF IInv, Placed
<1>6. Placed' /\ Begun' /\ Returned'
  BY <1>2, <1>4, <1>5, StreamsStay
<1>7. etc' \in [Roots -> [Files -> DOMAIN lines']]
  <2>1. DOMAIN lines \subseteq DOMAIN lines' /\ Len(lines) + 1 \in DOMAIN lines'
    BY <1>1, <1>3
  <2>2. etc \in [Roots -> [Files -> DOMAIN lines']]
    BY <2>1 DEF IInv, Typed
  <2>3. root \in Roots
    BY DEF IInv, Typed
  <2> QED BY <1>2, <2>1, <2>2, <2>3
<1>8. Typed'
  BY <1>2, <1>3, <1>7 DEF IInv, Typed
<1> QED BY <1>6, <1>8 DEF IInv

LEMMA OtherStep ==
    ASSUME IInv, Typed', UNCHANGED <<lines, stream, own, seen>>
    PROVE  IInv'
<1>1. lines \in Seq(Contents)
  BY DEF IInv, Typed
<1>2. Grown(lines, lines')
  BY <1>1, GrownSame
<1>3. own' # NULL => At(own'.s, lines')
  BY DEF IInv, Placed
<1>4. Placed' /\ Begun' /\ Returned'
  BY <1>2, <1>3, StreamsStay
<1> QED BY <1>4 DEF IInv

LEMMA AskAgainStep ==
    ASSUME IInv, NEW nomem \in BOOLEAN, AskAgain(nomem)
    PROVE  IInv'
<1>1. asking \in AskingFields /\ asking.user \in Users /\ asking.n \in Nat
  BY DEF AskAgain, IInv, Typed, AskingFields
<1>2. PICK call \in {getgrouplist(asking.user, 0, asking.n, nomem)} :
          asking' = IF call.ok THEN NULL ELSE [asking EXCEPT !.n = call.n]
  BY DEF AskAgain
<1>3. call.n \in Nat
  BY <1>1, <1>2, AskingTyped
<1>4. [asking EXCEPT !.n = call.n] \in AskingFields
  BY <1>1, <1>3 DEF AskingFields
<1>5. asking' \in AskingFields \cup {NULL}
  BY <1>2, <1>4
<1>6. UNCHANGED <<root, etc, lines, readable, stream, own, seen, shadow>>
  BY DEF AskAgain
<1>7. Typed'
  BY <1>5, <1>6 DEF IInv, Typed
<1> QED BY <1>6, <1>7, OtherStep

LEMMA InitIInv == Init => IInv
<1> SUFFICES ASSUME Init PROVE IInv
  OBVIOUS
<1>1. Typed
  <2>1. lines \in Seq(Contents) /\ etc \in [Roots -> [Files -> DOMAIN lines]]
    BY AccountsAssumption DEF Init, Contents
  <2>2. <<>> \in Seq(EntryFields \cup {NULL})
    OBVIOUS
  <2> QED BY <2>1, <2>2 DEF Init, Typed
<1>2. Placed /\ Returned
  BY DEF Init, Placed, Returned
<1>3. Begun
  <2>1. "passwd" \in Files
    BY DEF Files
  <2>2. seen["passwd"] = <<>>
    BY <2>1 DEF Init
  <2> QED BY <2>2 DEF Init, Begun
<1> QED BY <1>1, <1>2, <1>3 DEF IInv

LEMMA NextIInv == IInv /\ [Next]_vars => IInv'
<1> SUFFICES ASSUME IInv, [Next]_vars PROVE IInv'
  OBVIOUS
<1> USE DEF IInv
<1>1. "passwd" \in Files /\ "group" \in Files
  BY DEF Files
<1>2. lines \in Seq(Contents)
  BY DEF Typed
<1>3. CASE setpwent \/ endpwent \/ setgrent \/ endgrent
  <2>1. Rewind("passwd") \/ Rewind("group")
    BY <1>3 DEF setpwent, endpwent, setgrent, endgrent
  <2> QED BY <1>1, <2>1, RewindStep
<1>4. CASE getpwent
  <2> DEFINE next == __getpwent_a(Stream("passwd"))
  <2>1. Enumerated("passwd", next)
    BY <1>4 DEF getpwent
  <2>2. Reads(next, Stream("passwd"), lines[Stream("passwd").inode])
        /\ (next.line => next.res # NULL)
    BY <1>1, <1>2, StreamIs, NextLineReads DEF __getpwent_a
  <2> QED BY <1>1, <2>1, <2>2, EnumeratedStep
<1>5. CASE getgrent
  <2>1. PICK nomem \in BOOLEAN : Enumerated("group", __getgrent_a(Stream("group"), nomem))
    BY <1>5 DEF getgrent
  <2>2. Reads(__getgrent_a(Stream("group"), nomem), Stream("group"), lines[Stream("group").inode])
    BY <1>1, <1>2, StreamIs, GrentReads
  <2>3. "group" # "passwd"
    OBVIOUS
  <2> QED BY <1>1, <2>1, <2>2, <2>3, EnumeratedStep
<1>6. ASSUME NEW file \in Files, fopen(file) PROVE IInv'
  BY <1>6, FopenStep
<1>7. ASSUME NEW file \in Files, NewInode(file) PROVE IInv'
  BY <1>7, NewInodeStep
<1>8. CASE fclose
  <2>1. own' = NULL /\ UNCHANGED <<root, etc, lines, readable, stream, seen, asking, shadow>>
    BY <1>8 DEF fclose
  <2> QED BY <2>1, OwnStep
<1>9. own # NULL => own.s \in StreamFields /\ At(own.s, lines)
  BY DEF Typed, Placed, OwnFields
<1>10. CASE fgetpwent
  <2>1. own # NULL /\ Fgetent("passwd", __getpwent_a(own.s))
    BY <1>10 DEF fgetpwent
  <2>2. Reads(__getpwent_a(own.s), own.s, lines[own.s.inode])
    BY <1>2, <1>9, <2>1, NextLineReads DEF __getpwent_a
  <2> QED BY <2>1, <2>2, FgetentStep
<1>11. CASE fgetgrent
  <2>1. own # NULL
    BY <1>11 DEF fgetgrent
  <2>2. PICK nomem \in BOOLEAN : Fgetent("group", __getgrent_a(own.s, nomem))
    BY <1>11 DEF fgetgrent
  <2>3. Reads(__getgrent_a(own.s, nomem), own.s, lines[own.s.inode])
    BY <1>2, <1>9, <2>1, GrentReads
  <2> QED BY <2>1, <2>2, <2>3, FgetentStep
<1>12. CASE putpwent(Put["passwd"]) \/ putgrent(Put["group"])
  <2>1. Put["passwd"] \in Written /\ Put["group"] \in Written
    BY <1>1, AccountsAssumption
  <2> QED BY <1>1, <1>12, <2>1, PutentStep DEF putpwent, putgrent
<1>13. CASE Chmod
  <2>1. readable' \in BOOLEAN /\ UNCHANGED <<root, etc, lines, stream, own, seen, asking, shadow>>
    BY <1>13 DEF Chmod
  <2>2. Typed'
    BY <2>1 DEF Typed
  <2> QED BY <2>1, <2>2, OtherStep
<1>14. ASSUME NEW path \in Roots, chroot(path) PROVE IInv'
  <2>1. root' = path /\ UNCHANGED <<etc, lines, readable, stream, own, seen, asking, shadow>>
    BY <1>14 DEF chroot
  <2>2. Typed'
    BY <2>1 DEF Typed
  <2> QED BY <2>1, <2>2, OtherStep
<1>15. ASSUME NEW user \in Users, NEW n \in Guesses, Ask(user, n) PROVE IInv'
  <2>1. asking' = [user |-> user, n |-> n]
        /\ UNCHANGED <<root, etc, lines, readable, stream, own, seen, shadow>>
    BY <1>15 DEF Ask
  <2>2. n \in Nat
    BY AccountsAssumption
  <2>3. asking' \in AskingFields
    BY <2>1, <2>2 DEF AskingFields
  <2>4. Typed'
    BY <2>1, <2>3 DEF Typed
  <2> QED BY <2>1, <2>4, OtherStep
<1>16. ASSUME NEW nomem \in BOOLEAN, AskAgain(nomem) PROVE IInv'
  BY <1>16, AskAgainStep
<1>17. ASSUME NEW content \in Shadows \cup {<<>>}, NewShadow(content) PROVE IInv'
  <2>1. shadow' = content
        /\ UNCHANGED <<root, etc, lines, readable, stream, own, seen, asking>>
    BY <1>17 DEF NewShadow
  <2>2. Typed'
    BY <2>1 DEF Typed
  <2> QED BY <2>1, <2>2, OtherStep
<1>18. CASE UNCHANGED vars
  <2>1. UNCHANGED <<root, etc, lines, readable, stream, own, seen, asking, shadow>>
    BY <1>18 DEF vars
  <2>2. Typed'
    BY <2>1 DEF Typed
  <2> QED BY <2>1, <2>2, OtherStep
<1>19. CASE Others
  BY <1>3, <1>4, <1>5, <1>6, <1>7, <1>8, <1>10, <1>11, <1>12, <1>13, <1>14, <1>15, <1>16, <1>19
  DEF Others
<1> QED BY <1>17, <1>18, <1>19 DEF Next

LEMMA Invariant == Spec => []IInv
<1> QED BY InitIInv, NextIInv, PTL DEF Spec

(***************************************************************************)
(* The state of passwd.c and group.c is well typed: no stream is past the  *)
(* end of its file, whatever appends to it or replaces it.                 *)
(***************************************************************************)
THEOREM AccountsTyping == Spec => []AccountsTypeOK
BY Invariant, IInvImplies, PTL

(***************************************************************************)
(* getpwent() and getgrent() return every entry of the file they opened,   *)
(* once and in order, whatever else the process and others do meanwhile.   *)
(***************************************************************************)
THEOREM Enumeration == Spec => []EnumeratedOnce
BY Invariant, IInvImplies, PTL

-----------------------------------------------------------------------------
(* The lookups *)

(***************************************************************************)
(* What is found by a name is the entry of a line of that name, and        *)
(* nothing is found only when there is no such line.                       *)
(***************************************************************************)
FoundIn(content, name, e) ==
    /\ e \in EntryFields /\ e \in ToSet(AllEntries(content))
    /\ \E i \in 1..Len(content) :
          content[i].ok /\ content[i].name = name /\ Entry(content[i]) = e

LEMMA FoundByName ==
    ASSUME NEW content \in Contents, NEW name \in Users
    PROVE  LET entries == AllEntries(content)
               e       == First(entries, Matches(entries, name, 0))
           IN  IF e = NULL THEN \A i \in 1..Len(content) : content[i].ok => content[i].name # name
               ELSE FoundIn(content, name, e)
<1> DEFINE entries == AllEntries(content)
           found   == Matches(entries, name, 0)
           p       == Places(content, Len(content))
<1>1. Len(content) \in 0..Len(content) /\ Len(content) \in Nat /\ name # NULL
  BY AccountsAssumption DEF Contents
<1>2. /\ entries \in Seq(EntryFields) /\ Len(entries) = Len(p)
      /\ \A i \in 1..Len(p) : /\ p[i] \in 1..Len(content) /\ content[p[i]] \in Lines
                              /\ entries[i] = Entry(content[p[i]])
  BY <1>1, EntriesAre DEF AllEntries
<1> HIDE DEF entries
<1>3. CASE found = {}
  <2>1. First(entries, found) = NULL
    BY <1>3 DEF First
  <2>2. ASSUME NEW i \in 1..Len(content), content[i].ok PROVE content[i].name # name
    <3>1. PICK j \in 1..Len(p) : p[j] = i
      BY <1>1, <2>2, PlacesAll
    <3>2. entries[j] = Entry(content[i]) /\ content[i] \in Lines /\ j \in DOMAIN entries
      BY <1>2, <3>1
    <3>3. j \notin found
      BY <1>3
    <3>4. entries[j].name # name
      BY <1>1, <3>2, <3>3 DEF Matches
    <3> QED BY <3>2, <3>4, EntryIs
  <2> HIDE DEF found, p
  <2> QED BY <2>1, <2>2 DEF entries, found
<1>4. CASE found # {}
  <2> DEFINE m == Min(found)
  <2>1. found \in SUBSET Nat
    BY <1>2 DEF Matches
  <2>2. m \in found
    BY <1>4, <2>1, MinIs
  <2> HIDE DEF m
  <2>3. m \in DOMAIN entries /\ entries[m].name = name
    BY <1>1, <2>2 DEF Matches
  <2>4. First(entries, found) = entries[m]
    BY <1>4 DEF First, m
  <2>5. m \in 1..Len(p) /\ entries[m] \in EntryFields /\ entries[m] \in ToSet(entries)
    BY <1>2, <2>3 DEF ToSet
  <2>6. /\ p[m] \in 1..Len(content) /\ content[p[m]] \in Lines
        /\ entries[m] = Entry(content[p[m]])
    BY <1>2, <2>5
  <2>7. content[p[m]].name = name
    BY <2>3, <2>6, EntryIs
  <2>8. content[p[m]].ok
    <3>1. \A k \in Nat : k <= Len(content) =>
             \A i \in 1..Len(Places(content, k)) : content[Places(content, k)[i]].ok
      BY PlacesAreGood
    <3> HIDE DEF p
    <3> QED BY <1>1, <2>5, <3>1 DEF p
  <2> HIDE DEF found
  <2>9. FoundIn(content, name, entries[m])
    BY <2>5, <2>6, <2>7, <2>8 DEF FoundIn, entries
  <2>10. entries[m] # NULL
    BY <2>5, AccountsAssumption
  <2> QED BY <2>4, <2>9, <2>10 DEF entries, found
<1> QED BY <1>3, <1>4

\* The larger of two numbers is one of them.
LEMMA LargerIs ==
    ASSUME NEW a \in Nat, NEW b \in Nat
    PROVE  Max({a, b}) \in {a, b} /\ Max({a, b}) >= a /\ Max({a, b}) >= b
<1>1. \E x \in {a, b} : \A y \in {a, b} : x >= y
  OBVIOUS
<1> QED BY <1>1 DEF Max

(***************************************************************************)
(* What getline() may have allocated is what it begins with, or at most    *)
(* twice what some line of the file takes.                                 *)
(***************************************************************************)
LEMMA CapacityIs ==
    ASSUME NEW content \in Contents, NEW e, NEW len \in Capacities(content, e)
    PROVE  /\ len \in Nat
           /\ \/ len <= LineMin
              \/ \E i \in 1..Len(content) : content[i].len \in Nat /\ len <= 2 * content[i].len
<1> DEFINE K == Len(content)
           read == ReadUntil(content, e)
           f == [i \in 1..(K + 1) |-> IF i \in read THEN content[i].len ELSE 0]
           T == {f[i] : i \in 1..(K + 1)}
           longest == Max({0} \cup {content[i].len : i \in read})
<1>1. K \in Nat /\ DOMAIN content = 1..K /\ \A i \in 1..K : content[i].len \in Nat
  <2>1. \A i \in 1..K : content[i] \in Lines
    BY DEF Contents
  <2> QED BY <2>1, LineTyped DEF Contents
<1>2. read \subseteq 1..K
  BY <1>1 DEF ReadUntil
<1> HIDE DEF K, read
<1>3. K + 1 \in Nat \ {0} /\ f \in [1..(K + 1) -> Nat]
  BY <1>1, <1>2
<1>4. Max(T) \in T
  <2> HIDE DEF f
  <2> QED BY <1>3, MaxIs
<1>5. T = {0} \cup {content[i].len : i \in read}
  <2>1. K + 1 \in 1..(K + 1) /\ K + 1 \notin read
    BY <1>1, <1>2
  <2>2. f[K + 1] = 0
    BY <2>1
  <2>3. \A i \in read : i \in 1..(K + 1) /\ f[i] = content[i].len
    BY <1>1, <1>2
  <2>4. \A i \in 1..(K + 1) : f[i] = 0 \/ (i \in read /\ f[i] = content[i].len)
    OBVIOUS
  <2> HIDE DEF f
  <2> QED BY <2>1, <2>2, <2>3, <2>4
<1>6. longest \in Nat /\ (longest = 0 \/ \E i \in 1..K : content[i].len = longest)
  <2>1. longest \in {0} \cup {content[i].len : i \in read}
    BY <1>4, <1>5
  <2> QED BY <1>1, <1>2, <2>1
<1>7. len \in Max({LineMin, longest + 1})..Max({LineMin, 2 * longest})
  BY DEF Capacities, read
<1> HIDE DEF longest
<1>8. LineMin \in Nat /\ longest + 1 \in Nat /\ 2 * longest \in Nat
  BY <1>6, BufferAssumption
<1>9. Max({LineMin, longest + 1}) \in Nat
      /\ Max({LineMin, 2 * longest}) \in {LineMin, 2 * longest}
  BY <1>8, LargerIs
<1>10. len \in Nat /\ (len <= LineMin \/ len <= 2 * longest)
  BY <1>7, <1>8, <1>9
<1>11. ASSUME ~(len <= LineMin)
       PROVE  \E i \in 1..K : content[i].len \in Nat /\ len <= 2 * content[i].len
  <2>1. longest # 0
    BY <1>8, <1>10, <1>11
  <2>2. PICK i \in 1..K : content[i].len = longest
    BY <1>6, <2>1
  <2> QED BY <1>1, <1>10, <1>11, <2>2
<1> QED BY <1>10, <1>11 DEF K

(***************************************************************************)
(* The lookups of the two files.                                           *)
(***************************************************************************)
LooksIn(content, name, e) ==
    IF e = NULL THEN \A i \in 1..Len(content) : content[i].ok => content[i].name # name
    ELSE FoundIn(content, name, e)

LEMMA LooksUp ==
    ASSUME IInv, NEW name \in Users
    PROVE  /\ lines[etc[root]["passwd"]] \in Contents /\ lines[etc[root]["group"]] \in Contents
           /\ LooksIn(lines[etc[root]["passwd"]], name, __getpw_a(name, 0))
           /\ readable => LooksIn(lines[etc[root]["group"]], name, __getgr_a(name, 0))
<1>1. lines[etc[root]["passwd"]] \in Contents /\ lines[etc[root]["group"]] \in Contents
  BY DEF IInv, Typed, Files
<1> QED BY <1>1, FoundByName DEF __getpw_a, __getgr_a, LooksIn

LEMMA LookupsHold == IInv => LookupsAgree
<1> DEFINE s == stream["passwd"]
           content == lines[s.inode]
           returned == seen["passwd"]
           p == Places(content, s.at)
           q == Places(content, Len(content))
           entries == AllEntries(content)
<1> SUFFICES ASSUME IInv, s # NULL, s.inode = etc[root]["passwd"], NEW name \in Users,
                    First(returned, Matches(returned, name, 0)) # NULL
             PROVE  LET told  == First(returned, Matches(returned, name, 0))
                        found == getpwnam(name)
                    IN  found # NULL /\ found.id = told.id
  BY DEF LookupsAgree
<1>1. "passwd" \in Files /\ name # NULL
  BY AccountsAssumption DEF Files
<1>2. At(s, lines) /\ Told(returned, content, s.at) /\ lines \in Seq(Contents)
  BY <1>1 DEF IInv, Typed, Placed, Returned
<1>3. content \in Contents /\ s.at \in 0..Len(content) /\ Len(content) \in s.at..Len(content)
      /\ Len(content) \in 0..Len(content)
  <2>1. content \in Contents /\ s.at \in 0..Len(content)
    BY <1>2 DEF At
  <2> HIDE DEF content
  <2> QED BY <2>1 DEF Contents
<1>4. returned \in Seq(EntryFields \cup {NULL}) /\ \A i \in DOMAIN returned : returned[i] # NULL
  BY <1>1 DEF IInv, Typed, Begun
<1>5. getpwnam(name) = First(entries, Matches(entries, name, 0))
  BY DEF getpwnam, __getpw_a
<1> HIDE DEF content, s
<1>6. Len(returned) = Len(p) /\ \A i \in 1..Len(p) :
          returned[i].name = content[p[i]].name /\ returned[i].id = content[p[i]].id
  BY <1>2, <1>4 DEF Told
<1>7. Begins(p, q)
  BY <1>3, PlacesBegin
<1>8. /\ entries \in Seq(EntryFields) /\ Len(entries) = Len(q)
      /\ \A i \in 1..Len(q) : content[q[i]] \in Lines /\ entries[i] = Entry(content[q[i]])
  BY <1>3, EntriesAre DEF AllEntries
<1>9. Len(p) \in Nat /\ Len(q) \in Nat
  BY <1>3, PlacesTyped
<1> HIDE DEF p, q, entries, returned
<1>10. \A i \in 1..Len(p) : /\ i \in 1..Len(q) /\ entries[i] \in EntryFields
                            /\ entries[i].name = returned[i].name /\ entries[i].id = returned[i].id
  <2> TAKE i \in 1..Len(p)
  <2>1. i \in 1..Len(q) /\ q[i] = p[i]
    BY <1>7, <1>9 DEF Begins
  <2>2. content[q[i]] \in Lines /\ entries[i] = Entry(content[q[i]])
    BY <1>8, <2>1
  <2> QED BY <1>6, <2>1, <2>2, EntryIs
<1> DEFINE told  == Matches(returned, name, 0)
           found == Matches(entries, name, 0)
           m == Min(told)
<1>11. told # {} /\ First(returned, told) = returned[m]
  BY DEF First
<1>12. told = {i \in 1..Len(p) : returned[i].name = name}
       /\ found = {i \in 1..Len(q) : entries[i].name = name}
  BY <1>1, <1>4, <1>6, <1>8 DEF Matches
<1> HIDE DEF told, found
<1>13. told \in SUBSET Nat /\ found \in SUBSET Nat
  BY <1>12
<1>14. m \in told /\ \A j \in told : m <= j
  BY <1>11, <1>13, MinIs
<1> HIDE DEF m
<1>15. m \in found
  BY <1>10, <1>12, <1>14
<1>16. \A j \in found : m <= j
  <2> TAKE j \in found
  <2>1. j \in Nat /\ m \in 1..Len(p) /\ j \in 1..Len(q)
    BY <1>12, <1>14
  <2>2. CASE j <= Len(p)
    <3>1. j \in 1..Len(p)
      BY <1>9, <2>1, <2>2
    <3>2. j \in told
      BY <1>10, <1>12, <3>1
    <3> QED BY <1>14, <3>2
  <2>3. CASE ~(j <= Len(p))
    BY <1>9, <2>1, <2>3
  <2> QED BY <2>2, <2>3
<1>17. First(entries, found) = entries[m]
  <2>1. Min(found) = m
    BY <1>13, <1>15, <1>16, MinUnique
  <2> QED BY <1>15, <2>1 DEF First
<1>18. m \in 1..Len(p)
  BY <1>12, <1>14
<1>19. entries[m] # NULL /\ entries[m].id = returned[m].id
  BY <1>10, <1>18, AccountsAssumption
<1> QED BY <1>5, <1>11, <1>17, <1>19 DEF told, found

\* Nothing is written to a buffer past its end, whatever is skipped to align it.
LEMMA AlignedFits ==
    ASSUME NEW at \in 0..(Align - 1), NEW size \in Nat, NEW len \in Nat, NEW array \in Nat,
           ~(size < len + array + Slack)
    PROVE  ((Align - at) % Align) + array + len <= size
<1>1. Align \in Nat \ {0} /\ Slack \in Nat /\ Align - 1 <= Slack /\ Align - at \in Nat
  BY BufferAssumption
<1>2. (Align - at) % Align \in 0..(Align - 1)
  BY <1>1
<1>3. \A pad \in 0..(Align - 1) : pad + array + len <= size
  BY <1>1
<1> QED BY <1>2, <1>3

\* What is answered for an entry, or its want, by the room it takes.
AnswersBy(answer, e, size, len, besides, end) ==
    answer = IF e = NULL THEN NoAnswer("")
             ELSE IF size < len + besides THEN NoAnswer("ERANGE")
             ELSE [res |-> e, rv |-> "", end |-> end]

AnswersWell(answer, name, size, content, e, besides) ==
    /\ answer.res # NULL => answer.res.name = name /\ answer.end <= size
    /\ answer.rv = "ERANGE" =>
          /\ e \in ToSet(AllEntries(content))
          /\ \E line \in ToSet(content) : size < LineMin + besides \/ size < 2 * line.len + besides
    /\ answer.res = NULL /\ answer.rv = "" =>
          \A line \in ToSet(content) : line.ok => line.name # name

LEMMA LinesOf ==
    ASSUME NEW content \in Contents
    PROVE  /\ Len(content) \in Nat /\ ToSet(content) = {content[i] : i \in 1..Len(content)}
           /\ \A i \in 1..Len(content) : content[i] \in ToSet(content) /\ content[i] \in Lines
<1>1. Len(content) \in Nat /\ DOMAIN content = 1..Len(content)
      /\ \A i \in 1..Len(content) : content[i] \in Lines
  BY DEF Contents
<1>2. ToSet(content) = {content[i] : i \in 1..Len(content)}
  BY <1>1, Zenon DEF ToSet
<1> QED BY <1>1, <1>2

LEMMA AnsweredBy ==
    ASSUME NEW content \in Contents, NEW name, NEW e, LooksIn(content, name, e),
           NEW size \in Nat, NEW len \in Capacities(content, e), NEW besides \in Nat,
           NEW end, ~(size < len + besides) => end <= size,
           NEW answer, AnswersBy(answer, e, size, len, besides, end)
    PROVE  AnswersWell(answer, name, size, content, e, besides)
<1> USE DEF AnswersBy, AnswersWell
<1>1. /\ Len(content) \in Nat /\ ToSet(content) = {content[i] : i \in 1..Len(content)}
      /\ \A i \in 1..Len(content) : content[i] \in ToSet(content) /\ content[i] \in Lines
  BY LinesOf
<1>2. CASE e = NULL
  <2>1. answer = NoAnswer("") /\ NoAnswer("").res = NULL /\ NoAnswer("").rv = ""
    BY <1>2 DEF NoAnswer
  <2>2. \A i \in 1..Len(content) : content[i].ok => content[i].name # name
    BY <1>2 DEF LooksIn
  <2>3. \A line \in ToSet(content) : line.ok => line.name # name
    BY <1>1, <2>2
  <2> QED BY <2>1, <2>3
<1>3. CASE e # NULL /\ size < len + besides
  <2>1. FoundIn(content, name, e)
    BY <1>3 DEF LooksIn
  <2>2. e \in ToSet(AllEntries(content)) /\ \E i \in 1..Len(content) : content[i].name = name
    BY <2>1 DEF FoundIn
  <2>3. answer = NoAnswer("ERANGE") /\ NoAnswer("ERANGE").res = NULL
        /\ NoAnswer("ERANGE").rv = "ERANGE"
    BY <1>3 DEF NoAnswer
  <2>4. /\ len \in Nat
        /\ \/ len <= LineMin
           \/ \E i \in 1..Len(content) : content[i].len \in Nat /\ len <= 2 * content[i].len
    BY CapacityIs
  <2>5. LineMin \in Nat
    BY BufferAssumption
  <2>6. CASE len <= LineMin
    <3>1. size < LineMin + besides
      BY <1>3, <2>4, <2>5, <2>6
    <3> QED BY <1>1, <2>2, <2>3, <3>1
  <2>7. CASE ~(len <= LineMin)
    <3>1. PICK i \in 1..Len(content) : content[i].len \in Nat /\ len <= 2 * content[i].len
      BY <2>4, <2>7
    <3>2. size < 2 * content[i].len + besides
      BY <1>3, <2>4, <3>1
    <3> QED BY <1>1, <2>2, <2>3, <3>1, <3>2
  <2> QED BY <2>6, <2>7
<1>4. CASE e # NULL /\ ~(size < len + besides)
  <2>1. FoundIn(content, name, e)
    BY <1>4 DEF LooksIn
  <2>2. PICK i \in 1..Len(content) : content[i].name = name /\ Entry(content[i]) = e
    BY <2>1 DEF FoundIn
  <2>3. e.name = name
    BY <1>1, <2>2, EntryIs
  <2>4. answer.res = e /\ answer.rv = "" /\ answer.end = end /\ end <= size
    BY <1>4
  <2> QED BY <1>4, <2>3, <2>4
<1> QED BY <1>2, <1>3, <1>4

\* A call that fails before the file is read through has an error of its own.
LEMMA FailureAnswers ==
    ASSUME NEW name, NEW size, NEW content, NEW failure \in Failures, failure # ""
    PROVE  /\ Answered(NoAnswer(failure), name, size, content, Nothing)
           /\ Answered(NoAnswer(failure), name, size, content, Array)
BY DEF Answered, NoAnswer, Failures

LEMMA ReentrantIs == IInv => ReentrantHolds
<1> DEFINE passwd == lines[etc[root]["passwd"]]
           group  == lines[etc[root]["group"]]
<1>1. ASSUME IInv, NEW name \in Users, NEW size \in Buffers, NEW failure \in Failures,
             NEW len \in Capacities(passwd, __getpw_a(name, 0))
      PROVE  Answered(getpwnam_r(name, size, len, failure), name, size, passwd, Nothing)
  <2> DEFINE e == __getpw_a(name, 0)
             answer == getpwnam_r(name, size, len, failure)
  <2>1. passwd \in Contents /\ LooksIn(passwd, name, e) /\ size \in Nat
    BY <1>1, LooksUp, BufferAssumption
  <2>2. CASE failure # ""
    BY <2>2, FailureAnswers DEF getpwnam_r, getpw_r
  <2>3. CASE failure = ""
    <3>1. len \in Nat /\ (~(size < len + 0) => len <= size)
      BY <2>1, CapacityIs
    <3>2. AnswersBy(answer, e, size, len, 0, len)
      <4>1. len + 0 = len
        BY <3>1
      <4> QED BY <2>3, <4>1 DEF getpwnam_r, getpw_r, AnswersBy
    <3> HIDE DEF passwd, e, answer
    <3>3. len \in Capacities(passwd, e)
      BY <1>1 DEF e
    <3>4. AnswersWell(answer, name, size, passwd, e, 0)
      BY <2>1, <3>1, <3>2, <3>3, AnsweredBy
    <3>5. Answered(answer, name, size, passwd, Nothing)
      BY <3>4 DEF AnswersWell, Answered, Nothing
    <3> QED BY <3>5 DEF answer
  <2> QED BY <2>2, <2>3
<1>2. ASSUME IInv, NEW name \in Users, NEW size \in Buffers, NEW failure \in Failures,
             NEW at \in 0..(Align - 1), NEW len \in Capacities(group, __getgr_a(name, 0))
      PROVE  Answered(getgrnam_r(name, at, size, len, failure), name, size, group, Array)
  <2> DEFINE e == __getgr_a(name, 0)
             answer == getgrnam_r(name, at, size, len, failure)
             end == ((Align - at) % Align) + Pointers(e) + len
  <2>1. /\ group \in Contents /\ size \in Nat
        /\ readable => LooksIn(group, name, e)
    BY <1>2, LooksUp, BufferAssumption
  <2>2. CASE ~readable \/ failure # ""
    <3>1. PICK rv \in Failures : rv # "" /\ answer = NoAnswer(rv)
      BY <2>2 DEF getgrnam_r, getgr_r, Failures
    <3> QED BY <3>1, FailureAnswers
  <2>3. CASE readable /\ failure = "" /\ e = NULL
    <3>1. answer = NoAnswer("") /\ NoAnswer("").res = NULL /\ NoAnswer("").rv = ""
      BY <2>3 DEF getgrnam_r, getgr_r, NoAnswer
    <3> HIDE DEF group
    <3>2. \A line \in ToSet(group) : line.ok => line.name # name
      <4>1. \A i \in 1..Len(group) : group[i].ok => group[i].name # name
        BY <2>1, <2>3 DEF LooksIn
      <4>2. ToSet(group) = {group[i] : i \in 1..Len(group)}
        BY <2>1, LinesOf
      <4> QED BY <4>1, <4>2
    <3> QED BY <3>1, <3>2 DEF Answered
  <2>4. CASE readable /\ failure = "" /\ e # NULL
    <3>1. LooksIn(group, name, e) /\ len \in Nat
      BY <2>1, <2>4, CapacityIs
    <3>2. Pointers(e) \in Nat /\ Slack \in Nat /\ Pointers(e) + Slack \in Nat
      <4>1. e \in EntryFields
        BY <2>4, <3>1 DEF LooksIn, FoundIn
      <4>2. Len(e.last) \in Nat /\ PointerSize \in Nat
        BY <4>1, BufferAssumption DEF EntryFields
      <4>3. (Len(e.last) + 1) * PointerSize \in Nat
        BY <4>2
      <4> QED BY <4>3, BufferAssumption DEF Pointers
    <3>3. len + Pointers(e) + Slack = len + (Pointers(e) + Slack)
      BY <3>1, <3>2
    <3>4. AnswersBy(answer, e, size, len, Pointers(e) + Slack, end)
      BY <2>4, <3>3 DEF getgrnam_r, getgr_r, Filled, AnswersBy
    <3>5. ~(size < len + (Pointers(e) + Slack)) => end <= size
      BY <1>2, <2>1, <3>1, <3>2, <3>3, AlignedFits
    <3> HIDE DEF group, e, answer, end
    <3>6. len \in Capacities(group, e)
      BY <1>2 DEF e
    <3>7. AnswersWell(answer, name, size, group, e, Pointers(e) + Slack)
      BY <2>1, <3>1, <3>2, <3>4, <3>5, <3>6, AnsweredBy
    <3>8. Answered(answer, name, size, group, Array)
      BY <3>7 DEF AnswersWell, Answered, Array
    <3> QED BY <3>8 DEF answer
  <2> QED BY <2>2, <2>3, <2>4
<1> QED BY <1>1, <1>2 DEF ReentrantHolds

-----------------------------------------------------------------------------
(* Shadow: the lines fgets() cuts *)

Parsed == [text : Seq(STRING) \ {<<>>}, ok : BOOLEAN]

\* A line of shadow has a character, and no newline but at its end.
LEMMA ShadowLineIs ==
    ASSUME NEW line \in ShadowLines
    PROVE  /\ line \in Parsed
           /\ line.text \in Seq(STRING) /\ Len(line.text) \in Nat \ {0} /\ line.ok \in BOOLEAN
           /\ \A k \in 1..(Len(line.text) - 1) : line.text[k] # "\n"
<1>1. line \in Parsed /\ \A k \in 1..(Len(line.text) - 1) : line.text[k] # "\n"
  BY DEF ShadowLines, Parsed
<1>2. line.text \in Seq(STRING) /\ line.text # <<>> /\ line.ok \in BOOLEAN
  BY <1>1 DEF Parsed
<1>3. \A s \in Seq(STRING) : s # <<>> => Len(s) \in Nat \ {0}
  OBVIOUS
<1> QED BY <1>1, <1>2, <1>3

\* How many pieces of n there are in L characters.
LEMMA PiecesOf ==
    ASSUME NEW L \in Nat \ {0}, NEW n \in Nat \ {0}
    PROVE  LET K == (L + n - 1) \div n
           IN  /\ K \in Nat \ {0} /\ L <= K * n /\ (K - 1) * n < L
               /\ (K = 1 <=> L <= n)
               /\ \A k \in 1..K : (k - 1) * n \in Nat /\ (k - 1) * n < L /\ k * n = (k - 1) * n + n
               /\ \A k \in 1..K : k < K => k * n < L
<1> DEFINE K == (L + n - 1) \div n
<1>1. \A a, b \in Nat : b # 0 => /\ (a \div b) \in Nat /\ (a \div b) * b <= a
                                 /\ a < (a \div b) * b + b
  OBVIOUS
<1>2. K \in Nat /\ K * n <= L + n - 1 /\ L + n - 1 < K * n + n
  BY <1>1
<1> HIDE DEF K
<1>3. \A k \in Int : (k - 1) * n = k * n - n /\ k * n \in Int
  OBVIOUS
<1>4. \A a, b \in Nat : a <= b => a * n <= b * n
  <2> TAKE a, b \in Nat
  <2>1. ASSUME a <= b PROVE a * n <= b * n
    <3>1. b = a + (b - a) /\ b - a \in Nat
      BY <2>1
    <3>2. \A d \in Nat : (a + d) * n = a * n + d * n /\ d * n \in Nat /\ a * n \in Nat
      OBVIOUS
    <3>3. b * n = a * n + (b - a) * n /\ (b - a) * n \in Nat /\ a * n \in Nat
      BY <3>1, <3>2
    <3> QED BY <3>3
  <2> QED BY <2>1
<1>5. K # 0
  <2>1. 0 * n = 0
    OBVIOUS
  <2> QED BY <1>2, <2>1
<1>6. L <= K * n /\ (K - 1) * n < L
  BY <1>2, <1>3
<1>7. ASSUME NEW k \in 1..K
      PROVE  (k - 1) * n \in Nat /\ (k - 1) * n < L /\ k * n = (k - 1) * n + n
  <2>1. k - 1 \in Nat /\ K - 1 \in Nat /\ k - 1 <= K - 1
    BY <1>2, <1>5
  <2>2. (k - 1) * n <= (K - 1) * n
    BY <1>4, <2>1
  <2>3. \A a \in Nat : a * n \in Nat
    OBVIOUS
  <2>4. (k - 1) * n \in Nat /\ (K - 1) * n \in Nat
    BY <2>1, <2>3
  <2> QED BY <1>3, <1>6, <2>2, <2>4
<1>8. ASSUME NEW k \in 1..K, k < K PROVE k * n < L
  <2>1. k + 1 \in 1..K /\ (k + 1) - 1 = k
    BY <1>2, <1>8
  <2> QED BY <1>7, <2>1
<1>9. K = 1 <=> L <= n
  <2>1. 1 * n = n /\ 1 \in 1..K
    BY <1>2, <1>5
  <2>2. ASSUME K # 1 PROVE n < L
    <3>1. 1 < K
      BY <1>2, <1>5, <2>2
    <3> QED BY <1>8, <2>1, <3>1
  <2> QED BY <1>6, <2>1, <2>2
<1> QED BY <1>2, <1>5, <1>6, <1>7, <1>8, <1>9

\* A piece is a part of its line, the last has the end of it.
LEMMA PieceIs ==
    ASSUME NEW line \in ShadowLines, NEW n \in Nat \ {0}
    PROVE  LET P == Pieces(line, n)
               K == Len(P)
           IN  /\ K \in Nat \ {0} /\ (K = 1 <=> Len(line.text) <= n)
               /\ \A k \in 1..K : P[k].text \in Seq(STRING) /\ P[k].ok = line.ok
               /\ \A k \in 1..K : Ended(P[k]) <=> k = K /\ Ended(line)
               /\ Head(P[1].text) = Head(line.text)
               /\ K = 1 => P[1].text = line.text
<1> DEFINE s == line.text
           L == Len(s)
           P == Pieces(line, n)
           K == (L + n - 1) \div n
           To(k) == Min({k * n, L})
<1>1. /\ s \in Seq(STRING) /\ L \in Nat \ {0}
      /\ \A k \in 1..(L - 1) : s[k] # "\n"
  BY ShadowLineIs
<1>2. /\ K \in Nat \ {0} /\ L <= K * n /\ (K - 1) * n < L /\ (K = 1 <=> L <= n)
      /\ \A k \in 1..K : (k - 1) * n \in Nat /\ (k - 1) * n < L /\ k * n = (k - 1) * n + n
      /\ \A k \in 1..K : k < K => k * n < L
  <2> HIDE DEF L
  <2> QED BY <1>1, PiecesOf
<1>3. P = [k \in 1..K |-> [text |-> SubSeq(s, (k - 1) * n + 1, To(k)), ok |-> line.ok]]
  BY DEF Pieces
<1> HIDE DEF P, K, L
<1>4. ASSUME NEW k \in 1..K
      PROVE  /\ To(k) \in ((k - 1) * n + 1)..L /\ To(k) = IF k = K THEN L ELSE k * n
             /\ k # K => To(k) \in 1..(L - 1)
  <2>1. k * n \in Nat /\ {k * n, L} \in SUBSET Nat
    BY <1>1, <1>2
  <2>2. To(k) \in {k * n, L} /\ To(k) <= k * n /\ To(k) <= L
    BY <2>1, MinIs
  <2> HIDE DEF To
  <2>3. CASE k = K
    BY <1>1, <1>2, <2>2, <2>3
  <2>4. CASE k # K
    <3>1. k < K
      BY <1>2, <2>4
    <3>2. k * n < L
      BY <1>2, <3>1
    <3> QED BY <1>1, <1>2, <2>1, <2>2, <2>4, <3>2
  <2> QED BY <2>3, <2>4
<1>5. Len(P) = K
  BY <1>2, <1>3
<1> HIDE DEF To
<1>6. ASSUME NEW k \in 1..K
      PROVE  LET t == SubSeq(s, (k - 1) * n + 1, To(k))
             IN  /\ t \in Seq(STRING) /\ Len(t) = To(k) - (k - 1) * n /\ Len(t) \in Nat \ {0}
                 /\ Last(t) = s[To(k)] /\ Head(t) = s[(k - 1) * n + 1]
  <2> DEFINE a == (k - 1) * n
             t == SubSeq(s, a + 1, To(k))
  <2>1. a \in Nat /\ To(k) \in (a + 1)..L
    BY <1>2, <1>4
  <2> HIDE DEF a
  <2>2. a + 1 \in Int /\ To(k) \in Int /\ \A i \in (a + 1)..To(k) : s[i] \in STRING
    BY <1>1, <2>1 DEF L
  <2>3. /\ t \in Seq(STRING) /\ Len(t) = To(k) - a
        /\ \A i \in 1..(To(k) - a) : t[i] = s[a + i]
    <3>1. /\ t \in Seq(STRING)
          /\ Len(t) = IF a + 1 <= To(k) THEN To(k) - (a + 1) + 1 ELSE 0
          /\ \A i \in 1..(To(k) - (a + 1) + 1) : t[i] = s[(a + 1) + i - 1]
      BY <2>2, SubSeqProperties
    <3>2. \A i \in Int : (a + 1) + i - 1 = a + i
      BY <2>1
    <3> HIDE DEF t
    <3> QED BY <2>1, <2>2, <3>1, <3>2
  <2> HIDE DEF t
  <2>4. To(k) - a \in Nat \ {0} /\ a + (To(k) - a) = To(k)
    BY <2>1, <2>2
  <2>5. Head(t) = t[1] /\ 1 \in 1..(To(k) - a) /\ To(k) - a \in 1..(To(k) - a)
    BY <2>3, <2>4
  <2> QED BY <2>3, <2>4, <2>5 DEF t, a, Last
<1>7. ASSUME NEW k \in 1..K PROVE P[k].text \in Seq(STRING) /\ P[k].ok = line.ok
  BY <1>3, <1>6
<1>8. ASSUME NEW k \in 1..K PROVE Ended(P[k]) <=> k = K /\ Ended(line)
  <2>1. Ended(P[k]) <=> s[To(k)] = "\n"
    BY <1>3, <1>6 DEF Ended
  <2>2. Ended(line) <=> s[L] = "\n"
    BY DEF Ended, Last, L
  <2>3. k # K => s[To(k)] # "\n"
    BY <1>1, <1>4
  <2>4. k = K => To(k) = L
    BY <1>4
  <2> QED BY <2>1, <2>2, <2>3, <2>4
<1>9. 1 \in 1..K /\ (1 - 1) * n + 1 = 1 /\ (1 - 1) * n = 0
  <2>1. 0 * n = 0
    OBVIOUS
  <2> QED BY <1>2, <2>1
<1>10. Head(P[1].text) = Head(s)
  <2>1. Head(s) = s[1]
    BY <1>1
  <2> QED BY <1>3, <1>6, <1>9, <2>1
<1>11. K = 1 => P[1].text = s
  <2> SUFFICES ASSUME K = 1 PROVE SubSeq(s, 1, To(1)) = s
    BY <1>3, <1>9
  <2>1. To(1) = L
    BY <1>4, <1>9
  <2>2. SubSeq(s, 1, L) = s
    BY <1>1 DEF L
  <2> QED BY <2>1, <2>2
<1> QED BY <1>2, <1>5, <1>7, <1>8, <1>10, <1>11 DEF P, K, L, s

\* What was read so far.
Readings == [skip : BOOLEAN, done : BOOLEAN, rv : {"", "ERANGE"}, res : {NULL} \cup Seq(STRING)]

\* One fgets() goes from what was read to what was read.
LEMMA ReadIs ==
    ASSUME NEW name, NEW r \in Readings, NEW piece, piece.text \in Seq(STRING)
    PROVE  Read(name, r, piece) \in Readings
<1>1. /\ r = [skip |-> r.skip, done |-> r.done, rv |-> r.rv, res |-> r.res]
      /\ r.skip \in BOOLEAN /\ r.done \in BOOLEAN /\ r.rv \in {"", "ERANGE"}
      /\ r.res \in {NULL} \cup Seq(STRING)
  BY DEF Readings
<1>2. Ended(piece) \in BOOLEAN
  BY DEF Ended
<1>3. [r EXCEPT !.skip = ~Ended(piece)] \in Readings
  BY <1>1, <1>2 DEF Readings
<1>4. [r EXCEPT !.rv = "ERANGE", !.done = TRUE] \in Readings
  BY <1>1 DEF Readings
<1>5. [r EXCEPT !.res = piece.text, !.done = TRUE] \in Readings
  BY <1>1 DEF Readings
<1> QED BY <1>3, <1>4, <1>5 DEF Read

\* What a whole line makes of it.
WholeLine(name, n, r, line) ==
    IF r.done THEN r
    ELSE IF Head(line.text) # name THEN [r EXCEPT !.skip = ~Ended(line)]
    ELSE IF ~(Len(line.text) <= n /\ Ended(line)) THEN [r EXCEPT !.rv = "ERANGE", !.done = TRUE]
    ELSE IF ~line.ok THEN r
    ELSE [r EXCEPT !.res = line.text, !.done = TRUE]

(***************************************************************************)
(* The pieces of a line make of what was read what the whole line would:   *)
(* the first decides, and those after it are skipped or not looked at.     *)
(***************************************************************************)
LEMMA ReadLineIs ==
    ASSUME NEW name, NEW n \in Nat \ {0}, NEW r \in Readings, NEW line \in ShadowLines,
           r.done \/ ~r.skip
    PROVE  ReadLine(name, n, r, line) = WholeLine(name, n, r, line) /\ ReadLine(name, n, r, line) \in Readings
<1> DEFINE P == Pieces(line, n)
           K == Len(P)
           step == [k \in 1..K |-> [q \in Readings |-> Read(name, q, P[k])]]
           F(f) == [k \in 0..K |-> IF k = 0 THEN r ELSE Read(name, f[k - 1], P[k])]
           Is(f) == f \in [0..K -> Readings] /\ f[0] = r
                    /\ \A k \in 1..K : f[k] = Read(name, f[k - 1], P[k])
<1>1. /\ K \in Nat \ {0} /\ (K = 1 <=> Len(line.text) <= n)
      /\ \A k \in 1..K : P[k].text \in Seq(STRING) /\ P[k].ok = line.ok
      /\ \A k \in 1..K : Ended(P[k]) <=> k = K /\ Ended(line)
      /\ Head(P[1].text) = Head(line.text)
      /\ K = 1 => P[1].text = line.text
  BY PieceIs
<1>2. ReadLine(name, n, r, line) = (CHOOSE f : f = F(f))[K]
  BY DEF ReadLine
<1> HIDE DEF P, K
<1>3. \E f : Is(f)
  <2>1. step \in [1..K -> [Readings -> Readings]]
    BY <1>1, ReadIs
  <2>2. \A k \in 1..K : \A q \in Readings : step[k][q] = Read(name, q, P[k])
    OBVIOUS
  <2> HIDE DEF step
  <2>3. PICK f \in [0..K -> Readings] : Steps(f, K, r, step)
    BY <1>1, <2>1, Recursion
  <2>4. ASSUME NEW k \in 1..K PROVE f[k] = Read(name, f[k - 1], P[k])
    <3>1. k - 1 \in 0..K
      BY <1>1
    <3>2. f[k - 1] \in Readings
      BY <2>3, <3>1
    <3>3. f[k] = step[k][f[k - 1]]
      BY <2>3 DEF Steps
    <3> QED BY <2>2, <3>2, <3>3
  <2>5. f[0] = r
    BY <2>3 DEF Steps
  <2>6. Is(f)
    BY <2>3, <2>4, <2>5
  <2> QED BY <2>6
<1>4. \A f : Is(f) => f = F(f)
  <2> TAKE f
  <2> SUFFICES ASSUME Is(f) PROVE f = F(f)
    OBVIOUS
  <2>1. \A k \in 0..K : f[k] = IF k = 0 THEN r ELSE Read(name, f[k - 1], P[k])
    BY <1>1
  <2> QED BY <2>1
<1>5. PICK f : f = F(f) /\ ReadLine(name, n, r, line) = f[K]
  BY <1>2, <1>3, <1>4
<1>6. /\ f[0] = r /\ \A k \in 1..K : f[k] = Read(name, f[k - 1], P[k])
  BY <1>1, <1>5
<1> HIDE DEF F
<1> DEFINE w == WholeLine(name, n, r, line)
           \* What is read before the last piece.
           mid == IF ~r.done /\ Head(line.text) # name THEN [r EXCEPT !.skip = TRUE] ELSE w
           T == {k \in Nat : k + 1 < K => f[k + 1] = mid}
<1>7. /\ r = [skip |-> r.skip, done |-> r.done, rv |-> r.rv, res |-> r.res]
      /\ r.skip \in BOOLEAN /\ r.done \in BOOLEAN
  BY DEF Readings
<1>8. f[1] = Read(name, r, P[1])
  <2>1. 1 \in 1..K /\ 1 - 1 = 0
    BY <1>1
  <2> QED BY <1>6, <2>1
<1>9. f[1] = IF K = 1 THEN w ELSE mid
  <2>1. 1 \in 1..K /\ P[1].ok = line.ok /\ (Ended(P[1]) <=> K = 1 /\ Ended(line))
    BY <1>1
  <2>2. CASE r.done
    BY <1>8, <2>2 DEF Read, WholeLine
  <2>3. CASE ~r.done /\ Head(line.text) # name
    <3>1. f[1] = [r EXCEPT !.skip = ~Ended(P[1])]
      BY <1>1, <1>8, <2>3 DEF Read
    <3>2. w = [r EXCEPT !.skip = ~Ended(line)] /\ mid = [r EXCEPT !.skip = TRUE]
      BY <2>3 DEF WholeLine
    <3>3. Ended(line) \in BOOLEAN /\ Ended(P[1]) \in BOOLEAN
      BY DEF Ended
    <3>4. K = 1 => (~Ended(P[1])) = (~Ended(line))
      BY <2>1, <3>3
    <3>5. K # 1 => (~Ended(P[1])) = TRUE
      BY <2>1, <3>3
    <3> QED BY <3>1, <3>2, <3>4, <3>5
  <2>4. CASE ~r.done /\ Head(line.text) = name
    <3>1. mid = w
      BY <2>4
    <3>2. f[1] = IF ~Ended(P[1]) THEN [r EXCEPT !.rv = "ERANGE", !.done = TRUE]
                 ELSE IF ~P[1].ok THEN r ELSE [r EXCEPT !.res = P[1].text, !.done = TRUE]
      BY <1>1, <1>8, <2>4 DEF Read
    <3>3. w = IF ~(K = 1 /\ Ended(line)) THEN [r EXCEPT !.rv = "ERANGE", !.done = TRUE]
              ELSE IF ~line.ok THEN r ELSE [r EXCEPT !.res = line.text, !.done = TRUE]
      BY <1>1, <2>4 DEF WholeLine
    <3>4. CASE Ended(P[1])
      BY <1>1, <2>1, <3>1, <3>2, <3>3, <3>4
    <3>5. CASE ~Ended(P[1])
      BY <1>1, <2>1, <3>1, <3>2, <3>3, <3>5
    <3> QED BY <3>4, <3>5
  <2> QED BY <2>2, <2>3, <2>4
<1>10. K # 1 => mid.done \/ mid.skip
  <2>1. CASE r.done
    BY <2>1 DEF WholeLine
  <2>2. CASE ~r.done /\ Head(line.text) # name
    BY <1>7, <2>2
  <2>3. CASE ~r.done /\ Head(line.text) = name /\ K # 1
    <3>1. mid = [r EXCEPT !.rv = "ERANGE", !.done = TRUE]
      BY <1>1, <2>3 DEF WholeLine
    <3> QED BY <1>7, <3>1
  <2> QED BY <2>1, <2>2, <2>3
\* Past the first, a piece is skipped or nothing is looked at.
<1>11. ASSUME NEW k \in 2..K, f[k - 1] = mid
       PROVE  f[k] = IF k = K THEN w ELSE mid
  <2>1. K # 1 /\ k \in 1..K /\ (Ended(P[k]) <=> k = K /\ Ended(line))
    BY <1>1
  <2>2. f[k] = Read(name, mid, P[k])
    BY <1>6, <1>11, <2>1
  <2>3. CASE mid.done
    <3>1. f[k] = mid
      BY <2>2, <2>3 DEF Read
    <3>2. mid = w
      <4>1. CASE ~r.done /\ Head(line.text) # name
        BY <1>7, <2>3, <4>1
      <4> QED BY <4>1
    <3> QED BY <3>1, <3>2
  <2>4. CASE ~mid.done
    <3>1. ~r.done /\ Head(line.text) # name /\ mid = [r EXCEPT !.skip = TRUE]
      <4>1. CASE ~r.done /\ Head(line.text) # name
        BY <4>1
      <4>2. CASE r.done
        <5>1. mid = r
          BY <4>2 DEF WholeLine
        <5> QED BY <2>4, <4>2, <5>1
      <4>3. CASE ~r.done /\ Head(line.text) = name
        <5>1. mid = [r EXCEPT !.rv = "ERANGE", !.done = TRUE]
          BY <1>1, <2>1, <4>3 DEF WholeLine
        <5> QED BY <1>7, <2>4, <5>1
      <4> QED BY <4>1, <4>2, <4>3
    <3>2. f[k] = [mid EXCEPT !.skip = ~Ended(P[k])]
      BY <1>10, <2>1, <2>2, <2>4 DEF Read
    <3>3. f[k] = [r EXCEPT !.skip = ~Ended(P[k])]
      BY <1>7, <3>1, <3>2
    <3>4. w = [r EXCEPT !.skip = ~Ended(line)]
      BY <3>1 DEF WholeLine
    <3>5. Ended(line) \in BOOLEAN /\ Ended(P[k]) \in BOOLEAN
      BY DEF Ended
    <3>6. k = K => (~Ended(P[k])) = (~Ended(line))
      BY <2>1, <3>5
    <3>7. k # K => (~Ended(P[k])) = TRUE
      BY <2>1, <3>5
    <3> QED BY <3>1, <3>3, <3>4, <3>6, <3>7
  <2> QED BY <2>3, <2>4
<1> HIDE DEF mid, w
<1>12. 0 \in T
  BY <1>9
<1>13. ASSUME NEW k \in Nat, k \in T PROVE k + 1 \in T
  <2> SUFFICES ASSUME (k + 1) + 1 < K PROVE f[(k + 1) + 1] = mid
    OBVIOUS
  <2>1. k + 1 < K /\ (k + 1) + 1 \in 2..K /\ ((k + 1) + 1) - 1 = k + 1 /\ (k + 1) + 1 # K
    BY <1>1
  <2>2. f[k + 1] = mid
    BY <1>13, <2>1
  <2> QED BY <1>11, <2>1, <2>2
<1>14. Nat \subseteq T
  <2> HIDE DEF T
  <2> QED BY <1>12, <1>13, Induction
<1>15. f[K] = w
  <2>1. CASE K = 1
    BY <1>9, <2>1
  <2>2. CASE K # 1
    <3>1. K - 2 \in Nat /\ (K - 2) + 1 = K - 1 /\ K - 1 < K /\ K \in 2..K
      BY <1>1, <2>2
    <3>2. f[K - 1] = mid
      BY <1>14, <3>1
    <3> QED BY <1>11, <3>1, <3>2
  <2> QED BY <2>1, <2>2
<1>16. w \in Readings
  <2>1. /\ r.rv \in {"", "ERANGE"} /\ r.res \in {NULL} \cup Seq(STRING) /\ line.text \in Seq(STRING)
        /\ (~Ended(line)) \in BOOLEAN
    BY ShadowLineIs DEF Readings
  <2>2. [r EXCEPT !.skip = ~Ended(line)] \in Readings
    BY <1>7, <2>1 DEF Readings
  <2>3. [r EXCEPT !.rv = "ERANGE", !.done = TRUE] \in Readings
    BY <1>7, <2>1 DEF Readings
  <2>4. [r EXCEPT !.res = line.text, !.done = TRUE] \in Readings
    BY <1>7, <2>1 DEF Readings
  <2> QED BY <2>2, <2>3, <2>4 DEF WholeLine, w
<1> QED BY <1>5, <1>15, <1>16 DEF w

\* The line decides what a lookup of the name answers.
ToldFor(name, size, line) ==
    Head(line.text) = name /\ (line.ok \/ ~(Len(line.text) < size /\ Ended(line)))

\* Nothing is read yet.
LEMMA UnreadIs == Unread \in Readings /\ ~Unread.done /\ ~Unread.skip
BY DEF Unread, Readings

\* The functions of the lines read that ReadFile is defined by.
ReadsOn(f, name, n, content) ==
    /\ f \in [0..Len(content) -> Readings]
    /\ f[0] = Unread
    /\ \A i \in 1..Len(content) : f[i] = ReadLine(name, n, f[i - 1], content[i])
    /\ \A i \in 1..Len(content) : f[i - 1].done \/ ~f[i - 1].skip

LEMMA FileRead ==
    ASSUME NEW content, NEW name, NEW n \in Nat \ {0}, content \in Seq(ShadowLines),
           \A i \in 1..(Len(content) - 1) : Ended(content[i])
    PROVE  \E f : ReadsOn(f, name, n, content)
<1> DEFINE K == Len(content)
           Good == {q \in Readings : q.done \/ ~q.skip}
           \* Past the last line anything may be.
           Reading(i, q) == ReadLine(name, n, q, content[i])
           step == [i \in 1..K |-> [q \in Readings |-> IF q \in Good THEN Reading(i, q) ELSE q]]
<1>1. K \in Nat /\ \A i \in 1..K : content[i] \in ShadowLines
  OBVIOUS
<1> HIDE DEF K
<1>2. ASSUME NEW i \in 1..K, NEW q \in Good
      PROVE  Reading(i, q) \in Readings /\ (Ended(content[i]) => Reading(i, q) \in Good)
  <2>1. Reading(i, q) = WholeLine(name, n, q, content[i]) /\ Reading(i, q) \in Readings
    BY <1>1, ReadLineIs
  <2>2. ASSUME Ended(content[i]) PROVE Reading(i, q).done \/ ~Reading(i, q).skip
    <3>1. /\ q = [skip |-> q.skip, done |-> q.done, rv |-> q.rv, res |-> q.res]
          /\ q.done \/ ~q.skip
      BY DEF Readings
    <3>2. (~Ended(content[i])) = FALSE
      BY <2>2 DEF Ended
    <3> QED BY <2>1, <2>2, <3>1, <3>2 DEF WholeLine
  <2> QED BY <2>1, <2>2
<1>3. step \in [1..K -> [Readings -> Readings]]
  <2> HIDE DEF Reading, Good
  <2>1. \A i \in 1..K : \A q \in Readings : (IF q \in Good THEN Reading(i, q) ELSE q) \in Readings
    BY <1>2
  <2> QED BY <2>1
<1>4. \A i \in 1..K : \A q \in Good : step[i][q] = Reading(i, q)
  OBVIOUS
<1> HIDE DEF step, Reading
<1>5. PICK f \in [0..K -> Readings] : Steps(f, K, Unread, step)
  BY <1>1, <1>3, UnreadIs, Recursion
<1>6. f[0] = Unread /\ \A i \in 1..K : f[i] = step[i][f[i - 1]]
  BY <1>5 DEF Steps
<1> DEFINE T == {i \in Nat : i < K => f[i] \in Good}
<1>7. 0 \in T
  BY <1>6, UnreadIs
<1>8. ASSUME NEW i \in Nat, i \in T PROVE i + 1 \in T
  <2> SUFFICES ASSUME i + 1 < K PROVE f[i + 1] \in Good
    OBVIOUS
  <2>1. i < K /\ i + 1 \in 1..K /\ i + 1 \in 1..(K - 1) /\ (i + 1) - 1 = i
    BY <1>1
  <2>2. f[i] \in Good
    BY <1>8, <2>1
  <2>3. f[i + 1] = Reading(i + 1, f[i])
    BY <1>4, <1>6, <2>1, <2>2
  <2>4. Ended(content[i + 1])
    BY <2>1 DEF K
  <2> QED BY <1>2, <2>1, <2>2, <2>3, <2>4
<1>9. Nat \subseteq T
  <2> HIDE DEF T
  <2> QED BY <1>7, <1>8, Induction
<1>10. ASSUME NEW i \in 1..K PROVE f[i - 1] \in Good /\ f[i] = Reading(i, f[i - 1])
  <2>1. i - 1 \in Nat /\ i - 1 < K
    BY <1>1
  <2>2. f[i - 1] \in Good
    BY <1>9, <2>1
  <2> QED BY <1>4, <1>6, <2>2
<1> QED BY <1>5, <1>6, <1>10 DEF Reading, K, ReadsOn

\* f has what is read after each line.
ReadBy(f, name, size, content) ==
    /\ f \in [0..Len(content) -> Readings]
    /\ f[0] = Unread /\ ReadFile(name, size, content) = f[Len(content)]
    /\ \A i \in 1..Len(content) : f[i] = WholeLine(name, size - 1, f[i - 1], content[i])

(***************************************************************************)
(* getspnam_r() makes of the file what whole lines would, one by one.      *)
(***************************************************************************)
LEMMA ReadsFile ==
    ASSUME NEW content, NEW name, NEW size \in Nat \ {0, 1}, content \in Seq(ShadowLines),
           \A i \in 1..(Len(content) - 1) : Ended(content[i])
    PROVE  \E f : ReadBy(f, name, size, content)
<1> DEFINE K == Len(content)
           n == size - 1
           F(f) == [i \in 0..K |-> IF i = 0 THEN Unread
                                   ELSE ReadLine(name, n, f[i - 1], content[i])]
           Is(f) == /\ f \in [0..K -> Readings] /\ f[0] = Unread
                    /\ \A i \in 1..K : f[i] = ReadLine(name, n, f[i - 1], content[i])
<1>1. K \in Nat /\ n \in Nat \ {0} /\ \A i \in 1..K : content[i] \in ShadowLines
  OBVIOUS
<1>2. ReadFile(name, size, content) = (CHOOSE f : f = F(f))[K]
  BY DEF ReadFile
<1>3. PICK f \in [0..K -> Readings] :
              /\ f[0] = Unread
              /\ \A i \in 1..K : f[i] = ReadLine(name, n, f[i - 1], content[i])
              /\ \A i \in 1..K : f[i - 1].done \/ ~f[i - 1].skip
  <2> HIDE DEF n
  <2>1. PICK f : ReadsOn(f, name, n, content)
    BY <1>1, FileRead
  <2> QED BY <2>1 DEF ReadsOn
<1> HIDE DEF K, n
<1>4. \A g : Is(g) => g = F(g)
  <2> TAKE g
  <2> SUFFICES ASSUME Is(g) PROVE g = F(g)
    OBVIOUS
  <2>1. \A i \in 0..K : g[i] = IF i = 0 THEN Unread ELSE ReadLine(name, n, g[i - 1], content[i])
    BY <1>1
  <2> QED BY <2>1
<1>5. f = F(f)
  BY <1>3, <1>4
<1>6. \A g : g = F(g) => g[0] = Unread /\ \A i \in 1..K : g[i] = ReadLine(name, n, g[i - 1], content[i])
  BY <1>1
<1>7. PICK g : g = F(g) /\ ReadFile(name, size, content) = g[K]
  BY <1>2, <1>5
<1> HIDE DEF F
<1> DEFINE T == {i \in Nat : i <= K => g[i] = f[i]}
<1>8. 0 \in T
  BY <1>3, <1>6, <1>7
<1>9. ASSUME NEW i \in Nat, i \in T PROVE i + 1 \in T
  <2> SUFFICES ASSUME i + 1 <= K PROVE g[i + 1] = f[i + 1]
    OBVIOUS
  <2>1. i <= K /\ i + 1 \in 1..K /\ (i + 1) - 1 = i
    BY <1>1
  <2> QED BY <1>3, <1>6, <1>7, <1>9, <2>1
<1>10. Nat \subseteq T
  <2> HIDE DEF T
  <2> QED BY <1>8, <1>9, Induction
<1>11. ReadFile(name, size, content) = f[K]
  BY <1>1, <1>7, <1>10
<1>12. ASSUME NEW i \in 1..K PROVE f[i] = WholeLine(name, n, f[i - 1], content[i])
  <2>1. i - 1 \in 0..K /\ f[i - 1] \in Readings
    BY <1>1, <1>3
  <2> QED BY <1>1, <1>3, <2>1, ReadLineIs
<1> QED BY <1>3, <1>11, <1>12 DEF K, n, ReadBy

\* What is read of the lines of a content is what whole lines would answer.
OfLines(name, size, content, r) ==
    LET Fits(line) == Len(line.text) < size /\ Ended(line)
        Counts(line) == Head(line.text) = name /\ (line.ok \/ ~Fits(line))
        line == First(content, {i \in DOMAIN content : Counts(content[i])})
    IN  IF line = NULL THEN r.res = NULL /\ r.rv = ""
        ELSE IF Fits(line) THEN r.res = line.text
        ELSE r.res = NULL /\ r.rv = "ERANGE"

(***************************************************************************)
(* Nothing is answered before the first line the name counts for, and then *)
(* the answer stays.                                                       *)
(***************************************************************************)
LEMMA ContentHolds ==
    ASSUME NEW content, content \in Shadows \cup {<<>>}, NEW name \in Users,
           NEW size \in Nat \ {0, 1}
    PROVE  OfLines(name, size, content, ReadFile(name, size, content))
<1> SUFFICES LET Fits(line) == Len(line.text) < size /\ Ended(line)
                 Counts(line) == Head(line.text) = name /\ (line.ok \/ ~Fits(line))
                 line == First(content, {i \in DOMAIN content : Counts(content[i])})
             IN  \A r \in {ReadFile(name, size, content)} :
                    IF line = NULL THEN r.res = NULL /\ r.rv = ""
                    ELSE IF Fits(line) THEN r.res = line.text
                    ELSE r.res = NULL /\ r.rv = "ERANGE"
  BY DEF OfLines
<1> DEFINE K == Len(content)
           told == {i \in DOMAIN content : ToldFor(name, size, content[i])}
           m == Min(told)
           Fits(line) == Len(line.text) < size /\ Ended(line)
           None(q) == ~q.done /\ q.rv = "" /\ q.res = NULL
           Gives(q, line) == IF Fits(line) THEN q.res = line.text
                             ELSE q.res = NULL /\ q.rv = "ERANGE"
<1>1. /\ content \in Seq(ShadowLines) /\ \A i \in 1..(Len(content) - 1) : Ended(content[i])
      /\ size \in Nat \ {0, 1} /\ size - 1 \in Nat
  <2>1. CASE content = <<>>
    BY <2>1, ShadowAssumption
  <2>2. CASE content \in Shadows
    <3>2. \A i \in 1..(Len(content) - 1) : Ended(content[i])
      BY <2>2, ShadowAssumption
    <3> QED BY <2>2, <3>2, ShadowAssumption
  <2> QED BY <2>1, <2>2
<1>2. K \in Nat /\ DOMAIN content = 1..K /\ \A i \in 1..K : content[i] \in ShadowLines
  BY <1>1
<1>3. PICK f : ReadBy(f, name, size, content)
  BY <1>1, ReadsFile
<1>4. /\ f \in [0..K -> Readings] /\ f[0] = Unread /\ ReadFile(name, size, content) = f[K]
      /\ \A i \in 1..K : f[i] = WholeLine(name, size - 1, f[i - 1], content[i])
  BY <1>3 DEF ReadBy
<1>5. told \in SUBSET Nat /\ told \subseteq 1..K
      /\ \A i \in 1..K : i \in told <=> ToldFor(name, size, content[i])
  BY <1>2
<1>6. told # {} => m \in told /\ \A j \in told : m <= j
  <2> HIDE DEF told
  <2> QED BY <1>5, MinIs
<1> HIDE DEF K, told, m
<1> DEFINE Before(i) == \A j \in told : i < j
           Holds(i) == IF Before(i) THEN None(f[i]) ELSE f[i].done /\ Gives(f[i], content[m])
           T == {i \in Nat : i <= K => Holds(i)}
<1>7. 0 \in T
  <2>1. Before(0)
    BY <1>5
  <2>2. None(f[0])
    <3>1. ~Unread.done /\ Unread.rv = "" /\ Unread.res = NULL
      BY DEF Unread
    <3> QED BY <1>4, <3>1
  <2>3. Holds(0)
    BY <2>1, <2>2
  <2> HIDE DEF Holds
  <2> QED BY <2>3
<1>8. ASSUME NEW i \in Nat, i \in T PROVE i + 1 \in T
  <2> HIDE DEF Holds
  <2> SUFFICES ASSUME i + 1 <= K PROVE Holds(i + 1)
    OBVIOUS
  <2>0. i <= K => Holds(i)
    BY <1>8
  <2> USE DEF Holds
  <2> DEFINE line == content[i + 1]
             q == f[i]
             w == f[i + 1]
  <2>1. i \in 0..K /\ i + 1 \in 1..K /\ (i + 1) - 1 = i /\ i <= K
    BY <1>2
  <2>2. w = WholeLine(name, size - 1, q, line) /\ line \in ShadowLines /\ q \in Readings
    BY <1>2, <1>4, <2>1
  <2>3. q = [skip |-> q.skip, done |-> q.done, rv |-> q.rv, res |-> q.res]
    BY <2>2 DEF Readings
  <2>4. Len(line.text) \in Nat /\ (Len(line.text) <= size - 1 <=> Len(line.text) < size)
    <3>1. Len(line.text) \in Nat
      BY <2>2, ShadowLineIs
    <3> QED BY <1>1, <3>1
  <2>5. IF Before(i) THEN None(q) ELSE q.done /\ Gives(q, content[m])
    BY <2>0, <2>1
  <2>6. i + 1 \in told <=> ToldFor(name, size, line)
    BY <1>5, <2>1
  <2>7. Before(i + 1) <=> Before(i) /\ i + 1 \notin told
    BY <1>5, <2>1
  <2> HIDE DEF line, q, w, Before
  <2>8. CASE ~Before(i)
    <3>1. q.done /\ w = q
      BY <2>2, <2>5, <2>8 DEF WholeLine
    <3> QED BY <2>5, <2>7, <2>8, <3>1 DEF w
  <2>9. CASE Before(i) /\ i + 1 \notin told
    <3>1. None(q) /\ ~ToldFor(name, size, line)
      BY <2>5, <2>6, <2>9
    <3>2. w = q \/ w = [q EXCEPT !.skip = ~Ended(line)]
      BY <2>2, <2>4, <3>1 DEF WholeLine, ToldFor
    <3>3. None(w)
      BY <2>3, <3>1, <3>2
    <3> QED BY <2>7, <2>9, <3>3 DEF w
  <2>10. CASE Before(i) /\ i + 1 \in told
    <3>1. None(q) /\ ToldFor(name, size, line)
      BY <2>5, <2>6, <2>10
    <3>2. w = IF ~Fits(line) THEN [q EXCEPT !.rv = "ERANGE", !.done = TRUE]
              ELSE [q EXCEPT !.res = line.text, !.done = TRUE]
      BY <2>2, <2>4, <3>1 DEF WholeLine, ToldFor
    <3>3. w.done /\ Gives(w, line)
      BY <2>3, <3>1, <3>2
    <3>4. m = i + 1
      <4>1. \A j \in told : i + 1 <= j
        <5>1. \A j \in told : i < j /\ j \in Nat
          BY <1>5, <2>10 DEF Before
        <5> QED BY <5>1
      <4>2. m \in told /\ m <= i + 1 /\ i + 1 <= m /\ m \in Nat
        BY <1>5, <1>6, <2>10, <4>1
      <4> QED BY <4>2
    <3> QED BY <2>7, <2>10, <3>3, <3>4 DEF w, line
  <2> QED BY <2>8, <2>9, <2>10
<1>9. Nat \subseteq T
  <2> HIDE DEF T
  <2> QED BY <1>7, <1>8, Induction
<1>10. IF Before(K) THEN None(f[K]) ELSE f[K].done /\ Gives(f[K], content[m])
  <2>1. Holds(K)
    <3> HIDE DEF Holds
    <3> QED BY <1>2, <1>9
  <2> QED BY <2>1
<1>11. Before(K) <=> told = {}
  BY <1>2, <1>5
<1>12. told # {} => content[m] \in ShadowLines /\ content[m] # NULL
  BY <1>2, <1>5, <1>6, ShadowAssumption
<1>13. First(content, told) = IF told = {} THEN NULL ELSE content[m]
  BY DEF First, m
<1>14. told = {i \in DOMAIN content : Head(content[i].text) = name /\ (content[i].ok \/ ~Fits(content[i]))}
  BY DEF told, ToldFor
<1> HIDE DEF Before
<1> QED BY <1>4, <1>10, <1>11, <1>12, <1>13, <1>14

LEMMA RoomLeft ==
    ASSUME NEW size \in Nat, NEW spare \in Nat \ {0}, ~(size < 1 + spare)
    PROVE  size \in Nat \ {0, 1}
<1>1. spare >= 1 /\ size >= 2
  OBVIOUS
<1> QED BY <1>1

LEMMA ShadowHolds == shadow \in Shadows \cup {<<>>} => ShadowByLines
<1> SUFFICES ASSUME shadow \in Shadows \cup {<<>>}, NEW name \in Users \cup Refused,
                    NEW size \in Buffers, NEW tcb \in Tcbs \cup {NULL},
                    NEW failure \in {"", "EACCES", "EINVAL"}
    PROVE  LET content == IF tcb = NULL THEN shadow ELSE tcb
               Fits(line) == Len(line.text) < size /\ Ended(line)
               Counts(line) == Head(line.text) = name /\ (line.ok \/ ~Fits(line))
               line == First(content, {i \in DOMAIN content : Counts(content[i])})
           IN  \A r \in {getspnam_r(name, size, tcb, failure)} :
                  IF name \in Refused \/ size < 1 + Spare \/ failure # ""
                  THEN r.res = NULL /\ r.rv # ""
                  ELSE IF line = NULL THEN r.res = NULL /\ r.rv = ""
                  ELSE IF Fits(line) THEN r.res = line.text
                  ELSE r.res = NULL /\ r.rv = "ERANGE"
  BY DEF ShadowByLines
<1> DEFINE content == IF tcb = NULL THEN shadow ELSE tcb
           r == getspnam_r(name, size, tcb, failure)
<1>1. content \in Shadows \cup {<<>>}
  BY ShadowAssumption
<1>2. CASE name \in Refused \/ size < 1 + Spare \/ failure # ""
  <2>1. \/ r = [Unread EXCEPT !.rv = "EINVAL"] \/ r = [Unread EXCEPT !.rv = "ERANGE"]
        \/ failure # "" /\ r = [Unread EXCEPT !.rv = failure]
    BY <1>2, Zenon DEF getspnam_r
  <2>2. r.res = NULL /\ r.rv # ""
    BY <2>1 DEF Unread
  <2> QED BY <1>2, <2>2
<1>3. CASE ~(name \in Refused \/ size < 1 + Spare \/ failure # "")
  <2>1. name \in Users /\ size \in Nat \ {0, 1}
    <3>1. name \in Users /\ size \in Nat /\ Spare \in Nat \ {0} /\ ~(size < 1 + Spare)
      <4>1. Buffers \subseteq Nat
        BY BufferAssumption
      <4>2. Spare \in Nat \ {0}
        BY ShadowAssumption
      <4> QED BY <1>3, <4>1, <4>2, Zenon
    <3> HIDE DEF content, r
    <3> QED BY <3>1, RoomLeft, Zenon
  <2>2. r = ReadFile(name, size, content)
    BY <1>3 DEF getspnam_r
  <2> HIDE DEF r, content
  <2>3. OfLines(name, size, content, ReadFile(name, size, content))
    BY <1>1, <2>1, ContentHolds
  <2> QED BY <1>3, <2>2, <2>3, Zenon DEF r, content, OfLines
<1> QED BY <1>2, <1>3

-----------------------------------------------------------------------------
(***************************************************************************)
(* getpwnam() finds what an enumeration of the same file has returned.     *)
(***************************************************************************)
THEOREM LookupsAndEnumerations == Spec => []LookupsAgree
BY Invariant, LookupsHold, PTL

(***************************************************************************)
(* getpwnam_r() and getgrnam_r() write to a buffer that has room for the   *)
(* line and the members, and answer ERANGE only when some line has not.    *)
(***************************************************************************)
THEOREM Reentrancy == Spec => []ReentrantHolds
BY Invariant, ReentrantIs, PTL

(***************************************************************************)
(* getspnam_r() answers by whole lines, for any file of shadow, any name   *)
(* and any size of the buffer, however fgets() cuts the lines.             *)
(***************************************************************************)
THEOREM ShadowAnswers == Spec => []ShadowByLines
<1>1. IInv => shadow \in Shadows \cup {<<>>}
  BY IInvImplies DEF AccountsTypeOK
<1>2. IInv => ShadowByLines
  BY <1>1, ShadowHolds
<1> QED BY <1>2, Invariant, PTL
=============================================================================
