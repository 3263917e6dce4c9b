--------------------------- MODULE LauncherProofs ---------------------------
(***************************************************************************)
(* Theorems about the launcher, for every choice of games, patches and     *)
(* bounds: its settings files, the injection of the DLL and the watch over *)
(* 6th Trax; and for every number of buttons, lights and controls: the     *)
(* bindings it edits and the capture of a press.                           *)
(***************************************************************************)
EXTENDS MCLauncher, FiniteSetTheorems, WellFoundedInduction, TLAPS

-----------------------------------------------------------------------------
(* Recursion. *)

(* Every set of numbers has a smallest. *)
LEMMA Smallest ==
  ASSUME NEW S \in SUBSET Nat, S # {}
  PROVE  \E n \in S : \A m \in S : n <= m
  <1>1. IsWellFoundedOn(OpToRel(<, Nat), Nat)
    BY NatLessThanWellFounded
  <1>2. PICK n \in S : \A m \in S : ~(<<m, n>> \in OpToRel(<, Nat))
    BY <1>1, WFMin
  <1>3. \A m \in S : ~(m < n)
    BY <1>2 DEF OpToRel
  <1> QED
    BY <1>3

\* What body makes of f is right at x if f is right where the rank is smaller.
Descends(S, V, rank, n, body) ==
  /\ n \in Nat /\ rank \in [S -> Nat] /\ \A x \in S : rank[x] <= n
  /\ body \in [[S -> V] -> [S -> V]]
  /\ \A f, g \in [S -> V] : \A x \in S :
       (\A y \in S : rank[y] < rank[x] => f[y] = g[y]) => body[f][x] = body[g][x]

(* A recursion whose arguments become smaller has a solution: what body      *)
(* makes of a function that solves it up to some rank solves it one further. *)
LEMMA Recursion ==
  ASSUME NEW S, NEW V, NEW any \in [S -> V],
         NEW rank, NEW n, NEW body, Descends(S, V, rank, n, body)
  PROVE  \E f \in [S -> V] : f = body[f]
  <1> USE DEF Descends
  <1> DEFINE Solves(f, m) == \A x \in S : rank[x] < m => f[x] = body[f][x]
             Unsolved == {m \in Nat : ~\E f \in [S -> V] : Solves(f, m)}
  <1>1. Unsolved = {}
    <2> SUFFICES ASSUME Unsolved # {} PROVE FALSE
      OBVIOUS
    <2>1. PICK m \in Unsolved : \A k \in Unsolved : m <= k
      <3>1. Unsolved \in SUBSET Nat
        OBVIOUS
      <3> QED
        BY <3>1, Smallest
    <2>2. m \in Nat /\ m # 0
      <3>1. Solves(any, 0)
        OBVIOUS
      <3> QED
        BY <2>1, <3>1
    <2>3. m - 1 \in Nat /\ m - 1 \notin Unsolved
      BY <2>1, <2>2
    <2>4. PICK f \in [S -> V] : Solves(f, m - 1)
      BY <2>3
    <2>5. PICK g \in [S -> V] : g = body[f]
      OBVIOUS
    <2>6. ASSUME NEW x \in S, rank[x] < m PROVE g[x] = body[g][x]
      <3>1. ASSUME NEW y \in S, rank[y] < rank[x] PROVE f[y] = g[y]
        <4>1. rank[x] \in Nat /\ rank[y] \in Nat
          OBVIOUS
        <4>2. rank[y] < m - 1
          BY <2>2, <2>6, <3>1, <4>1
        <4> QED
          BY <2>4, <2>5, <4>2
      <3>2. body[f][x] = body[g][x]
        BY <3>1
      <3> QED
        BY <2>5, <3>2
    <2>7. Solves(g, m)
      BY <2>6
    <2> QED
      BY <2>1, <2>2, <2>5, <2>7
  <1>2. PICK f \in [S -> V] : Solves(f, n + 1)
    <2>1. n + 1 \in Nat /\ n + 1 \notin Unsolved
      <3> HIDE DEF Unsolved
      <3> QED
        BY <1>1
    <2> QED
      BY <2>1
  <1>3. ASSUME NEW x \in S PROVE f[x] = body[f][x]
    <2>1. rank[x] \in Nat /\ rank[x] <= n
      OBVIOUS
    <2>2. rank[x] < n + 1
      BY <2>1
    <2> QED
      BY <1>2, <2>2
  <1>4. f \in [S -> V] /\ body[f] \in [S -> V]
    OBVIOUS
  <1>5. f = body[f]
    BY <1>3, <1>4
  <1> QED
    BY <1>5

(* Nesting ends. *)
LEMMA Nesting ==
  \E depth \in [Defined -> Nat] :
    /\ \A p \in Defined : depth[p] <= Cardinality(Defined)
    /\ \A p \in Defined : \A i \in DOMAIN p.children : depth[p.children[i]] < depth[p]
  <1>1. Cardinality(Defined) \in Nat
    BY PatchStoreAssumption, FS_CardinalityType
  <1>2. PICK depth \in [Defined -> 0..Cardinality(Defined)] :
          \A p \in Defined : \A i \in DOMAIN p.children : depth[p.children[i]] < depth[p]
    BY PatchStoreAssumption
  <1>3. depth \in [Defined -> Nat] /\ \A p \in Defined : depth[p] <= Cardinality(Defined)
    BY <1>1
  <1> QED
    BY <1>2, <1>3

LEMMA ChildIsPatch ==
  ASSUME NEW p \in Defined, NEW i \in DOMAIN p.children
  PROVE  p.children[i] \in Defined
  BY PatchStoreAssumption

(* A recursion over what is nested in patches. *)
LEMMA NestedRecursion ==
  ASSUME NEW V, NEW any \in V, NEW body \in [[Defined -> V] -> [Defined -> V]],
         \A f, g \in [Defined -> V] : \A p \in Defined :
           (\A i \in DOMAIN p.children : f[p.children[i]] = g[p.children[i]]) => body[f][p] = body[g][p]
  PROVE  \E f \in [Defined -> V] : f = body[f]
  <1>1. PICK depth \in [Defined -> Nat] :
          /\ \A p \in Defined : depth[p] <= Cardinality(Defined)
          /\ \A p \in Defined : \A i \in DOMAIN p.children : depth[p.children[i]] < depth[p]
    BY Nesting
  <1>2. Cardinality(Defined) \in Nat
    BY PatchStoreAssumption, FS_CardinalityType
  <1>3. [p \in Defined |-> any] \in [Defined -> V]
    OBVIOUS
  <1>4. ASSUME NEW f \in [Defined -> V], NEW g \in [Defined -> V], NEW p \in Defined,
               \A q \in Defined : depth[q] < depth[p] => f[q] = g[q]
        PROVE  body[f][p] = body[g][p]
    <2>1. \A i \in DOMAIN p.children : f[p.children[i]] = g[p.children[i]]
      BY <1>1, <1>4, ChildIsPatch
    <2> QED
      BY <2>1
  <1>5. \A f, g \in [Defined -> V] : \A p \in Defined :
          (\A q \in Defined : depth[q] < depth[p] => f[q] = g[q]) => body[f][p] = body[g][p]
    BY <1>4
  <1>6. PICK n \in Nat : \A p \in Defined : depth[p] <= n
    BY <1>1, <1>2
  <1>7. PICK start \in [Defined -> V] : TRUE
    BY <1>3
  <1>8. Descends(Defined, V, depth, n, body)
    BY <1>5, <1>6 DEF Descends
  <1> QED
    BY <1>7, <1>8, Recursion

(* What holds of a patch whenever it holds of those nested in it holds of all. *)
LEMMA NestedInduction ==
  ASSUME NEW S, \A p \in Defined : (\A i \in DOMAIN p.children : p.children[i] \in S) => p \in S
  PROVE  Defined \subseteq S
  <1> SUFFICES ASSUME NEW bad \in Defined, bad \notin S PROVE FALSE
    OBVIOUS
  <1>1. PICK depth \in [Defined -> Nat] :
          \A p \in Defined : \A i \in DOMAIN p.children : depth[p.children[i]] < depth[p]
    BY Nesting
  <1> DEFINE Depths == {depth[p] : p \in Defined \ S}
  <1>2. PICK n \in Depths : \A m \in Depths : n <= m
    <2>1. Depths \in SUBSET Nat /\ Depths # {}
      OBVIOUS
    <2> QED
      BY <2>1, Smallest
  <1>3. PICK p \in Defined \ S : n = depth[p]
    OBVIOUS
  <1>4. ASSUME NEW i \in DOMAIN p.children PROVE p.children[i] \in S
    <2>1. p.children[i] \in Defined
      BY ChildIsPatch
    <2>2. depth[p.children[i]] < n
      BY <1>1, <1>3
    <2>3. depth[p.children[i]] \in Nat /\ n \in Nat
      BY <2>1
    <2> SUFFICES ASSUME p.children[i] \notin S PROVE FALSE
      OBVIOUS
    <2>4. depth[p.children[i]] \in Depths
      BY <2>1
    <2> HIDE DEF Depths
    <2> QED
      BY <1>2, <2>2, <2>3, <2>4
  <1> QED
    BY <1>4

(* A patch and what is nested in it. *)
LEMMA FamilyUnfolds ==
  ASSUME NEW p \in Defined
  PROVE  /\ Family[p] \subseteq Defined
         /\ Family[p] = {p} \cup UNION {Family[p.children[i]] : i \in DOMAIN p.children}
  <1> DEFINE V == SUBSET Defined
             Body(f) == [q \in Defined |-> {q} \cup UNION {f[q.children[i]] : i \in DOMAIN q.children}]
  <1>1. PICK body : body = [f \in [Defined -> V] |-> Body(f)]
    OBVIOUS
  <1>2. ASSUME NEW f \in [Defined -> V] PROVE body[f] = Body(f) /\ Body(f) \in [Defined -> V]
    <2>1. ASSUME NEW q \in Defined PROVE {q} \cup UNION {f[q.children[i]] : i \in DOMAIN q.children} \in V
      BY ChildIsPatch
    <2> QED
      BY <1>1, <2>1
  <1>3. body \in [[Defined -> V] -> [Defined -> V]]
    BY <1>1, <1>2
  <1>4. ASSUME NEW f \in [Defined -> V], NEW g \in [Defined -> V], NEW q \in Defined,
               \A i \in DOMAIN q.children : f[q.children[i]] = g[q.children[i]]
        PROVE  body[f][q] = body[g][q]
    <2>1. {f[q.children[i]] : i \in DOMAIN q.children} = {g[q.children[i]] : i \in DOMAIN q.children}
      BY <1>4
    <2>2. body[f] = Body(f) /\ body[g] = Body(g)
      <3> HIDE DEF Body, V
      <3> QED
        BY <1>2
    <2>3. /\ Body(f)[q] = {q} \cup UNION {f[q.children[i]] : i \in DOMAIN q.children}
          /\ Body(g)[q] = {q} \cup UNION {g[q.children[i]] : i \in DOMAIN q.children}
      OBVIOUS
    <2> HIDE DEF Body
    <2> QED
      BY <2>1, <2>2, <2>3
  <1>5. PICK f \in [Defined -> V] : f = body[f]
    <2>1. {} \in V
      OBVIOUS
    <2> QED
      BY <1>3, <1>4, <2>1, NestedRecursion
  <1>6. f = Body(f)
    BY <1>2, <1>5
  <1>7. Family = Body(Family)
    <2>1. Family = CHOOSE g : g = Body(g)
      BY DEF Family
    <2> HIDE DEF Body
    <2> QED
      BY <1>6, <2>1, Zenon
  <1>8. ASSUME NEW q \in Defined
        PROVE  Family[q] = {q} \cup UNION {Family[q.children[i]] : i \in DOMAIN q.children}
    <2>1. Family[q] = Body(Family)[q]
      <3> HIDE DEF Body
      <3> QED
        BY <1>7, Zenon
    <2> QED
      BY <2>1
  <1>9. PICK S : S = {q \in Defined : Family[q] \subseteq Defined}
    OBVIOUS
  <1>10. Defined \subseteq S
    <2>1. ASSUME NEW q \in Defined, \A i \in DOMAIN q.children : q.children[i] \in S
          PROVE  q \in S
      <3>1. UNION {Family[q.children[i]] : i \in DOMAIN q.children} \subseteq Defined
        BY <1>9, <2>1
      <3> QED
        BY <1>8, <1>9, <3>1
    <2> QED
      BY <2>1, NestedInduction
  <1> QED
    BY <1>8, <1>9, <1>10

(* A sequence made of another by a function of the index. *)
LEMMA MappedSeq ==
  ASSUME NEW X, NEW Y, NEW s \in Seq(X), NEW t, t = [i \in DOMAIN s |-> t[i]],
         \A i \in DOMAIN s : t[i] \in Y
  PROVE  t \in Seq(Y) /\ Len(t) = Len(s)
  <1>1. PICK n \in Nat : n = Len(s) /\ DOMAIN s = 1..n
    OBVIOUS
  <1>2. t \in [1..n -> Y]
    BY <1>1
  <1> QED
    BY <1>1, <1>2

LEMMA ConcatItems ==
  ASSUME NEW X, NEW s \in Seq(X), NEW t \in Seq(X)
  PROVE  s \o t \in Seq(X) /\ ToSet(s \o t) = ToSet(s) \cup ToSet(t)
  <1>1. s \o t \in Seq(X)
    OBVIOUS
  <1>2. PICK m \in Nat, n \in Nat : m = Len(s) /\ n = Len(t)
    OBVIOUS
  <1>3. /\ DOMAIN s = 1..m /\ DOMAIN t = 1..n /\ DOMAIN (s \o t) = 1..(m + n)
        /\ \A i \in 1..m : (s \o t)[i] = s[i]
        /\ \A i \in 1..n : (s \o t)[i + m] = t[i]
    BY <1>2
  <1>4. ASSUME NEW x \in ToSet(s \o t) PROVE x \in ToSet(s) \cup ToSet(t)
    <2>1. PICK i \in 1..(m + n) : x = (s \o t)[i]
      BY <1>3 DEF ToSet
    <2>2. CASE i <= m
      <3>1. i \in 1..m
        BY <2>2
      <3> QED
        BY <1>3, <2>1, <3>1 DEF ToSet
    <2>3. CASE i > m
      <3>1. PICK j \in 1..n : i = j + m
        <4>1. i - m \in 1..n /\ i = (i - m) + m
          BY <2>3
        <4> QED
          BY <4>1
      <3> QED
        BY <1>3, <2>1, <3>1 DEF ToSet
    <2> QED
      BY <2>2, <2>3
  <1>5. ASSUME NEW x \in ToSet(s) \cup ToSet(t) PROVE x \in ToSet(s \o t)
    <2>1. CASE x \in ToSet(s)
      <3>1. PICK i \in 1..m : x = s[i]
        BY <1>3, <2>1 DEF ToSet
      <3>2. i \in 1..(m + n)
        OBVIOUS
      <3> QED
        BY <1>3, <3>1, <3>2 DEF ToSet
    <2>2. CASE x \in ToSet(t)
      <3>1. PICK i \in 1..n : x = t[i]
        BY <1>3, <2>2 DEF ToSet
      <3>2. i + m \in 1..(m + n)
        OBVIOUS
      <3> QED
        BY <1>3, <3>1, <3>2 DEF ToSet
    <2> QED
      BY <2>1, <2>2
  <1> QED
    BY <1>1, <1>4, <1>5

\* The same, for numbers up to n.
Counts(S, V, n, body) ==
  /\ S \subseteq Nat /\ n \in Nat /\ \A i \in S : i <= n
  /\ body \in [[S -> V] -> [S -> V]]
  /\ \A f, g \in [S -> V] : \A i \in S :
       (\A j \in S : j < i => f[j] = g[j]) => body[f][i] = body[g][i]

LEMMA NumberRecursion ==
  ASSUME NEW S, NEW V, NEW start \in [S -> V], NEW n, NEW body, Counts(S, V, n, body)
  PROVE  \E f \in [S -> V] : f = body[f]
  <1>1. PICK place : place = [i \in S |-> i]
    OBVIOUS
  <1>2. /\ place \in [S -> Nat] /\ \A i \in S : place[i] = i
        /\ n \in Nat /\ \A i \in S : place[i] <= n
    BY <1>1 DEF Counts
  <1>3. Descends(S, V, place, n, body)
    BY <1>2 DEF Descends, Counts
  <1> QED
    BY <1>3, Recursion

(* FlattenSeq strings sequences together. *)
LEMMA FlattenItems ==
  ASSUME NEW X, NEW seqs \in Seq(Seq(X))
  PROVE  /\ FlattenSeq(seqs) \in Seq(X)
         /\ ToSet(FlattenSeq(seqs)) = UNION {ToSet(seqs[i]) : i \in DOMAIN seqs}
  <1>1. CASE Len(seqs) = 0
    <2>1. FlattenSeq(seqs) = seqs
      BY <1>1 DEF FlattenSeq
    <2>2. seqs = << >>
      BY <1>1
    <2> QED
      BY <2>1, <2>2 DEF ToSet
  <1>2. CASE Len(seqs) # 0
    <2>1. PICK n \in Nat : n = Len(seqs) /\ n # 0 /\ DOMAIN seqs = 1..n
      BY <1>2
    <2> DEFINE S == 1..n
               V == Seq(X)
               Body(f) == [i \in 1..n |-> IF i = 1 THEN seqs[i] ELSE f[i - 1] \o seqs[i]]
               Flatten == CHOOSE f : f = Body(f)
    <2>2. FlattenSeq(seqs) = Flatten[n]
      BY <2>1 DEF FlattenSeq
    <2>3. \A i \in 1..n : seqs[i] \in Seq(X)
      BY <2>1
    <2>4. ASSUME NEW f \in [S -> V], NEW i \in S
          PROVE  Body(f)[i] \in V
      <3>1. CASE i = 1
        BY <2>3, <3>1
      <3>2. CASE i # 1
        <4>1. i - 1 \in 1..n
          BY <3>2
        <4>2. f[i - 1] \in Seq(X) /\ seqs[i] \in Seq(X)
          BY <2>3, <4>1
        <4>3. Body(f)[i] = f[i - 1] \o seqs[i]
          BY <3>2
        <4>4. f[i - 1] \o seqs[i] \in Seq(X)
          BY <4>2
        <4> QED
          BY <4>3, <4>4
      <3> QED
        BY <3>1, <3>2
    <2>5. PICK body : body = [f \in [S -> V] |-> Body(f)]
      OBVIOUS
    <2>6. ASSUME NEW f \in [S -> V] PROVE body[f] = Body(f) /\ Body(f) \in [S -> V]
      <3>1. body[f] = Body(f)
        BY <2>5
      <3>2. Body(f) = [i \in S |-> Body(f)[i]]
        OBVIOUS
      <3> HIDE DEF Body
      <3> QED
        BY <2>4, <3>1, <3>2
    <2>8. ASSUME NEW f \in [S -> V], NEW g \in [S -> V], NEW i \in S,
                 \A j \in S : j < i => f[j] = g[j]
          PROVE  body[f][i] = body[g][i]
      <3>1. body[f][i] = Body(f)[i] /\ body[g][i] = Body(g)[i]
        <4> HIDE DEF Body, S, V
        <4> QED
          BY <2>6
      <3>2. CASE i = 1
        BY <3>1, <3>2
      <3>3. CASE i # 1
        <4>1. i - 1 \in S
          BY <3>3
        <4>2. i - 1 < i
          OBVIOUS
        <4>3. f[i - 1] = g[i - 1]
          BY <2>8, <4>1, <4>2
        <4> QED
          BY <3>1, <3>3, <4>3
      <3> QED
        BY <3>2, <3>3
    <2>9. body \in [[S -> V] -> [S -> V]]
      <3> HIDE DEF Body, S, V
      <3> QED
        BY <2>5, <2>6
    <2>10. PICK start \in [S -> V] : TRUE
      <3>1. [i \in S |-> seqs[i]] \in [S -> V]
        BY <2>3
      <3> QED
        BY <3>1
    <2>11. Counts(S, V, n, body)
      <3>1. S \subseteq Nat /\ \A i \in S : i <= n
        OBVIOUS
      <3> HIDE DEF Body, S, V
      <3> QED
        BY <2>1, <2>8, <2>9, <3>1 DEF Counts
    <2>12. PICK f \in [S -> V] : f = body[f]
      <3> HIDE DEF S, V, Body, Flatten
      <3> QED
        BY <2>10, <2>11, NumberRecursion
    <2>13. f = Body(f)
      BY <2>6, <2>12
    <2>14. Flatten = Body(Flatten)
      <3> HIDE DEF Body
      <3> QED
        BY <2>13, Zenon
    <2>15. PICK flat : flat = Flatten
      OBVIOUS
    <2> HIDE DEF Flatten
    <2>16. ASSUME NEW i \in 1..n
           PROVE  flat[i] = IF i = 1 THEN seqs[i] ELSE flat[i - 1] \o seqs[i]
      <3>1. flat = Body(flat)
        BY <2>14, <2>15
      <3>2. flat[i] = Body(flat)[i]
        <4> HIDE DEF Body
        <4> QED
          BY <3>1, Zenon
      <3> QED
        BY <3>2
    <2> DEFINE Right(i) == /\ flat[i] \in Seq(X)
                           /\ ToSet(flat[i]) = UNION {ToSet(seqs[j]) : j \in 1..i}
               Wrong == {i \in 1..n : ~Right(i)}
    <2>17. Wrong = {}
      <3> SUFFICES ASSUME Wrong # {} PROVE FALSE
        OBVIOUS
      <3>1. PICK i \in Wrong : \A j \in Wrong : i <= j
        <4>1. Wrong \in SUBSET Nat
          OBVIOUS
        <4> QED
          BY <4>1, Smallest
      <3>2. i \in 1..n /\ ~Right(i)
        OBVIOUS
      <3>3. seqs[i] \in Seq(X)
        BY <2>3, <3>2
      <3>4. CASE i = 1
        <4>1. flat[i] = seqs[i]
          BY <2>16, <3>2, <3>4
        <4>2. {ToSet(seqs[j]) : j \in 1..i} = {ToSet(seqs[i])}
          BY <3>4
        <4> QED
          BY <3>2, <3>3, <4>1, <4>2
      <3>5. CASE i # 1
        <4>1. i - 1 \in 1..n /\ i - 1 < i
          BY <3>2, <3>5
        <4>2. i - 1 \notin Wrong
          <5> HIDE DEF Wrong
          <5> QED
            BY <3>1, <3>2, <4>1
        <4>3. Right(i - 1)
          BY <4>1, <4>2
        <4>4. flat[i] = flat[i - 1] \o seqs[i]
          BY <2>16, <3>2, <3>5
        <4>5. flat[i] \in Seq(X) /\ ToSet(flat[i]) = ToSet(flat[i - 1]) \cup ToSet(seqs[i])
          <5>1. PICK a \in Seq(X) : a = flat[i - 1]
            BY <4>3
          <5>2. PICK b \in Seq(X) : b = seqs[i]
            BY <3>3
          <5>3. a \o b \in Seq(X) /\ ToSet(a \o b) = ToSet(a) \cup ToSet(b)
            BY ConcatItems
          <5> QED
            BY <4>4, <5>1, <5>2, <5>3
        <4>6. 1..i = 1..(i - 1) \cup {i}
          BY <3>2
        <4>7. {ToSet(seqs[j]) : j \in 1..i} = {ToSet(seqs[j]) : j \in 1..(i - 1)} \cup {ToSet(seqs[i])}
          BY <4>6
        <4>8. UNION {ToSet(seqs[j]) : j \in 1..i}
                = (UNION {ToSet(seqs[j]) : j \in 1..(i - 1)}) \cup ToSet(seqs[i])
          <5>1. PICK A, b : A = {ToSet(seqs[j]) : j \in 1..(i - 1)} /\ b = ToSet(seqs[i])
            OBVIOUS
          <5>2. UNION (A \cup {b}) = (UNION A) \cup b
            <6>1. ASSUME NEW x PROVE x \in UNION (A \cup {b}) <=> x \in (UNION A) \cup b
              OBVIOUS
            <6> QED
              BY <6>1
          <5> QED
            BY <4>7, <5>1, <5>2, Zenon
        <4> QED
          BY <3>2, <4>3, <4>5, <4>8
      <3> QED
        BY <3>4, <3>5
    <2>18. Right(n)
      <3>1. n \in 1..n /\ n \notin Wrong
        <4> HIDE DEF Wrong
        <4> QED
          BY <2>1, <2>17
      <3> QED
        BY <3>1
    <2> QED
      BY <2>1, <2>2, <2>15, <2>18
  <1> QED
    BY <1>1, <1>2

(* What holds at first and is kept by each of n steps holds after all. *)
LEMMA Counting ==
  ASSUME NEW n \in Nat, NEW S, 0 \in S, \A i \in 1..n : i - 1 \in S => i \in S
  PROVE  0..n \subseteq S
  <1> DEFINE Outside == {i \in 0..n : i \notin S}
  <1>1. Outside = {}
    <2> SUFFICES ASSUME Outside # {} PROVE FALSE
      OBVIOUS
    <2>1. PICK i \in Outside : \A j \in Outside : i <= j
      <3>1. Outside \in SUBSET Nat
        OBVIOUS
      <3> QED
        BY <3>1, Smallest
    <2>2. i \in 1..n /\ i - 1 \in 0..n /\ ~(i <= i - 1)
      OBVIOUS
    <2>3. i - 1 \notin Outside
      <3> HIDE DEF Outside
      <3> QED
        BY <2>1, <2>2
    <2> QED
      BY <2>2, <2>3
  <1> QED
    BY <1>1

Iterates(V, n, first, step, f) ==
  /\ f \in [0..n -> V]
  /\ f = [i \in 0..n |-> IF i = 0 THEN first ELSE step[<<i, f[i - 1]>>]]

Stays(V, n, first, step) == n \in Nat /\ first \in V /\ step \in [(1..n) \X V -> V]

(* An iteration that stays within V has a value for each of its steps. *)
LEMMA Iteration ==
  ASSUME NEW V, NEW n, NEW first, NEW step, Stays(V, n, first, step)
  PROVE  \E f : Iterates(V, n, first, step, f)
  <1> USE DEF Stays
  <1> DEFINE S == 0..n
             Body(f) == [i \in S |-> IF i = 0 THEN first ELSE step[<<i, f[i - 1]>>]]
  <1>1. ASSUME NEW f \in [S -> V], NEW i \in S PROVE Body(f)[i] \in V
    <2>1. CASE i = 0
      BY <2>1
    <2>2. CASE i # 0
      <3>1. i \in 1..n /\ i - 1 \in S
        BY <2>2
      <3>2. <<i, f[i - 1]>> \in (1..n) \X V
        BY <3>1
      <3>3. step[<<i, f[i - 1]>>] \in V
        BY <3>2
      <3>4. Body(f)[i] = step[<<i, f[i - 1]>>]
        BY <2>2
      <3> QED
        BY <3>3, <3>4
    <2> QED
      BY <2>1, <2>2
  <1>2. PICK body : body = [f \in [S -> V] |-> Body(f)]
    OBVIOUS
  <1>3. ASSUME NEW f \in [S -> V] PROVE body[f] = Body(f) /\ Body(f) \in [S -> V]
    <2>1. Body(f) = [i \in S |-> Body(f)[i]]
      OBVIOUS
    <2> HIDE DEF Body, S
    <2> QED
      BY <1>1, <1>2, <2>1
  <1>4. ASSUME NEW f \in [S -> V], NEW g \in [S -> V], NEW i \in S, \A j \in S : j < i => f[j] = g[j]
        PROVE  body[f][i] = body[g][i]
    <2>1. body[f] = Body(f) /\ body[g] = Body(g)
      <3> HIDE DEF Body, S
      <3> QED
        BY <1>3
    <2>2. CASE i = 0
      <3>1. Body(f)[i] = first /\ Body(g)[i] = first
        BY <2>2
      <3> HIDE DEF Body
      <3> QED
        BY <2>1, <3>1
    <2>3. CASE i # 0
      <3>1. i - 1 \in S /\ i - 1 < i
        BY <2>3
      <3>2. f[i - 1] = g[i - 1]
        BY <1>4, <3>1
      <3>3. Body(f)[i] = step[<<i, f[i - 1]>>] /\ Body(g)[i] = step[<<i, g[i - 1]>>]
        BY <2>3
      <3> HIDE DEF Body
      <3> QED
        BY <2>1, <3>2, <3>3
    <2> QED
      BY <2>2, <2>3
  <1>5. Counts(S, V, n, body)
    <2>1. S \subseteq Nat /\ \A i \in S : i <= n
      OBVIOUS
    <2>2. body \in [[S -> V] -> [S -> V]]
      <3> HIDE DEF Body, S
      <3> QED
        BY <1>2, <1>3
    <2> HIDE DEF Body, S
    <2> QED
      BY <1>4, <2>1, <2>2 DEF Counts
  <1>6. PICK start \in [S -> V] : TRUE
    <2>1. [i \in S |-> first] \in [S -> V]
      OBVIOUS
    <2> QED
      BY <2>1
  <1>7. PICK f \in [S -> V] : f = body[f]
    <2> HIDE DEF S, Body
    <2> QED
      BY <1>5, <1>6, NumberRecursion
  <1>8. f = Body(f)
    <2> HIDE DEF S, Body
    <2> QED
      BY <1>3, <1>7
  <1> QED
    BY <1>8 DEF Iterates

-----------------------------------------------------------------------------
(* The patch store: the rows of the window and what is applied. *)

(* A patch's rows are its own and, if it is enabled, those nested in it. *)
LEMMA RowsUnfold ==
  ASSUME NEW st, NEW p \in Defined
  PROVE  RowsOf(p, st) = {p} \cup (IF st[p.id].enabled
                                   THEN UNION {RowsOf(p.children[i], st) : i \in DOMAIN p.children}
                                   ELSE {})
  <1> DEFINE V == SUBSET Defined
             Body(f) == [q \in Defined |->
                           {q} \cup IF st[q.id].enabled
                                    THEN UNION {f[q.children[i]] : i \in DOMAIN q.children}
                                    ELSE {}]
             Shown == CHOOSE f : f = Body(f)
  <1>1. PICK body : body = [f \in [Defined -> V] |-> Body(f)]
    OBVIOUS
  <1>2. ASSUME NEW f \in [Defined -> V] PROVE body[f] = Body(f) /\ Body(f) \in [Defined -> V]
    <2>1. ASSUME NEW q \in Defined
          PROVE  {q} \cup (IF st[q.id].enabled THEN UNION {f[q.children[i]] : i \in DOMAIN q.children}
                                               ELSE {}) \in V
      <3>1. UNION {f[q.children[i]] : i \in DOMAIN q.children} \in V
        BY ChildIsPatch
      <3> QED
        BY <3>1
    <2>2. body[f] = Body(f)
      BY <1>1
    <2> QED
      BY <2>1, <2>2
  <1>3. body \in [[Defined -> V] -> [Defined -> V]]
    <2> HIDE DEF Body, V
    <2> QED
      BY <1>1, <1>2
  <1>4. ASSUME NEW f \in [Defined -> V], NEW g \in [Defined -> V], NEW q \in Defined,
               \A i \in DOMAIN q.children : f[q.children[i]] = g[q.children[i]]
        PROVE  body[f][q] = body[g][q]
    <2>1. {f[q.children[i]] : i \in DOMAIN q.children} = {g[q.children[i]] : i \in DOMAIN q.children}
      BY <1>4
    <2>2. body[f] = Body(f) /\ body[g] = Body(g)
      <3> HIDE DEF Body, V
      <3> QED
        BY <1>2
    <2>3. Body(f)[q] = Body(g)[q]
      BY <2>1
    <2> HIDE DEF Body
    <2> QED
      BY <2>2, <2>3
  <1>5. PICK f \in [Defined -> V] : f = body[f]
    <2>1. {} \in V
      OBVIOUS
    <2> HIDE DEF Body, V
    <2> QED
      BY <1>3, <1>4, <2>1, NestedRecursion
  <1>6. f = Body(f)
    <2> HIDE DEF Body, V
    <2> QED
      BY <1>2, <1>5
  <1>7. Shown = Body(Shown)
    <2> HIDE DEF Body
    <2> QED
      BY <1>6, Zenon
  <1>8. PICK shown : shown = Shown
    OBVIOUS
  <1>9. ASSUME NEW q \in Defined PROVE RowsOf(q, st) = shown[q]
    BY <1>8 DEF RowsOf
  <1> HIDE DEF Shown
  <1>10. shown[p] = Body(shown)[p]
    <2> HIDE DEF Body
    <2>1. shown = Body(shown)
      BY <1>7, <1>8
    <2> QED
      BY <2>1, Zenon
  <1>11. {RowsOf(p.children[i], st) : i \in DOMAIN p.children}
           = {shown[p.children[i]] : i \in DOMAIN p.children}
    BY <1>9, ChildIsPatch
  <1> QED
    BY <1>9, <1>10, <1>11

(* A patch is applied before those enabled in it. *)
LEMMA OrderUnfold ==
  ASSUME NEW st, NEW p \in Defined
  PROVE  /\ ApplyPatch(st) \in [Defined -> Seq(Defined)]
         /\ ApplyPatch(st)[p] = IF st[p.id].enabled
                                THEN <<p>> \o FlattenSeq([i \in DOMAIN p.children |->
                                                            ApplyPatch(st)[p.children[i]]])
                                ELSE << >>
  <1> DEFINE V == Seq(Defined)
             Nested(f, q) == [i \in DOMAIN q.children |-> f[q.children[i]]]
             Body(f) == [q \in Defined |-> IF st[q.id].enabled
                                           THEN <<q>> \o FlattenSeq(Nested(f, q))
                                           ELSE << >>]
             Order == CHOOSE f : f = Body(f)
  <1>1. PICK body : body = [f \in [Defined -> V] |-> Body(f)]
    OBVIOUS
  <1>2. ASSUME NEW f, NEW q \in Defined, \A i \in DOMAIN q.children : f[q.children[i]] \in V
        PROVE  Body(f)[q] \in V
    <2>1. PICK nested : nested = Nested(f, q)
      OBVIOUS
    <2>2. q.children \in Seq(Defined)
      BY PatchStoreAssumption
    <2>3. nested = [i \in DOMAIN q.children |-> nested[i]] /\ \A i \in DOMAIN q.children : nested[i] \in V
      BY <1>2, <2>1
    <2>4. nested \in Seq(V)
      <3> HIDE DEF V
      <3> QED
        BY <2>2, <2>3, MappedSeq
    <2>5. FlattenSeq(nested) \in Seq(Defined)
      BY <2>4, FlattenItems
    <2>6. <<q>> \in Seq(Defined)
      OBVIOUS
    <2>7. <<q>> \o FlattenSeq(nested) \in V
      BY <2>5, <2>6
    <2>8. Body(f)[q] = IF st[q.id].enabled THEN <<q>> \o FlattenSeq(nested) ELSE << >>
      BY <2>1
    <2>9. << >> \in V
      OBVIOUS
    <2> HIDE DEF Body
    <2> QED
      BY <2>7, <2>8, <2>9
  <1>3. ASSUME NEW f \in [Defined -> V] PROVE body[f] = Body(f) /\ Body(f) \in [Defined -> V]
    <2>1. \A q \in Defined : Body(f)[q] \in V
      <3> HIDE DEF Body, V
      <3> QED
        BY <1>2, ChildIsPatch
    <2>2. Body(f) = [q \in Defined |-> Body(f)[q]]
      OBVIOUS
    <2>3. body[f] = Body(f)
      BY <1>1
    <2> HIDE DEF Body, V
    <2> QED
      BY <2>1, <2>2, <2>3
  <1>4. body \in [[Defined -> V] -> [Defined -> V]]
    <2> HIDE DEF Body, V
    <2> QED
      BY <1>1, <1>3
  <1>5. ASSUME NEW f \in [Defined -> V], NEW g \in [Defined -> V], NEW q \in Defined,
               \A i \in DOMAIN q.children : f[q.children[i]] = g[q.children[i]]
        PROVE  body[f][q] = body[g][q]
    <2>1. Nested(f, q) = Nested(g, q)
      BY <1>5
    <2>2. body[f] = Body(f) /\ body[g] = Body(g)
      <3> HIDE DEF Body, V
      <3> QED
        BY <1>3
    <2>3. Body(f)[q] = Body(g)[q]
      <3> HIDE DEF Nested
      <3> QED
        BY <2>1
    <2> HIDE DEF Body
    <2> QED
      BY <2>2, <2>3
  <1>6. PICK f \in [Defined -> V] : f = body[f]
    <2>1. << >> \in V
      OBVIOUS
    <2> HIDE DEF Body, V
    <2> QED
      BY <1>4, <1>5, <2>1, NestedRecursion
  <1>7. f = Body(f)
    <2> HIDE DEF Body, V
    <2> QED
      BY <1>3, <1>6
  <1>8. Order = Body(Order)
    <2> HIDE DEF Body
    <2> QED
      BY <1>7, Zenon
  <1>9. PICK order : order = Order
    OBVIOUS
  <1>10. ApplyPatch(st) = order
    BY <1>9 DEF ApplyPatch
  <1> HIDE DEF Order
  <1>11. order = Body(order)
    BY <1>8, <1>9
  <1>12. PICK S : S = {q \in Defined : order[q] \in V}
    OBVIOUS
  <1>13. \A q \in Defined : order[q] = Body(order)[q]
    <2> HIDE DEF Body
    <2> QED
      BY <1>11, Zenon
  <1>14. Defined \subseteq S
    <2>1. ASSUME NEW q \in Defined, \A i \in DOMAIN q.children : q.children[i] \in S
          PROVE  q \in S
      <3>1. Body(order)[q] \in V
        <4> HIDE DEF Body, V
        <4> QED
          BY <1>2, <1>12, <2>1
      <3> HIDE DEF Body, V
      <3> QED
        BY <1>12, <1>13, <3>1
    <2> QED
      BY <2>1, NestedInduction
  <1>15. order \in [Defined -> V]
    <2>1. order = [q \in Defined |-> order[q]]
      <3>1. Body(order) = [q \in Defined |-> Body(order)[q]]
        OBVIOUS
      <3> HIDE DEF Body
      <3> QED
        BY <1>11, <3>1
    <2> HIDE DEF V
    <2> QED
      BY <1>12, <1>14, <2>1
  <1>16. order[p] = IF st[p.id].enabled THEN <<p>> \o FlattenSeq(Nested(order, p)) ELSE << >>
    BY <1>13
  <1> QED
    BY <1>10, <1>15, <1>16

(* What is applied with a patch is what the window's rows show enabled. *)
LEMMA OrderIsRows ==
  ASSUME NEW st, NEW p \in Defined
  PROVE  ToSet(ApplyPatch(st)[p]) = {q \in RowsOf(p, st) : st[q.id].enabled}
  <1> DEFINE On(q) == {r \in RowsOf(q, st) : st[r.id].enabled}
  <1>1. PICK S : S = {q \in Defined : ToSet(ApplyPatch(st)[q]) = On(q)}
    OBVIOUS
  <1>2. ASSUME NEW q \in Defined, \A i \in DOMAIN q.children : q.children[i] \in S
        PROVE  q \in S
    <2>1. CASE ~st[q.id].enabled
      <3>1. ApplyPatch(st)[q] = << >>
        BY <2>1, OrderUnfold
      <3>2. RowsOf(q, st) = {q}
        BY <2>1, RowsUnfold
      <3>3. ToSet(<< >>) = {}
        BY DEF ToSet
      <3> QED
        BY <1>1, <2>1, <3>1, <3>2, <3>3
    <2>2. CASE st[q.id].enabled
      <3>1. PICK nested : nested = [i \in DOMAIN q.children |-> ApplyPatch(st)[q.children[i]]]
        OBVIOUS
      <3>2. q.children \in Seq(Defined)
        BY PatchStoreAssumption
      <3>3. nested \in Seq(Seq(Defined)) /\ DOMAIN nested = DOMAIN q.children
        <4>1. \A i \in DOMAIN q.children : nested[i] \in Seq(Defined)
          BY <3>1, OrderUnfold, ChildIsPatch
        <4>2. nested = [i \in DOMAIN q.children |-> nested[i]]
          BY <3>1
        <4> QED
          BY <3>2, <4>1, <4>2, MappedSeq
      <3>4. ToSet(FlattenSeq(nested)) = UNION {ToSet(nested[i]) : i \in DOMAIN q.children}
            /\ FlattenSeq(nested) \in Seq(Defined)
        BY <3>3, FlattenItems
      <3>5. {ToSet(nested[i]) : i \in DOMAIN q.children} = {On(q.children[i]) : i \in DOMAIN q.children}
        <4>1. \A i \in DOMAIN q.children : ToSet(nested[i]) = On(q.children[i])
          <5> HIDE DEF On
          <5> QED
            BY <1>1, <1>2, <3>1
        <4> HIDE DEF On
        <4> QED
          BY <4>1
      <3>6. ApplyPatch(st)[q] = <<q>> \o FlattenSeq(nested)
        BY <2>2, <3>1, OrderUnfold
      <3>7. ToSet(ApplyPatch(st)[q]) = {q} \cup ToSet(FlattenSeq(nested))
        <4>1. PICK tail \in Seq(Defined) : tail = FlattenSeq(nested)
          BY <3>4
        <4>2. PICK head \in Seq(Defined) : head = <<q>>
          <5>1. <<q>> \in Seq(Defined)
            OBVIOUS
          <5> QED
            BY <5>1
        <4>3. ToSet(head) = {q}
          BY <4>2 DEF ToSet
        <4>4. ToSet(head \o tail) = ToSet(head) \cup ToSet(tail)
          BY ConcatItems
        <4> QED
          BY <3>6, <4>1, <4>2, <4>3, <4>4
      <3>8. RowsOf(q, st) = {q} \cup UNION {RowsOf(q.children[i], st) : i \in DOMAIN q.children}
        BY <2>2, RowsUnfold
      <3>9. On(q) = {q} \cup UNION {On(q.children[i]) : i \in DOMAIN q.children}
        BY <2>2, <3>8
      <3> HIDE DEF On
      <3> QED
        BY <1>1, <3>4, <3>5, <3>7, <3>9
    <2> QED
      BY <2>1, <2>2
  <1>3. Defined \subseteq S
    BY <1>2, NestedInduction
  <1> QED
    BY <1>1, <1>3

(* Rows are of the patch's family. *)
LEMMA RowsInFamily ==
  ASSUME NEW st, NEW p \in Defined
  PROVE  RowsOf(p, st) \subseteq Family[p] /\ Family[p] \subseteq Defined
  <1>1. PICK S : S = {q \in Defined : RowsOf(q, st) \subseteq Family[q]}
    OBVIOUS
  <1>2. ASSUME NEW q \in Defined, \A i \in DOMAIN q.children : q.children[i] \in S
        PROVE  q \in S
    <2>1. Family[q] = {q} \cup UNION {Family[q.children[i]] : i \in DOMAIN q.children}
      BY FamilyUnfolds
    <2>2. UNION {RowsOf(q.children[i], st) : i \in DOMAIN q.children}
            \subseteq UNION {Family[q.children[i]] : i \in DOMAIN q.children}
      BY <1>1, <1>2
    <2>3. RowsOf(q, st) \subseteq {q} \cup UNION {RowsOf(q.children[i], st) : i \in DOMAIN q.children}
      BY RowsUnfold
    <2> QED
      BY <1>1, <2>1, <2>2, <2>3
  <1>3. Defined \subseteq S
    BY <1>2, NestedInduction
  <1> QED
    BY <1>1, <1>3, FamilyUnfolds

(* A phase applies the patches of its timing, each with what is nested. *)
LEMMA PhaseItems ==
  ASSUME NEW st, NEW list \in Seq(Defined), NEW timing
  PROVE  /\ Phase(list, st, timing) \in Seq(Defined)
         /\ ToSet(Phase(list, st, timing))
              = UNION {ToSet(ApplyPatch(st)[list[i]]) : i \in {j \in DOMAIN list : list[j].apply = timing}}
  <1> DEFINE At(i) == IF list[i].apply = timing THEN ApplyPatch(st)[list[i]] ELSE << >>
  <1>1. PICK parts : parts = [i \in DOMAIN list |-> At(i)]
    OBVIOUS
  <1>2. \A i \in DOMAIN list : list[i] \in Defined
    OBVIOUS
  <1>3. \A i \in DOMAIN list : At(i) \in Seq(Defined)
    <2>1. << >> \in Seq(Defined)
      OBVIOUS
    <2> QED
      BY <1>2, <2>1, OrderUnfold
  <1>4. parts \in Seq(Seq(Defined)) /\ DOMAIN parts = DOMAIN list
    <2>1. parts = [i \in DOMAIN list |-> parts[i]] /\ \A i \in DOMAIN list : parts[i] \in Seq(Defined)
      <3> HIDE DEF At
      <3> QED
        BY <1>1, <1>3
    <2> QED
      BY <1>1, <2>1, MappedSeq
  <1>5. Phase(list, st, timing) = FlattenSeq(parts)
    BY <1>1 DEF Phase
  <1>6. /\ FlattenSeq(parts) \in Seq(Defined)
        /\ ToSet(FlattenSeq(parts)) = UNION {ToSet(parts[i]) : i \in DOMAIN list}
    BY <1>4, FlattenItems
  <1>7. \A i \in DOMAIN list : parts[i] = At(i)
    <2> HIDE DEF At
    <2> QED
      BY <1>1
  <1>8. ASSUME NEW x
        PROVE  x \in UNION {ToSet(parts[i]) : i \in DOMAIN list}
               <=> x \in UNION {ToSet(ApplyPatch(st)[list[i]]) : i \in {j \in DOMAIN list : list[j].apply = timing}}
    <2>1. ToSet(<< >>) = {}
      BY DEF ToSet
    <2>2. \A i \in DOMAIN list :
            x \in ToSet(parts[i]) <=> list[i].apply = timing /\ x \in ToSet(ApplyPatch(st)[list[i]])
      BY <1>7, <2>1
    <2>3. x \in UNION {ToSet(parts[i]) : i \in DOMAIN list}
          <=> \E i \in DOMAIN list : x \in ToSet(parts[i])
      OBVIOUS
    <2>4. x \in UNION {ToSet(ApplyPatch(st)[list[i]]) : i \in {j \in DOMAIN list : list[j].apply = timing}}
          <=> \E i \in DOMAIN list : list[i].apply = timing /\ x \in ToSet(ApplyPatch(st)[list[i]])
      OBVIOUS
    <2> QED
      BY <2>2, <2>3, <2>4
  <1> QED
    BY <1>5, <1>6, <1>8

(* What is chosen is what the three phases apply. *)
LEMMA ChosenByPhase ==
  ASSUME NEW st, NEW list \in Seq(Defined), NEW w
  PROVE  /\ w \in Chosen(list, st)
            <=> \E timing \in Timing : \E p \in ToSet(Phase(list, st, timing)) :
                  w = [patch |-> p, value |-> st[p.id].value, timing |-> timing]
         /\ \A timing : ToSet(Phase(list, st, timing)) \subseteq Tree(list)
         /\ Tree(list) \subseteq Defined
  <1> DEFINE Ordered(timing) == ToSet(Phase(list, st, timing))
             On(i) == {q \in RowsOf(list[i], st) : st[q.id].enabled}
             Row(p, timing) == [patch |-> p, value |-> st[p.id].value, timing |-> timing]
  <1>1. \A i \in DOMAIN list : list[i] \in Defined
    OBVIOUS
  <1>2. \A i \in DOMAIN list : ToSet(ApplyPatch(st)[list[i]]) = On(i)
    BY <1>1, OrderIsRows
  <1>3. ASSUME NEW timing, NEW q
        PROVE  q \in Ordered(timing) <=> \E i \in DOMAIN list : list[i].apply = timing /\ q \in On(i)
    <2>1. Ordered(timing)
            = UNION {ToSet(ApplyPatch(st)[list[i]]) : i \in {j \in DOMAIN list : list[j].apply = timing}}
      BY PhaseItems
    <2>2. q \in Ordered(timing)
          <=> \E i \in DOMAIN list : list[i].apply = timing /\ q \in ToSet(ApplyPatch(st)[list[i]])
      <3> HIDE DEF Ordered
      <3> QED
        BY <2>1
    <2> HIDE DEF On, Ordered
    <2> QED
      BY <1>2, <2>2
  <1>4. \A i \in DOMAIN list : list[i].apply \in Timing
    BY <1>1, PatchStoreAssumption
  <1>5. w \in Chosen(list, st)
        <=> \E i \in DOMAIN list : \E p \in On(i) : w = Row(p, list[i].apply)
    BY DEF Chosen
  <1>6. (\E i \in DOMAIN list : \E p \in On(i) : w = Row(p, list[i].apply))
        <=> \E timing \in Timing : \E p \in Ordered(timing) : w = Row(p, timing)
    <2> HIDE DEF On, Ordered, Row
    <2> QED
      BY <1>3, <1>4
  <1>7. Tree(list) \subseteq Defined /\ \A i \in DOMAIN list : On(i) \subseteq Tree(list)
    <2>1. \A i \in DOMAIN list : RowsOf(list[i], st) \subseteq Family[list[i]]
                                 /\ Family[list[i]] \subseteq Defined
      BY <1>1, RowsInFamily
    <2> QED
      BY <2>1 DEF Tree
  <1>8. \A timing : Ordered(timing) \subseteq Tree(list)
    <2> HIDE DEF On, Ordered
    <2> QED
      BY <1>3, <1>7
  <1>9. w \in Chosen(list, st)
        <=> \E timing \in Timing : \E p \in ToSet(Phase(list, st, timing)) : w = Row(p, timing)
    <2> HIDE DEF On, Row
    <2> QED
      BY <1>5, <1>6
  <1>10. \A timing : ToSet(Phase(list, st, timing)) \subseteq Tree(list)
    BY <1>8
  <1> HIDE DEF On, Ordered
  <1> QED
    BY <1>7, <1>9, <1>10

-----------------------------------------------------------------------------
(* What patches do to the code. *)

\* What a patch writes.
Stamp(p, st) == [by |-> p.id, value |-> IF p.type = "value" THEN st[p.id].value ELSE 0]

\* A group that has a match writes it, one that has none ends the patch.
GroupWrites(before, after, group, byte) ==
  LET found == Matches(before.image, group)
  IN  IF before.failed \/ found = {}
      THEN after.failed /\ after.image = before.image
      ELSE ~after.failed /\ after.image = Write(before.image, found, byte)

GroupStates(D, W, code, groups, n, byte, done) ==
  /\ done[0] = [image |-> code, failed |-> FALSE]
  /\ \A i \in 0..n : done[i].image \in [D -> W] /\ done[i].failed \in BOOLEAN
  /\ \A i \in 1..n : GroupWrites(done[i - 1], done[i], groups[i], byte)

(* The states a patch's groups go through. *)
LEMMA GroupsUnfold ==
  ASSUME NEW D, NEW W, NEW code \in [D -> W], NEW id, NEW byte \in W, byte = [by |-> id, value |-> 0],
         NEW groups, NEW n \in Nat, n = Len(groups)
  PROVE  \E done : /\ ApplyGroups(code, id, groups) = done[n].image
                   /\ GroupStates(D, W, code, groups, n, byte, done)
  <1> DEFINE V == [image : [D -> W], failed : BOOLEAN]
             Start == [image |-> code, failed |-> FALSE]
             Hits(last, i) == Matches(last.image, groups[i])
             Step(last, i) == IF last.failed \/ Hits(last, i) = {}
                              THEN [last EXCEPT !.failed = TRUE]
                              ELSE [last EXCEPT !.image = Write(@, Hits(last, i), [by |-> id, value |-> 0])]
             Body(f) == [i \in 0..n |-> IF i = 0 THEN Start ELSE Step(f[i - 1], i)]
             Done == CHOOSE f : f = Body(f)
  <1>1. ApplyGroups(code, id, groups) = Done[n].image
    BY DEF ApplyGroups
  <1>2. Start \in V
    OBVIOUS
  <1>3. ASSUME NEW last \in V, NEW i
        PROVE  Step(last, i) \in V /\ GroupWrites(last, Step(last, i), groups[i], byte)
    <2>1. PICK sites : sites = Hits(last, i)
      OBVIOUS
    <2>2. last.image \in [D -> W] /\ last.failed \in BOOLEAN
      OBVIOUS
    <2>3. Write(last.image, sites, byte) \in [D -> W]
      BY <2>2 DEF Write
    <2>4. CASE last.failed \/ sites = {}
      <3>1. Step(last, i) = [last EXCEPT !.failed = TRUE]
        BY <2>1, <2>4
      <3>2. PICK after : after = [last EXCEPT !.failed = TRUE]
        OBVIOUS
      <3>3. after \in V /\ after.failed /\ after.image = last.image
        BY <3>2
      <3>4. GroupWrites(last, after, groups[i], byte)
        BY <2>1, <2>4, <3>3 DEF GroupWrites
      <3> HIDE DEF Step, V
      <3> QED
        BY <3>1, <3>2, <3>3, <3>4
    <2>5. CASE ~(last.failed \/ sites = {})
      <3>1. Step(last, i) = [last EXCEPT !.image = Write(last.image, sites, byte)]
        BY <2>1, <2>5
      <3>2. PICK after : after = [last EXCEPT !.image = Write(last.image, sites, byte)]
        OBVIOUS
      <3>3. after \in V /\ ~after.failed /\ after.image = Write(last.image, sites, byte)
        BY <2>3, <2>5, <3>2
      <3>4. GroupWrites(last, after, groups[i], byte)
        BY <2>1, <2>5, <3>3 DEF GroupWrites
      <3> HIDE DEF Step, V
      <3> QED
        BY <3>1, <3>2, <3>3, <3>4
    <2> QED
      BY <2>4, <2>5
  <1>4. PICK step : step = [x \in (1..n) \X V |-> Step(x[2], x[1])]
    OBVIOUS
  <1>5. step \in [(1..n) \X V -> V]
    <2>1. \A x \in (1..n) \X V : x[2] \in V
      <3> HIDE DEF V
      <3> QED
        OBVIOUS
    <2>2. \A last \in V : \A i : Step(last, i) \in V
      <3> HIDE DEF Step, V
      <3> QED
        BY <1>3
    <2> HIDE DEF Step, V
    <2> QED
      BY <1>4, <2>1, <2>2
  <1>6. ASSUME NEW last \in V, NEW i \in 1..n PROVE step[<<i, last>>] = Step(last, i)
    <2> HIDE DEF Step, V
    <2> QED
      BY <1>4
  <1>7. PICK f : Iterates(V, n, Start, step, f)
    <2> HIDE DEF Start, Step, V
    <2>1. Stays(V, n, Start, step)
      BY <1>2, <1>5 DEF Stays
    <2> QED
      BY <2>1, Iteration
  <1>8. f = Body(f)
    <2>1. \A i \in 0..n : i # 0 => i \in 1..n /\ f[i - 1] \in V
      <3>1. \A i \in 0..n : i # 0 => i \in 1..n /\ i - 1 \in 0..n
        OBVIOUS
      <3> HIDE DEF V
      <3> QED
        BY <1>7, <3>1 DEF Iterates
    <2>2. \A i \in 0..n : i # 0 => step[<<i, f[i - 1]>>] = Step(f[i - 1], i)
      <3> HIDE DEF V, Step
      <3> QED
        BY <1>6, <2>1
    <2> HIDE DEF V, Step, Start
    <2> QED
      BY <1>7, <2>2 DEF Iterates
  <1>9. Done = Body(Done)
    <2> HIDE DEF Body
    <2> QED
      BY <1>8, Zenon
  <1>10. PICK done : done = Done
    OBVIOUS
  <1> HIDE DEF Done
  <1>11. done[0] = Start /\ \A i \in 1..n : done[i] = Step(done[i - 1], i)
    <2>1. done = Body(done)
      <3> HIDE DEF Body
      <3> QED
        BY <1>9, <1>10
    <2>2. \A i \in 0..n : done[i] = Body(done)[i]
      <3> HIDE DEF Body
      <3> QED
        BY <2>1, Zenon
    <2>3. Body(done)[0] = Start /\ \A i \in 1..n : Body(done)[i] = Step(done[i - 1], i)
      <3> HIDE DEF Start, Step
      <3> QED
        OBVIOUS
    <2>4. 0 \in 0..n /\ \A i \in 1..n : i \in 0..n
      OBVIOUS
    <2> HIDE DEF Body, Start, Step
    <2> QED
      BY <2>2, <2>3, <2>4
  <1>12. \A i \in 0..n : done[i] \in V
    <2> HIDE DEF Start, Step, V
    <2>1. PICK S : S = {i \in 0..n : done[i] \in V}
      OBVIOUS
    <2>2. 0 \in S /\ \A i \in 1..n : i - 1 \in S => i \in S
      <3>1. 0 \in 0..n /\ \A i \in 1..n : i \in 0..n
        OBVIOUS
      <3> QED
        BY <1>2, <1>3, <1>11, <2>1, <3>1
    <2> QED
      BY <2>1, <2>2, Counting
  <1>13. \A i \in 0..n : done[i].image \in [D -> W] /\ done[i].failed \in BOOLEAN
    BY <1>12
  <1>14. \A i \in 1..n : GroupWrites(done[i - 1], done[i], groups[i], byte)
    <2>1. \A i \in 1..n : i - 1 \in 0..n
      OBVIOUS
    <2> HIDE DEF Start, Step, V
    <2> QED
      BY <1>3, <1>11, <1>12, <2>1
  <1>15. GroupStates(D, W, code, groups, n, byte, done)
    BY <1>11, <1>13, <1>14 DEF GroupStates
  <1> QED
    BY <1>1, <1>10, <1>15

\* Only the groups' byte is written, where they have a match.
Marks(D, code, after, groups, byte) ==
  \A s \in D : \/ after[s] = code[s]
              \/ /\ after[s] = byte
                 /\ \E i \in DOMAIN groups : s \in groups[i].sites /\ (groups[i].rva \/ code[s] = CodeByte)

\* If all groups have a match, and none is for another's sites, all are
\* written.
Installs(code, after, groups, byte) ==
  /\ \A i \in DOMAIN groups : Matches(code, groups[i]) # {}
  /\ \A i, j \in DOMAIN groups : i # j => groups[i].sites \cap groups[j].sites = {}
  => \A i \in DOMAIN groups : \A s \in Matches(code, groups[i]) : after[s] = byte

GroupsOf(D, groups) == \E G : (\A g \in G : g.sites \subseteq D) /\ groups \in Seq(G)

ByteOf(id) == [by |-> id, value |-> 0]

(* What a patch's groups do. *)
LEMMA GroupsWrite ==
  ASSUME NEW D, NEW W, NEW code \in [D -> W], NEW id, NEW byte \in W, byte = ByteOf(id),
         NEW groups, GroupsOf(D, groups)
  PROVE  /\ ApplyGroups(code, id, groups) \in [D -> W]
         /\ Marks(D, code, ApplyGroups(code, id, groups), groups, byte)
         /\ Installs(code, ApplyGroups(code, id, groups), groups, byte)
  <1>g. PICK G : (\A g \in G : g.sites \subseteq D) /\ groups \in Seq(G)
    BY DEF GroupsOf
  <1>1. PICK n \in Nat : n = Len(groups) /\ DOMAIN groups = 1..n
    BY <1>g
  <1>2. PICK done :
          /\ ApplyGroups(code, id, groups) = done[n].image
          /\ GroupStates(D, W, code, groups, n, byte, done)
    BY <1>1, GroupsUnfold DEF ByteOf
  <1>u. /\ done[0] = [image |-> code, failed |-> FALSE]
        /\ \A i \in 0..n : done[i].image \in [D -> W] /\ done[i].failed \in BOOLEAN
        /\ \A i \in 1..n : GroupWrites(done[i - 1], done[i], groups[i], byte)
    BY <1>2 DEF GroupStates
  <1>3. /\ 0 \in 0..n /\ n \in 0..n /\ \A i \in 1..n : i \in 0..n /\ i - 1 \in 0..n
        /\ done[0].image = code /\ done[0].failed = FALSE
    BY <1>u
  <1>4. \A i \in 1..n : groups[i].sites \subseteq D
    BY <1>g, <1>1
  <1>5. \A i \in 1..n : \A here \in [D -> W] :
          /\ Matches(here, groups[i]) \subseteq groups[i].sites
          /\ \A s \in Matches(here, groups[i]) : groups[i].rva \/ here[s] = CodeByte
    BY <1>4 DEF Matches
  <1>6. \A here \in [D -> W] : \A sites : \A s \in D :
          Write(here, sites, byte)[s] = IF s \in sites THEN byte ELSE here[s]
    BY DEF Write
  <1>a. \A i \in 1..n : done[i - 1].image \in [D -> W]
    BY <1>u, <1>3
  <1>7. ASSUME NEW s \in D
        PROVE  \/ done[n].image[s] = code[s]
               \/ /\ done[n].image[s] = byte
                  /\ \E i \in 1..n : s \in groups[i].sites /\ (groups[i].rva \/ code[s] = CodeByte)
    <2> DEFINE Mine == \E j \in 1..n : s \in groups[j].sites /\ (groups[j].rva \/ code[s] = CodeByte)
               Fine(i) == done[i].image[s] = code[s] \/ (done[i].image[s] = byte /\ Mine)
    <2>1. PICK S : S = {i \in 0..n : Fine(i)}
      OBVIOUS
    <2>2. ASSUME NEW i \in 1..n, Fine(i - 1) PROVE Fine(i)
      <3>1. CASE done[i].image = done[i - 1].image
        BY <2>2, <3>1
      <3>2. CASE done[i].image = Write(done[i - 1].image, Matches(done[i - 1].image, groups[i]), byte)
        <4>1. CASE s \in Matches(done[i - 1].image, groups[i])
          <5>1. done[i].image[s] = byte
            BY <1>6, <1>a, <3>2, <4>1
          <5>2. s \in groups[i].sites /\ (groups[i].rva \/ done[i - 1].image[s] = CodeByte)
            BY <1>5, <1>a, <4>1
          <5>3. Mine
            BY <2>2, <5>2
          <5> QED
            BY <5>1, <5>3
        <4>2. CASE s \notin Matches(done[i - 1].image, groups[i])
          <5>1. done[i].image[s] = done[i - 1].image[s]
            BY <1>6, <1>a, <3>2, <4>2
          <5> QED
            BY <2>2, <5>1
        <4> QED
          BY <4>1, <4>2
      <3>3. GroupWrites(done[i - 1], done[i], groups[i], byte)
        BY <1>u
      <3> HIDE DEF Fine
      <3> QED
        BY <3>1, <3>2, <3>3 DEF GroupWrites
    <2>3. Fine(0)
      BY <1>3
    <2>4. n \in S
      <3> HIDE DEF Fine
      <3>1. 0 \in S /\ \A i \in 1..n : i - 1 \in S => i \in S
        BY <1>3, <2>1, <2>2, <2>3
      <3>2. 0..n \subseteq S
        BY <3>1, Counting
      <3> QED
        BY <1>3, <3>2
    <2> QED
      BY <2>1, <2>4
  <1>8. ASSUME \A i \in 1..n : Matches(code, groups[i]) # {},
               \A i, j \in 1..n : i # j => groups[i].sites \cap groups[j].sites = {},
               NEW k \in 1..n, NEW s \in Matches(code, groups[k])
        PROVE  done[n].image[s] = byte
    <2> DEFINE Written(i) ==
                 /\ ~done[i].failed
                 /\ \A j \in 1..n : j <= i => \A r \in Matches(code, groups[j]) : done[i].image[r] = byte
                 /\ \A j \in 1..n : i < j => \A r \in groups[j].sites : done[i].image[r] = code[r]
    <2>1. PICK S : S = {i \in 0..n : Written(i)}
      OBVIOUS
    <2>2. Written(0)
      <3>1. \A j \in 1..n : ~(j <= 0)
        OBVIOUS
      <3> QED
        BY <1>3, <3>1
    <2>3. ASSUME NEW i \in 1..n, Written(i - 1) PROVE Written(i)
      <3>0. i - 1 < i /\ \A j \in 1..n : (i < j => i - 1 < j) /\ (j <= i => j = i \/ j <= i - 1)
        OBVIOUS
      <3>1. PICK found : found = Matches(code, groups[i])
        OBVIOUS
      <3>2. Matches(done[i - 1].image, groups[i]) = found
        <4>1. \A r \in groups[i].sites : done[i - 1].image[r] = code[r]
          BY <2>3, <3>0
        <4> QED
          BY <3>1, <4>1 DEF Matches
      <3>3. found # {} /\ found \subseteq groups[i].sites /\ groups[i].sites \subseteq D
        BY <1>4, <1>5, <1>8, <3>1
      <3>4. ~done[i].failed /\ done[i].image = Write(done[i - 1].image, found, byte)
        <4>1. GroupWrites(done[i - 1], done[i], groups[i], byte) /\ ~done[i - 1].failed
          BY <1>u, <2>3
        <4> QED
          BY <3>2, <3>3, <4>1 DEF GroupWrites
      <3>5. \A r \in D : done[i].image[r] = IF r \in found THEN byte ELSE done[i - 1].image[r]
        BY <1>6, <1>a, <3>4
      <3>6. ASSUME NEW j \in 1..n, j <= i, NEW r \in Matches(code, groups[j])
            PROVE  done[i].image[r] = byte
        <4>1. r \in D
          BY <1>4, <1>5, <3>6
        <4>2. CASE j = i
          BY <3>1, <3>5, <3>6, <4>1, <4>2
        <4>3. CASE j <= i - 1
          <5>1. done[i - 1].image[r] = byte
            BY <2>3, <3>6, <4>3
          <5> QED
            BY <3>5, <4>1, <5>1
        <4> QED
          BY <3>0, <3>6, <4>2, <4>3
      <3>7. ASSUME NEW j \in 1..n, i < j, NEW r \in groups[j].sites
            PROVE  done[i].image[r] = code[r]
        <4>1. r \in D /\ r \notin groups[i].sites
          <5>1. i # j
            BY <3>7
          <5> QED
            BY <1>4, <1>8, <5>1
        <4>2. done[i - 1].image[r] = code[r]
          BY <2>3, <3>0, <3>7
        <4> QED
          BY <3>3, <3>5, <4>1, <4>2
      <3> QED
        BY <3>4, <3>6, <3>7
    <2>4. n \in S
      <3> HIDE DEF Written
      <3>1. 0 \in S /\ \A i \in 1..n : i - 1 \in S => i \in S
        BY <1>3, <2>1, <2>2, <2>3
      <3>2. 0..n \subseteq S
        BY <3>1, Counting
      <3> QED
        BY <1>3, <3>2
    <2>5. Written(n) /\ k <= n
      BY <2>1, <2>4
    <2> QED
      BY <2>5
  <1>9. done[n].image \in [D -> W]
    BY <1>u, <1>3
  <1>10. Marks(D, code, done[n].image, groups, byte)
    BY <1>1, <1>7 DEF Marks
  <1>11. Installs(code, done[n].image, groups, byte)
    BY <1>1, <1>8 DEF Installs
  <1> QED
    BY <1>2, <1>9, <1>10, <1>11

(* A patch writes its own bytes, and only at the sites it is for. *)
LEMMA PatchWrites ==
  ASSUME NEW D, Sites \subseteq D, NEW W, NEW code \in [D -> W], NEW st, NEW p \in Defined,
         [by |-> p.id, value |-> 0] \in W, [by |-> p.id, value |-> st[p.id].value] \in W
  PROVE  /\ ApplyOne(code, p, st) \in [D -> W]
         /\ \A s \in D : \/ ApplyOne(code, p, st)[s] = code[s]
                         \/ s \in Touches(p) /\ ApplyOne(code, p, st)[s] = Stamp(p, st)
  <1>1. CASE p.type = "value"
    <2>1. PICK byte \in W : byte = [by |-> p.id, value |-> st[p.id].value]
      OBVIOUS
    <2>2. ApplyOne(code, p, st) = Write(code, {p.offset}, byte)
      BY <1>1, <2>1 DEF ApplyOne
    <2>3. Write(code, {p.offset}, byte) \in [D -> W]
          /\ \A s \in D : Write(code, {p.offset}, byte)[s] = IF s = p.offset THEN byte ELSE code[s]
      BY DEF Write
    <2>4. Stamp(p, st) = byte /\ Touches(p) = {p.offset}
      BY <1>1, <2>1 DEF Stamp, Touches
    <2> QED
      BY <2>2, <2>3, <2>4
  <1>2. CASE p.type # "value"
    <2>1. PICK id, groups : id = p.id /\ groups = p.groups
      OBVIOUS
    <2>2. PICK byte \in W : byte = ByteOf(id)
      BY <2>1 DEF ByteOf
    <2>3. GroupsOf(D, groups)
      <3>1. groups \in Seq([rva : BOOLEAN, sites : SUBSET Sites])
        BY <2>1, PatchStoreAssumption
      <3>2. \A g \in [rva : BOOLEAN, sites : SUBSET Sites] : g.sites \subseteq D
        OBVIOUS
      <3> QED
        BY <3>1, <3>2 DEF GroupsOf
    <2>4. ApplyOne(code, p, st) = ApplyGroups(code, id, groups)
      BY <1>2, <2>1 DEF ApplyOne
    <2>5. /\ ApplyGroups(code, id, groups) \in [D -> W]
          /\ Marks(D, code, ApplyGroups(code, id, groups), groups, byte)
      BY <2>2, <2>3, GroupsWrite
    <2>6. Stamp(p, st) = byte /\ Touches(p) = UNION {groups[i].sites : i \in DOMAIN groups}
      BY <1>2, <2>1, <2>2 DEF Stamp, Touches, ByteOf
    <2>7. \A s : (\E i \in DOMAIN groups : s \in groups[i].sites) => s \in Touches(p)
      BY <2>6
    <2> QED
      BY <2>4, <2>5, <2>6, <2>7 DEF Marks
  <1> QED
    BY <1>1, <1>2

\* The same for any release and choice, and their bytes.
FoundIn(lack, group) == IF group.rva THEN group.sites ELSE group.sites \ lack

PlacesIn(lack, p) ==
  IF p.type = "value" THEN {p.offset}
  ELSE UNION {FoundIn(lack, p.groups[i]) : i \in DOMAIN p.groups}

FitsIn(lack, p) == p.type = "value" \/ \A i \in DOMAIN p.groups : FoundIn(lack, p.groups[i]) # {}

Parted(p) == \A i, j \in DOMAIN p.groups : i # j => p.groups[i].sites \cap p.groups[j].sites = {}

AloneIn(want, p) ==
  /\ VersionSite \notin Touches(p)
  /\ \A w \in want : w.patch # p => Touches(w.patch) \cap Touches(p) = {}
  /\ Parted(p)

\* A patch has not been written since the game decrypted its code, or is there.
Fresh(code, lack, p) == \A s \in Touches(p) : code[s] = Decrypted(lack)[s]

Stamped(code, lack, p, st) ==
  \A s \in Touches(p) : code[s] = IF s \in PlacesIn(lack, p) THEN Stamp(p, st) ELSE Decrypted(lack)[s]

(* A patch's sites are sites of the game. *)
LEMMA TouchesSites ==
  ASSUME NEW p \in Defined
  PROVE  /\ Touches(p) \subseteq Sites
         /\ p.type # "value" => GroupsOf(AllSites, p.groups)
         /\ \A lack : PlacesIn(lack, p) \subseteq Touches(p)
  <1>1. PICK groups : groups = p.groups
    OBVIOUS
  <1>g. PICK G : G = [rva : BOOLEAN, sites : SUBSET Sites]
    OBVIOUS
  <1>2. groups \in Seq(G)
    BY <1>1, <1>g, PatchStoreAssumption
  <1>3. \A g \in G : g.sites \subseteq Sites /\ g.sites \subseteq AllSites
    BY <1>g DEF AllSites
  <1>4. GroupsOf(AllSites, groups)
    BY <1>2, <1>3 DEF GroupsOf
  <1>5. \A i \in DOMAIN groups : groups[i].sites \subseteq Sites
    <2>1. \A i \in DOMAIN groups : groups[i] \in G
      BY <1>2
    <2> QED
      BY <1>3, <2>1
  <1>6. Touches(p) \subseteq Sites
    BY <1>1, <1>5, PatchStoreAssumption DEF Touches
  <1>7. \A lack : PlacesIn(lack, p) \subseteq Touches(p)
    BY DEF PlacesIn, FoundIn, Touches
  <1> QED
    BY <1>1, <1>4, <1>6, <1>7

(* The bytes that may come to be in a code. *)
Bytes(code, st) ==
  {code[s] : s \in AllSites} \cup {ByteOf(p.id) : p \in Defined}
    \cup {[by |-> p.id, value |-> st[p.id].value] : p \in Defined}

\* The patch writes nothing but its own byte, at its own sites.
Alters(before, after, p, st) ==
  \A s \in AllSites : \/ after[s] = before[s]
                      \/ s \in Touches(p) /\ after[s] = Stamp(p, st)

LEMMA PatchKeeps ==
  ASSUME NEW first, NEW st, NEW code \in [AllSites -> Bytes(first, st)], NEW p \in Defined
  PROVE  /\ ApplyOne(code, p, st) \in [AllSites -> Bytes(first, st)]
         /\ Alters(code, ApplyOne(code, p, st), p, st)
  <1>1. PICK W : W = Bytes(first, st)
    OBVIOUS
  <1>2. [by |-> p.id, value |-> 0] \in W /\ [by |-> p.id, value |-> st[p.id].value] \in W
    BY <1>1 DEF Bytes, ByteOf
  <1>3. Sites \subseteq AllSites /\ code \in [AllSites -> W]
    BY <1>1 DEF AllSites
  <1> HIDE DEF AllSites
  <1>4. /\ ApplyOne(code, p, st) \in [AllSites -> W]
        /\ \A s \in AllSites : \/ ApplyOne(code, p, st)[s] = code[s]
                               \/ s \in Touches(p) /\ ApplyOne(code, p, st)[s] = Stamp(p, st)
    BY <1>2, <1>3, PatchWrites
  <1> QED
    BY <1>1, <1>4 DEF Alters

(* A patch that is alone, and has its places, is there once it is applied. *)
LEMMA PatchInstalls ==
  ASSUME NEW first, NEW st, NEW code \in [AllSites -> Bytes(first, st)], NEW p \in Defined, NEW lack,
         Parted(p), FitsIn(lack, p),
         Fresh(code, lack, p) \/ Stamped(code, lack, p, st)
  PROVE  Stamped(ApplyOne(code, p, st), lack, p, st)
  <1>s. Touches(p) \subseteq AllSites
    BY TouchesSites DEF AllSites
  <1>1. CASE p.type = "value"
    <2>1. ApplyOne(code, p, st) = Write(code, {p.offset}, [by |-> p.id, value |-> st[p.id].value])
      BY <1>1 DEF ApplyOne
    <2>2. Touches(p) = {p.offset} /\ PlacesIn(lack, p) = {p.offset}
          /\ Stamp(p, st) = [by |-> p.id, value |-> st[p.id].value]
      BY <1>1 DEF Touches, PlacesIn, Stamp
    <2>3. ApplyOne(code, p, st)[p.offset] = Stamp(p, st)
      BY <1>s, <2>1, <2>2 DEF Write
    <2> QED
      BY <2>2, <2>3 DEF Stamped
  <1>2. CASE p.type # "value"
    <2>1. PICK id, groups : id = p.id /\ groups = p.groups
      OBVIOUS
    <2>2. PICK W : W = Bytes(first, st)
      OBVIOUS
    <2>3. PICK byte \in W : byte = ByteOf(id)
      BY <2>1, <2>2 DEF Bytes
    <2>4. PICK after : after = ApplyOne(code, p, st)
      OBVIOUS
    <2>5. Marks(AllSites, code, after, groups, byte) /\ Installs(code, after, groups, byte)
      <3>1. after = ApplyGroups(code, id, groups)
        BY <1>2, <2>1, <2>4 DEF ApplyOne
      <3>2. GroupsOf(AllSites, groups) /\ code \in [AllSites -> W]
        BY <1>2, <2>1, <2>2, TouchesSites
      <3> QED
        BY <2>3, <3>1, <3>2, GroupsWrite
    <2>6. /\ Touches(p) = UNION {groups[i].sites : i \in DOMAIN groups}
          /\ PlacesIn(lack, p) = UNION {FoundIn(lack, groups[i]) : i \in DOMAIN groups}
          /\ Stamp(p, st) = byte
      BY <1>2, <2>1, <2>3 DEF Touches, PlacesIn, Stamp, ByteOf
    <2>7. \A s : \A i \in DOMAIN groups :
            /\ s \in groups[i].sites => s \in Touches(p)
            /\ s \in FoundIn(lack, groups[i]) => s \in PlacesIn(lack, p)
      BY <2>6
    <2>8. \A s \in PlacesIn(lack, p) : \E i \in DOMAIN groups : s \in FoundIn(lack, groups[i])
      BY <2>6
    <2>9. \A s \in AllSites : Decrypted(lack)[s] = CodeByte <=> s \notin lack
      BY DEF Decrypted, CodeByte
    <2>10. ASSUME NEW s \in Touches(p), s \notin PlacesIn(lack, p), code[s] = Decrypted(lack)[s]
           PROVE  after[s] = code[s]
      <3>1. \A i \in DOMAIN groups : s \in groups[i].sites => ~groups[i].rva /\ s \in lack
        BY <2>7, <2>10 DEF FoundIn
      <3>2. \A i \in DOMAIN groups : s \in groups[i].sites => ~(groups[i].rva \/ code[s] = CodeByte)
        BY <1>s, <2>9, <2>10, <3>1
      <3> QED
        BY <1>s, <2>5, <3>2 DEF Marks
    <2>11. CASE Stamped(code, lack, p, st)
      <3>1. ASSUME NEW s \in Touches(p) PROVE after[s] = code[s]
        <4>1. CASE s \in PlacesIn(lack, p)
          <5>1. code[s] = byte
            BY <2>6, <2>11, <4>1 DEF Stamped
          <5> QED
            BY <1>s, <2>5, <5>1 DEF Marks
        <4>2. CASE s \notin PlacesIn(lack, p)
          BY <2>10, <2>11, <4>2 DEF Stamped
        <4> QED
          BY <4>1, <4>2
      <3> QED
        BY <2>4, <2>11, <3>1 DEF Stamped
    <2>12. CASE Fresh(code, lack, p)
      <3>1. \A s \in Touches(p) : code[s] = Decrypted(lack)[s]
        BY <2>12 DEF Fresh
      <3>2. ASSUME NEW i \in DOMAIN groups
            PROVE  Matches(code, groups[i]) = FoundIn(lack, groups[i])
        <4>1. \A s \in groups[i].sites : code[s] = CodeByte <=> s \notin lack
          BY <1>s, <2>7, <2>9, <3>1
        <4> QED
          BY <4>1 DEF Matches, FoundIn
      <3>3. \A i \in DOMAIN groups : FoundIn(lack, groups[i]) # {}
        BY <1>2, <2>1 DEF FitsIn
      <3>4. \A i, j \in DOMAIN groups : i # j => groups[i].sites \cap groups[j].sites = {}
        BY <2>1 DEF Parted
      <3>5. \A i \in DOMAIN groups : \A s \in FoundIn(lack, groups[i]) : after[s] = byte
        BY <2>5, <3>2, <3>3, <3>4 DEF Installs
      <3>6. \A s \in PlacesIn(lack, p) : after[s] = byte
        BY <2>8, <3>5
      <3>7. \A s \in Touches(p) : s \notin PlacesIn(lack, p) => after[s] = Decrypted(lack)[s]
        BY <2>10, <3>1
      <3> QED
        BY <2>4, <2>6, <3>6, <3>7 DEF Stamped
    <2> QED
      BY <2>11, <2>12
  <1> QED
    BY <1>1, <1>2

PhaseStates(code, st, phase, n, after) ==
  /\ after[0] = code
  /\ \A i \in 0..n : after[i] \in [AllSites -> Bytes(code, st)]
  /\ \A i \in 1..n : after[i] = ApplyOne(after[i - 1], phase[i], st)

(* The states a phase goes through. *)
LEMMA PhaseUnfold ==
  ASSUME NEW code, code = [s \in AllSites |-> code[s]], NEW st, NEW list \in Seq(Defined), NEW timing,
         NEW phase, phase = Phase(list, st, timing), NEW n \in Nat, n = Len(phase)
  PROVE  \E after : /\ ApplyPatches(code, list, st, timing) = after[n]
                    /\ PhaseStates(code, st, phase, n, after)
  <1> DEFINE V == [AllSites -> Bytes(code, st)]
  <1>1. code \in V
    BY DEF Bytes
  <1>2. ASSUME NEW before \in V, NEW p \in Defined PROVE ApplyOne(before, p, st) \in V
    BY PatchKeeps
  <1>3. phase \in Seq(Defined) /\ DOMAIN phase = 1..n
    <2>1. phase \in Seq(Defined)
      BY PhaseItems
    <2> QED
      BY <2>1
  <1> DEFINE Step(before, i) == ApplyOne(before, phase[i], st)
             Body(f) == [i \in 0..n |-> IF i = 0 THEN code ELSE Step(f[i - 1], i)]
             After == CHOOSE f : f = Body(f)
  <1>5. ApplyPatches(code, list, st, timing) = After[n]
    BY DEF ApplyPatches
  <1>6. ASSUME NEW before \in V, NEW i \in 1..n PROVE Step(before, i) \in V
    <2>1. phase[i] \in Defined
      BY <1>3
    <2> HIDE DEF V
    <2> QED
      BY <1>2, <2>1
  <1> HIDE DEF V, Step
  <1>7. PICK step : step = [x \in (1..n) \X V |-> Step(x[2], x[1])]
    OBVIOUS
  <1>8. step \in [(1..n) \X V -> V]
    <2>1. \A x \in (1..n) \X V : x[2] \in V /\ x[1] \in 1..n
      OBVIOUS
    <2> QED
      BY <1>6, <1>7, <2>1
  <1>9. ASSUME NEW before \in V, NEW i \in 1..n PROVE step[<<i, before>>] = Step(before, i)
    BY <1>7
  <1>10. PICK f : Iterates(V, n, code, step, f)
    <2>1. Stays(V, n, code, step)
      BY <1>1, <1>8 DEF Stays
    <2> QED
      BY <2>1, Iteration
  <1>11. f = Body(f)
    <2>1. \A i \in 0..n : i # 0 => i \in 1..n /\ f[i - 1] \in V
      <3>1. \A i \in 0..n : i # 0 => i \in 1..n /\ i - 1 \in 0..n
        OBVIOUS
      <3> QED
        BY <1>10, <3>1 DEF Iterates
    <2>2. \A i \in 0..n : i # 0 => step[<<i, f[i - 1]>>] = Step(f[i - 1], i)
      BY <1>9, <2>1
    <2> QED
      BY <1>10, <2>2 DEF Iterates
  <1>12. After = Body(After)
    <2> HIDE DEF Body
    <2> QED
      BY <1>11, Zenon
  <1>13. PICK after : after = After
    OBVIOUS
  <1> HIDE DEF After
  <1>14. after[0] = code /\ \A i \in 1..n : after[i] = Step(after[i - 1], i)
    <2>1. after = Body(after)
      <3> HIDE DEF Body
      <3> QED
        BY <1>12, <1>13
    <2>2. \A i \in 0..n : after[i] = Body(after)[i]
      <3> HIDE DEF Body
      <3> QED
        BY <2>1, Zenon
    <2>3. Body(after)[0] = code /\ \A i \in 1..n : Body(after)[i] = Step(after[i - 1], i)
      OBVIOUS
    <2>4. 0 \in 0..n /\ \A i \in 1..n : i \in 0..n
      OBVIOUS
    <2> HIDE DEF Body
    <2> QED
      BY <2>2, <2>3, <2>4
  <1>15. ASSUME NEW i \in 0..n PROVE after[i] \in V
    <2>1. PICK S : S = {k \in 0..n : after[k] \in V}
      OBVIOUS
    <2>2. 0 \in S /\ \A k \in 1..n : k - 1 \in S => k \in S
      <3>1. 0 \in 0..n /\ \A k \in 1..n : k \in 0..n
        OBVIOUS
      <3> QED
        BY <1>1, <1>6, <1>14, <2>1, <3>1
    <2> QED
      BY <2>1, <2>2, Counting
  <1>16. PhaseStates(code, st, phase, n, after)
    BY <1>14, <1>15 DEF PhaseStates, V, Step
  <1> QED
    BY <1>5, <1>13, <1>16

(* A phase is made of patches. *)
LEMMA PhaseSteps ==
  ASSUME NEW code, code = [s \in AllSites |-> code[s]], NEW st, NEW list \in Seq(Defined), NEW timing
  PROVE  \E phase \in Seq(Defined) : \E n \in Nat : \E after :
           /\ phase = Phase(list, st, timing) /\ DOMAIN phase = 1..n
           /\ ToSet(phase) = ToSet(Phase(list, st, timing))
           /\ \A i \in 1..n : phase[i] \in Defined /\ phase[i] \in ToSet(phase)
           /\ ApplyPatches(code, list, st, timing) = after[n]
           /\ PhaseStates(code, st, phase, n, after)
  <1>1. PICK phase \in Seq(Defined) : phase = Phase(list, st, timing)
    BY PhaseItems
  <1>2. PICK n \in Nat : n = Len(phase) /\ DOMAIN phase = 1..n
    OBVIOUS
  <1>3. PICK after : /\ ApplyPatches(code, list, st, timing) = after[n]
                     /\ PhaseStates(code, st, phase, n, after)
    BY <1>1, <1>2, PhaseUnfold
  <1>4. \A i \in 1..n : phase[i] \in Defined /\ phase[i] \in ToSet(phase)
    BY <1>2 DEF ToSet
  <1> QED
    BY <1>1, <1>2, <1>3, <1>4

(* A phase without patches leaves the code as it is. *)
LEMMA PhaseOfNothing ==
  ASSUME NEW code, code = [s \in AllSites |-> code[s]], NEW st, NEW list \in Seq(Defined), NEW timing,
         \A i \in DOMAIN list : list[i].apply # timing
  PROVE  ApplyPatches(code, list, st, timing) = code
  <1>1. ToSet(Phase(list, st, timing)) = {}
    <2>1. PICK at : at = {j \in DOMAIN list : list[j].apply = timing}
      OBVIOUS
    <2>2. ToSet(Phase(list, st, timing)) = UNION {ToSet(ApplyPatch(st)[list[i]]) : i \in at}
      BY <2>1, PhaseItems
    <2>3. at = {}
      BY <2>1
    <2> QED
      BY <2>2, <2>3
  <1>2. PICK phase, n, after :
          /\ phase \in Seq(Defined) /\ n \in Nat
          /\ phase = Phase(list, st, timing) /\ DOMAIN phase = 1..n
          /\ ToSet(phase) = ToSet(Phase(list, st, timing))
          /\ \A i \in 1..n : phase[i] \in Defined /\ phase[i] \in ToSet(phase)
          /\ ApplyPatches(code, list, st, timing) = after[n]
          /\ PhaseStates(code, st, phase, n, after)
    BY PhaseSteps
  <1>3. ~(1 \in 1..n)
    BY <1>1, <1>2
  <1>4. n = 0
    BY <1>2, <1>3
  <1> QED
    BY <1>2, <1>4 DEF PhaseStates

\* Whose bytes the code holds.
OnlyOf(code, want) ==
  \A s \in AllSites :
    code[s].by \in {"game", "packer", "release", "2EZConfig"} \cup {w.patch.id : w \in want}

\* What is chosen, is alone and fits has not been written yet or is there; once
\* its phase has found the game decrypted it is there.
Kept(code, lack, st, want, w, done) ==
  AloneIn(want, w.patch) /\ FitsIn(lack, w.patch) =>
    /\ Fresh(code, lack, w.patch) \/ Stamped(code, lack, w.patch, st)
    /\ w.timing \in done => Stamped(code, lack, w.patch, st)

(* No patch of a phase writes anything but its own byte. *)
LEMMA PhaseAlters ==
  ASSUME NEW code, NEW st, NEW phase, NEW n \in Nat, NEW after, PhaseStates(code, st, phase, n, after),
         \A i \in 1..n : phase[i] \in Defined, NEW i \in 1..n
  PROVE  Alters(after[i - 1], after[i], phase[i], st)
  <1>1. i - 1 \in 0..n
    OBVIOUS
  <1>2. after[i - 1] \in [AllSites -> Bytes(code, st)]
    BY <1>1 DEF PhaseStates
  <1>3. after[i] = ApplyOne(after[i - 1], phase[i], st)
    BY DEF PhaseStates
  <1>4. PICK before \in [AllSites -> Bytes(code, st)] : before = after[i - 1]
    BY <1>2
  <1>5. PICK q \in Defined : q = phase[i]
    OBVIOUS
  <1>6. Alters(before, ApplyOne(before, q, st), q, st)
    BY PatchKeeps
  <1> QED
    BY <1>3, <1>4, <1>5, <1>6

(* A phase keeps to what is chosen. *)
LEMMA PhaseKeepsOnly ==
  ASSUME NEW code, code = [s \in AllSites |-> code[s]], NEW st, NEW list \in Seq(Defined),
         NEW timing \in Timing, NEW want, want = Chosen(list, st), OnlyOf(code, want)
  PROVE  /\ OnlyOf(ApplyPatches(code, list, st, timing), want)
         /\ ApplyPatches(code, list, st, timing)
              = [s \in AllSites |-> ApplyPatches(code, list, st, timing)[s]]
  <1>1. PICK phase, n, after :
          /\ phase \in Seq(Defined) /\ n \in Nat
          /\ phase = Phase(list, st, timing) /\ DOMAIN phase = 1..n
          /\ ToSet(phase) = ToSet(Phase(list, st, timing))
          /\ \A i \in 1..n : phase[i] \in Defined /\ phase[i] \in ToSet(phase)
          /\ ApplyPatches(code, list, st, timing) = after[n]
          /\ PhaseStates(code, st, phase, n, after)
    BY PhaseSteps
  <1>2. /\ after[0] = code
        /\ \A i \in 0..n : after[i] \in [AllSites -> Bytes(code, st)]
        /\ \A i \in 1..n : after[i] = ApplyOne(after[i - 1], phase[i], st)
    BY <1>1 DEF PhaseStates
  <1>3. ASSUME NEW i \in 1..n PROVE \E w \in want : w.patch = phase[i]
    <2>1. PICK x : x = [patch |-> phase[i], value |-> st[phase[i].id].value, timing |-> timing]
      OBVIOUS
    <2>2. x \in want
      BY <1>1, <2>1, ChosenByPhase
    <2> QED
      BY <2>1, <2>2
  <1>4. 0 \in 0..n /\ n \in 0..n /\ \A i \in 1..n : i \in 0..n /\ i - 1 \in 0..n
    BY <1>1
  <1>5. PICK S : S = {i \in 0..n : OnlyOf(after[i], want)}
    OBVIOUS
  <1>6. ASSUME NEW i \in 1..n, OnlyOf(after[i - 1], want) PROVE OnlyOf(after[i], want)
    <2>1. \A s \in AllSites : after[i][s] = after[i - 1][s] \/ after[i][s] = Stamp(phase[i], st)
      <3>1. Alters(after[i - 1], after[i], phase[i], st)
        BY <1>1, PhaseAlters
      <3> QED
        BY <3>1 DEF Alters
    <2>2. Stamp(phase[i], st).by = phase[i].id
      BY DEF Stamp
    <2>3. PICK w \in want : w.patch.id = phase[i].id
      BY <1>3
    <2> QED
      BY <1>6, <2>1, <2>2, <2>3 DEF OnlyOf
  <1>7. n \in S
    <2>1. 0 \in S /\ \A i \in 1..n : i - 1 \in S => i \in S
      BY <1>2, <1>4, <1>5, <1>6
    <2> QED
      BY <1>4, <2>1, Counting
  <1>8. after[n] = [s \in AllSites |-> after[n][s]]
    BY <1>2, <1>4
  <1> QED
    BY <1>1, <1>5, <1>7, <1>8

(* A phase installs what is chosen for it and keeps the rest. *)
LEMMA PhaseKeeps ==
  ASSUME NEW code, code = [s \in AllSites |-> code[s]], NEW st, NEW list \in Seq(Defined),
         NEW timing \in Timing, NEW want, want = Chosen(list, st), NEW lack, NEW done,
         NEW w \in want, Kept(code, lack, st, want, w, done)
  PROVE  Kept(ApplyPatches(code, list, st, timing), lack, st, want, w, done \cup {timing})
  <1> SUFFICES ASSUME AloneIn(want, w.patch), FitsIn(lack, w.patch)
               PROVE  Kept(ApplyPatches(code, list, st, timing), lack, st, want, w, done \cup {timing})
    BY DEF Kept
  <1>1. PICK phase, n, after :
          /\ phase \in Seq(Defined) /\ n \in Nat
          /\ phase = Phase(list, st, timing) /\ DOMAIN phase = 1..n
          /\ ToSet(phase) = ToSet(Phase(list, st, timing))
          /\ \A i \in 1..n : phase[i] \in Defined /\ phase[i] \in ToSet(phase)
          /\ ApplyPatches(code, list, st, timing) = after[n]
          /\ PhaseStates(code, st, phase, n, after)
    BY PhaseSteps
  <1>2. /\ after[0] = code
        /\ \A i \in 0..n : after[i] \in [AllSites -> Bytes(code, st)]
        /\ \A i \in 1..n : after[i] = ApplyOne(after[i - 1], phase[i], st)
    BY <1>1 DEF PhaseStates
  <1>3. ASSUME NEW i \in 1..n PROVE \E v \in want : v.patch = phase[i]
    <2>1. PICK x : x = [patch |-> phase[i], value |-> st[phase[i].id].value, timing |-> timing]
      OBVIOUS
    <2>2. x \in want
      BY <1>1, <2>1, ChosenByPhase
    <2> QED
      BY <2>1, <2>2
  <1>4. 0 \in 0..n /\ n \in 0..n /\ \A i \in 1..n : i \in 0..n /\ i - 1 \in 0..n
    BY <1>1
  <1>5. PICK p \in Defined : p = w.patch
    BY ChosenByPhase
  <1>6. Parted(p) /\ FitsIn(lack, p) /\ \A v \in want : v.patch # p => Touches(v.patch) \cap Touches(p) = {}
    BY <1>5 DEF AloneIn
  <1>7. Touches(p) \subseteq AllSites
    BY TouchesSites DEF AllSites
  <1> DEFINE Fine(i) == /\ Fresh(after[i], lack, p) \/ Stamped(after[i], lack, p, st)
                        /\ w.timing \in done \/ (\E j \in 1..n : j <= i /\ phase[j] = p)
                             => Stamped(after[i], lack, p, st)
  <1>8. PICK S : S = {i \in 0..n : Fine(i)}
    OBVIOUS
  <1>9. Fine(0)
    <2>1. \A j \in 1..n : ~(j <= 0)
      OBVIOUS
    <2> QED
      BY <1>2, <1>5, <2>1 DEF Kept
  <1>10. ASSUME NEW i \in 1..n, Fine(i - 1) PROVE Fine(i)
    <2>0. i - 1 \in 0..n /\ \A j \in 1..n : j <= i => j = i \/ j <= i - 1
      BY <1>1
    <2>1. PICK q \in Defined : q = phase[i]
      BY <1>1
    <2>2. PICK before \in [AllSites -> Bytes(code, st)] :
            before = after[i - 1] /\ after[i] = ApplyOne(before, q, st)
      BY <1>2, <2>0, <2>1
    <2>k. Alters(after[i - 1], after[i], phase[i], st)
      <3> HIDE DEF Fine
      <3> QED
        BY <1>1, PhaseAlters
    <2>3. CASE q = p
      <3>1. Fresh(before, lack, q) \/ Stamped(before, lack, q, st)
        BY <1>10, <2>2, <2>3
      <3>2. Parted(q) /\ FitsIn(lack, q)
        BY <1>6, <2>3
      <3>3. Stamped(after[i], lack, p, st)
        BY <2>2, <2>3, <3>1, <3>2, PatchInstalls
      <3> QED
        BY <3>3
    <2>4. CASE q # p
      <3>1. Touches(q) \cap Touches(p) = {}
        BY <1>3, <1>6, <2>1, <2>4
      <3>2. \A s \in AllSites : after[i][s] = after[i - 1][s] \/ s \in Touches(q)
        BY <2>1, <2>k DEF Alters
      <3>3. \A s \in Touches(p) : after[i][s] = after[i - 1][s]
        BY <1>7, <3>1, <3>2
      <3>4. /\ Fresh(after[i - 1], lack, p) => Fresh(after[i], lack, p)
            /\ Stamped(after[i - 1], lack, p, st) => Stamped(after[i], lack, p, st)
        BY <3>3 DEF Fresh, Stamped
      <3>5. (\E j \in 1..n : j <= i /\ phase[j] = p) => \E j \in 1..n : j <= i - 1 /\ phase[j] = p
        BY <2>0, <2>1, <2>4
      <3> QED
        BY <1>10, <3>4, <3>5
    <2> QED
      BY <2>3, <2>4
  <1>11. n \in S
    <2> HIDE DEF Fine
    <2>1. 0 \in S /\ \A i \in 1..n : i - 1 \in S => i \in S
      BY <1>4, <1>8, <1>9, <1>10
    <2> QED
      BY <1>4, <2>1, Counting
  <1>12. Fine(n)
    BY <1>8, <1>11
  <1>13. w.timing = timing => \E j \in 1..n : j <= n /\ phase[j] = p
    <2>0. PICK t \in Timing : \E q \in ToSet(Phase(list, st, t)) :
                                w = [patch |-> q, value |-> st[q.id].value, timing |-> t]
      BY ChosenByPhase
    <2>1. PICK q \in ToSet(Phase(list, st, t)) :
            w = [patch |-> q, value |-> st[q.id].value, timing |-> t]
      BY <2>0
    <2>2. w.timing = t /\ w.patch = q
      BY <2>1
    <2>3. w.timing = timing => p \in ToSet(phase)
      BY <1>1, <1>5, <2>1, <2>2
    <2>4. \A x \in ToSet(phase) : \E j \in 1..n : phase[j] = x
      BY <1>1 DEF ToSet
    <2>5. \A j \in 1..n : j <= n
      OBVIOUS
    <2> QED
      BY <2>3, <2>4, <2>5
  <1>14. w.timing \in done \cup {timing} => Stamped(after[n], lack, p, st)
    BY <1>12, <1>13
  <1> QED
    BY <1>1, <1>5, <1>12, <1>14 DEF Kept

-----------------------------------------------------------------------------
(* The settings files. *)

Saving == {"saving", "opened", "closing"}

\* The launcher has loaded its settings and goes on.
Open == {"detecting", "window", "launching", "injected"} \cup Saving

LEMMA FileKinds ==
  /\ Missing.kind = "missing" /\ Torn.kind = "torn" /\ Missing # Torn
  /\ \A c : /\ Whole(c).kind = "whole" /\ Whole(c).content = c
            /\ Whole(c) # Missing /\ Whole(c) # Torn
  <1>1. Missing.kind = "missing" /\ Torn.kind = "torn"
    BY DEF Missing, Torn
  <1>2. \A c : Whole(c).kind = "whole" /\ Whole(c).content = c
    BY DEF Whole
  <1> QED
    BY <1>1, <1>2

LEMMA ContentOfFile ==
  \A c, d : Content(Missing, d) = d /\ Content(Whole(c), d) = c
  BY FileKinds DEF Content

(* Steps of the game and of a launch leave settings and files alone.       *)
LEMMA OtherSteps ==
  ASSUME Next, ~Launcher
  PROVE  /\ UNCHANGED rest
         /\ ui' = ui \/ ui' = "off" \/ (ui = "window" /\ ui' = "launching")
            \/ (ui = "launching" /\ ui' = "injected")
  <1>1. CASE Play \/ PlayFails \/ InjectSuspended \/ InjectFails \/ ResumeThread \/ PlaySixth
    BY <1>1 DEF Play, PlayFails, InjectSuspended, InjectFails, ResumeThread, PlaySixth
  <1>2. CASE UNCHANGED settingsVars
    BY <1>2 DEF settingsVars, rest
  <1>3. CASE WatchLoop \/ InitialiseIO \/ ApplyEarlyPatches \/ ApplyNormalPatches
    BY <1>2, <1>3 DEF WatchLoop, WatchLooks, WatchInjects, WatchDecides, InitialiseIO,
                      ApplyEarlyPatches, ApplyNormalPatches
  <1>4. CASE GameRuns \/ GameDecrypts \/ GameExits \/ \E name \in Watched : TraxStarts(name)
    BY <1>2, <1>4 DEF GameRuns, GameDecrypts, GameExits, TraxStarts
  <1> QED
    BY <1>1, <1>3, <1>4 DEF Next

\* Outside a save the files hold what is in memory. While one lasts the game's
\* file is torn or new, the other first old, then torn, then new; and either
\* old or new, it makes one save with the game's.
FilesInv ==
  /\ next \in {"off", "detecting", "window"}
  /\ ReadsOneSave
  /\ ui \in Open \ Saving =>
       /\ Torn \notin {gameFile, globalFile}
       /\ Content(gameFile, DefaultGame) = game /\ Content(globalFile, TRUE) = global
  /\ ui \in Saving => gameFile \in {Torn, Whole(game)} /\ Pair(game, global) \in asked
  /\ ui = "saving" => globalFile # Torn /\ Pair(game, Content(globalFile, TRUE)) \in asked
  /\ ui = "opened" => globalFile = Torn
  /\ ui = "closing" => globalFile = Whole(global)

LEMMA FilesInvInit == Init => FilesInv
  <1> SUFFICES ASSUME Init PROVE FilesInv
    OBVIOUS
  <1>1. /\ ui = "off" /\ next = "off" /\ gameFile = Missing /\ globalFile = Missing
        /\ game = DefaultGame /\ global = TRUE /\ asked = {Pair(game, global)}
    BY DEF Init, SettingsInit
  <1> QED
    BY <1>1, ContentOfFile DEF FilesInv, ReadsOneSave, Open, Saving

(* A save begins with one of the two changed. *)
LEMMA SaveBegins ==
  ASSUME gameFile' = Torn, ui' = "saving", next' \in {"off", "detecting", "window"},
         globalFile' = globalFile, globalFile # Torn, Pair(game', global') \in asked',
         Pair(game', Content(globalFile, TRUE)) \in asked'
  PROVE  FilesInv'
  BY DEF FilesInv, ReadsOneSave, Open, Saving

LEMMA EditChangesOne ==
  ASSUME EditNext
  PROVE  /\ ui = "window" /\ Edit
         /\ game' = game \/ global' = global
  <1>1. ASSUME NEW g, SelectGame(g) PROVE Edit /\ global' = global
    BY <1>1 DEF SelectGame
  <1>2. ASSUME NEW g, NEW p, TogglePatch(g, p) \/ PickOption(g, p) PROVE Edit /\ global' = global
    <2>1. \E new : PatchRow(g, p, new)
      BY <1>2 DEF TogglePatch, PickOption
    <2> QED
      BY <2>1 DEF PatchRow
  <1>3. Checkbox => Edit /\ game' = game
    BY DEF Checkbox
  <1>4. Edit => ui = "window"
    BY DEF Edit
  <1> QED
    BY <1>1, <1>2, <1>3, <1>4 DEF EditNext

LEMMA FilesInvStep == FilesInv /\ [Next]_vars => FilesInv'
  <1> SUFFICES ASSUME FilesInv, [Next]_vars PROVE FilesInv'
    OBVIOUS
  <1>0. /\ next \in {"off", "detecting", "window"}
        /\ ReadsOneSave
        /\ ui \in Open \ Saving => Torn \notin {gameFile, globalFile}
        /\ ui \in Open \ Saving =>
             Content(gameFile, DefaultGame) = game /\ Content(globalFile, TRUE) = global
        /\ ui \in Saving => gameFile \in {Torn, Whole(game)} /\ Pair(game, global) \in asked
        /\ ui = "saving" => globalFile # Torn /\ Pair(game, Content(globalFile, TRUE)) \in asked
        /\ ui = "opened" => globalFile = Torn
        /\ ui = "closing" => globalFile = Whole(global)
    BY DEF FilesInv
  <1>o. /\ {"detecting", "window", "launching", "injected"} = Open \ Saving
        /\ Saving = {"saving", "opened", "closing"}
    BY DEF Open, Saving
  <1>k. \A c, d : Content(Whole(c), d) = c /\ Whole(c) # Torn
    BY ContentOfFile, FileKinds
  <1>1. ASSUME UNCHANGED <<gameFile, globalFile, next, game, global, asked>>,
               ui' \in Open => ui' = ui \/ (ui \in Open \ Saving /\ ui' \in Open \ Saving)
        PROVE  FilesInv'
    <2>1. ReadsOneSave' = ReadsOneSave
      BY <1>1 DEF ReadsOneSave
    <2>2. ui' \in Open \ Saving => ui \in Open \ Saving
      BY <1>1
    <2>3. ui' \in Saving => ui' = ui
      BY <1>1, <1>o DEF Open
    <2>4. ui' \in {"saving", "opened", "closing"} => ui' = ui
      BY <1>o, <2>3
    <2> QED
      BY <1>0, <1>1, <2>1, <2>2, <2>3, <2>4 DEF FilesInv
  <1>2. CASE LauncherStarts \/ PatchesExtracted \/ LoadSettingsThrows \/ Crash
    <2>1. UNCHANGED <<gameFile, globalFile, next, game, global, asked>> /\ ui' \notin Open
      BY <1>2, <1>o DEF LauncherStarts, PatchesExtracted, LoadSettingsThrows, Crash, fileVars,
                        memoryVars, historyVars
    <2> QED
      BY <1>1, <2>1
  <1>3. CASE LoadSettings
    <2>1. /\ Torn \notin {gameFile, globalFile} /\ globalFile' = globalFile
          /\ game' = Content(gameFile, DefaultGame) /\ global' = Content(globalFile, TRUE)
          /\ \/ /\ asked' = {Pair(game', global'), Pair(game', global')}
                /\ gameFile' = Torn /\ ui' = "saving" /\ next' = "detecting"
             \/ ui' = "detecting" /\ UNCHANGED <<asked, gameFile, next>>
      BY <1>3 DEF LoadSettings, BeginSave
    <2>2. CASE gameFile' = Torn
      BY <2>1, <2>2, SaveBegins
    <2>3. CASE ui' = "detecting" /\ UNCHANGED <<asked, gameFile, next>>
      BY <1>0, <1>o, <2>1, <2>3 DEF FilesInv, ReadsOneSave
    <2> QED
      BY <2>1, <2>2, <2>3
  <1>4. ASSUME NEW found \in Games \cup {None}, AutoDetect(found) PROVE FilesInv'
    <2>1. /\ ui = "detecting" /\ global' = global /\ globalFile' = globalFile
          /\ \/ /\ asked' = {Pair(game, global), Pair(game', global')}
                /\ gameFile' = Torn /\ ui' = "saving" /\ next' = "window"
             \/ ui' = "window" /\ UNCHANGED <<game, asked, gameFile, next>>
      BY <1>4 DEF AutoDetect, BeginSave
    <2>2. CASE gameFile' = Torn
      <3>1. globalFile # Torn /\ Content(globalFile, TRUE) = global
        BY <1>0, <1>o, <2>1
      <3>2. gameFile # Torn
        BY <1>0, <1>o, <2>1
      <3> QED
        BY <2>1, <2>2, <3>1, <3>2, SaveBegins
    <2>3. CASE ui' = "window" /\ UNCHANGED <<game, asked, gameFile, next>>
      BY <1>1, <1>o, <2>1, <2>3
    <2> QED
      BY <2>1, <2>2, <2>3
  <1>5. CASE SaveWritesGame
    <2>1. /\ ui = "saving" /\ ui' = "saving" /\ gameFile' = Whole(game)
          /\ UNCHANGED <<globalFile, next, game, global, asked>>
      BY <1>5 DEF SaveWritesGame, GameFileIsWhole, memoryVars
    <2> QED
      BY <1>0, <1>k, <1>o, <2>1 DEF FilesInv, ReadsOneSave
  <1>6. CASE SaveOpensGlobal
    <2>1. /\ ui = "saving" /\ ui' = "opened" /\ globalFile' = Torn
          /\ UNCHANGED <<gameFile, next, game, global, asked>>
      BY <1>6 DEF SaveOpensGlobal, memoryVars, historyVars
    <2> QED
      BY <1>0, <1>o, <2>1 DEF FilesInv, ReadsOneSave
  <1>7. CASE SaveClosesGlobal
    <2>1. /\ ui = "opened" /\ ui' = "closing" /\ globalFile' = Whole(global)
          /\ UNCHANGED <<gameFile, next, game, global, asked>>
      BY <1>7 DEF SaveClosesGlobal, memoryVars, historyVars
    <2> QED
      BY <1>0, <1>k, <1>o, <2>1 DEF FilesInv, ReadsOneSave
  <1>8. CASE SaveClosesGame
    <2>1. /\ ui = "closing" /\ ui' = next /\ gameFile' = Whole(game) /\ asked' = {Pair(game, global)}
          /\ UNCHANGED <<globalFile, next, game, global>>
      BY <1>8 DEF SaveClosesGame, GameFileIsWhole, memoryVars
    <2>2. ui' \notin Saving
      BY <1>0, <1>o, <2>1
    <2> QED
      BY <1>0, <1>k, <1>o, <2>1, <2>2 DEF FilesInv, ReadsOneSave
  <1>9. CASE EditNext
    <2>1. /\ ui = "window" /\ (game' = game \/ global' = global) /\ globalFile' = globalFile
          /\ asked' = {Pair(game, global), Pair(game', global')}
          /\ gameFile' = Torn /\ ui' = "saving" /\ next' = "window"
      BY <1>9, EditChangesOne DEF Edit, BeginSave
    <2>2. globalFile # Torn /\ Content(globalFile, TRUE) = global
      BY <1>0, <1>o, <2>1
    <2> QED
      BY <2>1, <2>2, SaveBegins
  <1>10. CASE Next /\ ~Launcher
    <2>1. UNCHANGED <<gameFile, globalFile, next, game, global, asked>>
      BY <1>10, OtherSteps DEF rest, fileVars, memoryVars, historyVars
    <2>2. ui' = ui \/ ui' = "off" \/ (ui = "window" /\ ui' = "launching")
          \/ (ui = "launching" /\ ui' = "injected")
      BY <1>10, OtherSteps
    <2> QED
      BY <1>1, <1>o, <2>1, <2>2
  <1>11. CASE UNCHANGED vars
    BY <1>1, <1>11 DEF vars, settingsVars, fileVars, memoryVars, historyVars
  <1>12. CASE Launcher
    BY <1>2, <1>3, <1>4, <1>5, <1>6, <1>7, <1>8, <1>9, <1>12 DEF Launcher, SettingsNext
  <1> QED
    BY <1>10, <1>11, <1>12

(* The launcher's own steps start no game and change none.                 *)
LEMMA LauncherKeepsProcess ==
  ASSUME Launcher, FilesInv
  PROVE  /\ UNCHANGED <<processVars, dllVars, watchVars>>
         /\ ui' \notin {"launching", "injected"}
  <1>1. UNCHANGED <<processVars, dllVars, watchVars>>
    BY DEF Launcher
  <1>2. ui' \notin {"launching", "injected"}
    <2>1. CASE LauncherStarts \/ PatchesExtracted \/ LoadSettingsThrows \/ Crash
      BY <2>1 DEF LauncherStarts, PatchesExtracted, LoadSettingsThrows, Crash
    <2>2. CASE LoadSettings
      BY <2>2 DEF LoadSettings, BeginSave
    <2>3. ASSUME NEW f \in Games \cup {None}, AutoDetect(f) PROVE ui' \notin {"launching", "injected"}
      BY <2>3 DEF AutoDetect, BeginSave
    <2>4. CASE EditNext
      BY <2>4, EditChangesOne DEF Edit, BeginSave
    <2>5. CASE SaveWritesGame \/ SaveOpensGlobal \/ SaveClosesGlobal \/ SaveClosesGame
      BY <2>5 DEF SaveWritesGame, SaveOpensGlobal, SaveClosesGlobal, SaveClosesGame, FilesInv
    <2> QED
      BY <2>1, <2>2, <2>3, <2>4, <2>5 DEF Launcher, SettingsNext
  <1> QED
    BY <1>1, <1>2

-----------------------------------------------------------------------------
(* The watch over 6th Trax. *)

Polls == [step : {"look", "inject", "decide"}, name : Watched, found : Pids \cup {0},
          who : 0..MaxProcesses, seen : BOOLEAN]

PollTyped == poll \in Polls /\ poll.who <= born

\* Between look and injection the process found has not been tried, and those
\* that have come since have not been tried at all.
FoundInv ==
  poll.step = "inject" =>
    /\ poll.who \in 1..MaxProcesses /\ attempts[poll.who] = 0
    /\ \A i \in 1..MaxProcesses : i > poll.who => attempts[i] = 0 /\ strays[i] = 0
    /\ exe \in Watched /\ poll.who = born => poll.name = exe /\ poll.found = pid

\* A process that runs, and has been tried as the one found, is noted as the
\* last of its name, and the watch goes on.
NotedInv ==
  exe \in Watched /\ attempts[born] = 1 =>
    /\ watch = "on" /\ lastInjected[exe] = pid
    /\ poll.step = "decide" \/ (poll.name = First /\ exe = Sixth) => poll.seen

CountInv ==
  /\ attempts \in [1..MaxProcesses -> 0..1] /\ strays \in [1..MaxProcesses -> 0..1]
  /\ \A i \in 1..MaxProcesses : i > born => attempts[i] = 0 /\ strays[i] = 0

WatchInv ==
  /\ born \in 0..MaxProcesses /\ pid \in Pids \cup {0}
  /\ exe # None => born \in 1..MaxProcesses /\ pid \in Pids
  /\ lastInjected \in [Watched -> Pids \cup {0}]
  /\ CountInv /\ PollTyped /\ FoundInv /\ NotedInv

LEMMA FirstLookTyped ==
  /\ FirstLook \in Polls /\ FirstLook.step = "look" /\ FirstLook.name = Sixth /\ FirstLook.who = 0
  /\ Watched = {Sixth, First} /\ Sixth # First
  /\ None \notin Watched /\ "game" \notin Watched /\ None # "game"
  BY StartUpAssumption DEF FirstLook, Watched, Sixth, First, None, Polls

LEMMA WatchInvInit == Init => WatchInv
  <1> SUFFICES ASSUME Init PROVE WatchInv
    OBVIOUS
  <1>1. MaxProcesses \in Nat
    BY StartUpAssumption
  <1>2. /\ exe = None /\ pid = 0 /\ born = 0 /\ attempts = [i \in 1..MaxProcesses |-> 0]
        /\ strays = [i \in 1..MaxProcesses |-> 0] /\ poll = FirstLook
        /\ lastInjected = [w \in Watched |-> 0]
    BY DEF Init
  <1>3. CountInv
    BY <1>1, <1>2 DEF CountInv
  <1>4. PollTyped /\ FoundInv /\ NotedInv
    BY <1>1, <1>2, FirstLookTyped DEF PollTyped, FoundInv, NotedInv
  <1> QED
    BY <1>1, <1>2, <1>3, <1>4 DEF WatchInv

(* A process that ends, or none that does, changes nothing for the watch. *)
LEMMA WatchIdle ==
  ASSUME WatchInv, UNCHANGED <<born, watchVars>>, (UNCHANGED <<exe, pid>>) \/ (exe' = None /\ pid' = 0)
  PROVE  WatchInv'
  <1>1. UNCHANGED <<watch, poll, lastInjected, attempts, strays, born>>
    BY DEF watchVars
  <1>2. CountInv' /\ PollTyped'
    BY <1>1 DEF WatchInv, CountInv, PollTyped
  <1>3. FoundInv'
    BY <1>1, FirstLookTyped DEF WatchInv, FoundInv
  <1>4. NotedInv'
    BY <1>1, FirstLookTyped DEF WatchInv, NotedInv
  <1> QED
    BY <1>1, <1>2, <1>3, <1>4 DEF WatchInv

(* A new process has not been tried. *)
LEMMA WatchStart ==
  ASSUME WatchInv, NEW name, NEW stopped, NewProcess(name, stopped), name # None, UNCHANGED watchVars
  PROVE  WatchInv'
  <1>m. MaxProcesses \in Nat /\ born \in 0..MaxProcesses
    BY StartUpAssumption DEF WatchInv
  <1>1. exe' = name /\ pid' \in Pids /\ born' = born + 1 /\ born < MaxProcesses
    BY DEF NewProcess
  <1>2. UNCHANGED <<watch, poll, lastInjected, attempts, strays>>
    BY DEF watchVars
  <1>3. born' \in 1..MaxProcesses /\ born' \in 0..MaxProcesses /\ born' > born
    BY <1>m, <1>1
  <1>4. CountInv'
    BY <1>m, <1>1, <1>2, <1>3 DEF WatchInv, CountInv
  <1>5. PollTyped' /\ poll'.who # born'
    <2>1. poll \in Polls /\ poll.who <= born /\ poll.who \in 0..MaxProcesses
      BY DEF WatchInv, PollTyped, Polls
    <2> QED
      BY <1>m, <1>1, <1>2, <1>3, <2>1 DEF PollTyped
  <1>6. FoundInv'
    BY <1>2, <1>5 DEF WatchInv, FoundInv
  <1>7. NotedInv'
    <2>1. attempts'[born'] = 0
      BY <1>2, <1>3 DEF WatchInv, CountInv
    <2> QED
      BY <2>1 DEF NotedInv
  <1> QED
    BY <1>1, <1>2, <1>3, <1>4, <1>5, <1>6, <1>7 DEF WatchInv

(* A poll goes on to the other name or to its decision. *)
LEMMA OnwardsIs ==
  ASSUME NEW seen \in BOOLEAN, poll.name \in Watched, NEW then, then = Onwards(seen)
  PROVE  /\ then \in Polls /\ then.who = 0 /\ (then.seen <=> seen)
         /\ poll.name = Sixth => then.step = "look" /\ then.name = First
         /\ poll.name = First => then.step = "decide" /\ then.name = Sixth
  <1>m. MaxProcesses \in Nat
    BY StartUpAssumption
  <1>1. CASE poll.name = Sixth
    <2>1. then = [step |-> "look", name |-> First, found |-> 0, who |-> 0, seen |-> seen]
      BY <1>1 DEF Onwards, FirstLook
    <2> QED
      BY <1>m, <1>1, <2>1, FirstLookTyped DEF Polls
  <1>2. CASE poll.name = First
    <2>1. then = [step |-> "decide", name |-> Sixth, found |-> 0, who |-> 0, seen |-> seen]
      BY <1>2, FirstLookTyped DEF Onwards, FirstLook
    <2> QED
      BY <1>m, <1>2, <2>1, FirstLookTyped DEF Polls
  <1> QED
    BY <1>1, <1>2, FirstLookTyped

LEMMA FindingPoll ==
  ASSUME NEW old \in Polls, NEW number, NEW who
  PROVE  [old EXCEPT !.step = "inject", !.found = number, !.who = who, !.seen = TRUE]
           = [step |-> "inject", name |-> old.name, found |-> number, who |-> who, seen |-> TRUE]
  <1>1. PICK a : a = [old EXCEPT !.step = "inject"]
    OBVIOUS
  <1>2. PICK b : b = [a EXCEPT !.found = number]
    OBVIOUS
  <1>3. PICK c : c = [b EXCEPT !.who = who]
    OBVIOUS
  <1>4. PICK d : d = [c EXCEPT !.seen = TRUE]
    OBVIOUS
  <1>5. a = [step |-> "inject", name |-> old.name, found |-> old.found, who |-> old.who, seen |-> old.seen]
    BY <1>1 DEF Polls
  <1>6. b = [step |-> "inject", name |-> old.name, found |-> number, who |-> old.who, seen |-> old.seen]
    BY <1>2, <1>5
  <1>7. c = [step |-> "inject", name |-> old.name, found |-> number, who |-> who, seen |-> old.seen]
    BY <1>3, <1>6
  <1>8. d = [step |-> "inject", name |-> old.name, found |-> number, who |-> who, seen |-> TRUE]
    BY <1>4, <1>7
  <1> QED
    BY <1>1, <1>2, <1>3, <1>4, <1>8, Zenon

LEMMA WatchLooksStep == WatchInv /\ WatchLooks => WatchInv'
  <1> SUFFICES ASSUME WatchInv, WatchLooks PROVE WatchInv'
    OBVIOUS
  <1>m. MaxProcesses \in Nat /\ Pids \subseteq Nat \ {0}
    BY StartUpAssumption
  <1>0. /\ born \in 0..MaxProcesses /\ CountInv /\ PollTyped /\ NotedInv
        /\ exe # None => born \in 1..MaxProcesses /\ pid \in Pids
    BY DEF WatchInv
  <1>1. UNCHANGED <<exe, pid, born, watch, lastInjected, attempts, strays>> /\ watch = "on"
        /\ poll.step = "look"
    BY DEF WatchLooks, processVars, runningVars
  <1>2. PICK number : number = IF exe = poll.name THEN pid ELSE 0
    OBVIOUS
  <1>3. poll' = IF number # 0 /\ IsNew(number)
                THEN [poll EXCEPT !.step = "inject", !.found = number, !.who = born,
                                  !.seen = poll.seen \/ number # 0]
                ELSE Onwards(poll.seen \/ number # 0)
    BY <1>2 DEF WatchLooks
  <1>4. CountInv'
    BY <1>0, <1>1 DEF CountInv
  <1>5. CASE number # 0 /\ IsNew(number)
    <2>1. exe = poll.name /\ number = pid /\ lastInjected[exe] # pid /\ exe \in Watched
      BY <1>0, <1>2, <1>5 DEF IsNew, PollTyped, Polls
    <2>2. born \in 1..MaxProcesses /\ pid \in Pids
      BY <1>0, <2>1, FirstLookTyped
    <2>3. attempts[born] = 0
      BY <1>0, <2>1, <2>2 DEF CountInv, NotedInv
    <2>4. poll' = [step |-> "inject", name |-> exe, found |-> pid, who |-> born, seen |-> TRUE]
      <3>1. poll' = [poll EXCEPT !.step = "inject", !.found = pid, !.who = born,
                                 !.seen = poll.seen \/ number # 0]
        BY <1>3, <1>5, <2>1
      <3>2. PICK seen : seen = (poll.seen \/ number # 0)
        OBVIOUS
      <3>3. seen = TRUE
        BY <1>5, <3>2
      <3>4. poll' = [poll EXCEPT !.step = "inject", !.found = pid, !.who = born, !.seen = TRUE]
        BY <3>1, <3>2, <3>3, Zenon
      <3>5. PICK old \in Polls : old = poll
        BY <1>0 DEF PollTyped
      <3> QED
        BY <2>1, <3>4, <3>5, FindingPoll
    <2>5. /\ poll'.step = "inject" /\ poll'.name = exe /\ poll'.found = pid /\ poll'.who = born
          /\ poll'.seen = TRUE
      BY <2>4
    <2>6. PollTyped'
      <3>1. poll' \in Polls
        BY <1>m, <2>1, <2>2, <2>4 DEF Polls
      <3> QED
        BY <1>m, <1>0, <1>1, <2>5, <3>1 DEF PollTyped
    <2>7. FoundInv'
      BY <1>0, <1>1, <2>2, <2>3, <2>5 DEF CountInv, FoundInv
    <2>8. NotedInv'
      BY <1>1, <2>3 DEF NotedInv
    <2> QED
      BY <1>1, <1>4, <2>6, <2>7, <2>8 DEF WatchInv
  <1>6. CASE ~(number # 0 /\ IsNew(number))
    <2>1. PICK seen \in BOOLEAN : seen = (poll.seen \/ number # 0) /\ poll' = Onwards(seen)
      <3>1. (poll.seen \/ number # 0) \in BOOLEAN
        OBVIOUS
      <3> QED
        BY <1>3, <1>6, <3>1
    <2>2. /\ poll' \in Polls /\ poll'.who = 0 /\ (poll'.seen <=> seen)
          /\ poll.name = Sixth => poll'.step = "look" /\ poll'.name = First
          /\ poll.name = First => poll'.step = "decide" /\ poll'.name = Sixth
      BY <1>0, <2>1, OnwardsIs DEF PollTyped, Polls
    <2>3. poll'.step \in {"look", "decide"}
      BY <1>0, <2>2, FirstLookTyped DEF PollTyped, Polls
    <2>4. PollTyped'
      BY <1>m, <1>0, <1>1, <2>2, <2>3 DEF PollTyped
    <2>5. FoundInv'
      BY <2>3 DEF FoundInv
    <2>6. NotedInv'
      <3> SUFFICES ASSUME exe \in Watched, attempts[born] = 1,
                          poll'.step = "decide" \/ (poll'.name = First /\ exe = Sixth)
                   PROVE  seen
        BY <1>0, <1>1, <2>2 DEF NotedInv
      <3>1. CASE exe = poll.name
        <4>1. number # 0
          BY <1>m, <1>0, <1>2, <3>1, FirstLookTyped
        <4> QED
          BY <2>1, <4>1
      <3>2. CASE exe # poll.name
        <4>1. poll.name = First /\ exe = Sixth
          BY <1>0, <2>2, <3>2, FirstLookTyped DEF PollTyped, Polls
        <4>2. poll.seen
          BY <1>0, <4>1 DEF NotedInv
        <4> QED
          BY <2>1, <4>2
      <3> QED
        BY <3>1, <3>2
    <2> QED
      BY <1>1, <1>4, <2>4, <2>5, <2>6 DEF WatchInv
  <1> QED
    BY <1>5, <1>6

LEMMA WatchInjectsStep == WatchInv /\ WatchInjects => WatchInv'
  <1> SUFFICES ASSUME WatchInv, WatchInjects PROVE WatchInv'
    OBVIOUS
  <1>m. MaxProcesses \in Nat
    BY StartUpAssumption
  <1>0. /\ born \in 0..MaxProcesses /\ CountInv /\ PollTyped /\ FoundInv /\ NotedInv
        /\ exe # None => born \in 1..MaxProcesses /\ pid \in Pids
        /\ lastInjected \in [Watched -> Pids \cup {0}]
    BY DEF WatchInv
  <1>1. /\ UNCHANGED <<exe, pid, born, watch>> /\ watch = "on" /\ poll.step = "inject"
        /\ lastInjected' = [lastInjected EXCEPT ![poll.name] = poll.found]
        /\ poll' = Onwards(TRUE)
        /\ \/ /\ exe = poll.name
              /\ attempts' = [attempts EXCEPT ![born] = IF poll.who = born THEN @ + 1 ELSE @]
              /\ strays' = [strays EXCEPT ![born] = IF poll.who = born THEN @ ELSE @ + 1]
           \/ exe # poll.name /\ UNCHANGED <<attempts, strays>>
    BY DEF WatchInjects, runningVars
  <1>2. /\ poll.who \in 1..MaxProcesses /\ attempts[poll.who] = 0 /\ poll.who <= born
        /\ \A i \in 1..MaxProcesses : i > poll.who => attempts[i] = 0 /\ strays[i] = 0
        /\ exe \in Watched /\ poll.who = born => poll.name = exe /\ poll.found = pid
        /\ poll.name \in Watched /\ poll.found \in Pids \cup {0}
    BY <1>0, <1>1 DEF FoundInv, PollTyped, Polls
  <1>3. poll' \in Polls /\ poll'.who = 0 /\ poll'.seen /\ poll'.step \in {"look", "decide"}
    BY <1>1, <1>2, OnwardsIs, FirstLookTyped
  <1>4. lastInjected' \in [Watched -> Pids \cup {0}] /\ lastInjected'[poll.name] = poll.found
    BY <1>0, <1>1, <1>2
  <1>5. PollTyped' /\ FoundInv'
    <2>1. 0 <= born
      BY <1>m, <1>0
    <2> QED
      BY <1>1, <1>3, <2>1 DEF PollTyped, FoundInv
  <1>6. born # poll.who => attempts[born] = 0 /\ strays[born] = 0
    <2>1. born # poll.who => born > poll.who /\ born \in 1..MaxProcesses
      BY <1>m, <1>0, <1>2
    <2> QED
      BY <1>2, <2>1
  <1>7. CASE exe = poll.name
    <2>1. born \in 1..MaxProcesses /\ exe \in Watched
      BY <1>0, <1>2, <1>7, FirstLookTyped
    <2>2. CASE poll.who = born
      <3>1. attempts' = [attempts EXCEPT ![born] = 1] /\ strays' = strays
        <4>1. attempts[born] + 1 = 1
          BY <1>2, <2>2
        <4>2. attempts' = [attempts EXCEPT ![born] = attempts[born] + 1]
          BY <1>1, <1>7, <2>2
        <4>3. strays' = [strays EXCEPT ![born] = strays[born]]
          BY <1>1, <1>7, <2>2
        <4>4. strays' = strays
          BY <1>0, <2>1, <4>3 DEF CountInv
        <4> QED
          BY <4>1, <4>2, <4>4
      <3>2. CountInv'
        BY <1>m, <1>0, <1>1, <2>1, <3>1 DEF CountInv
      <3>3. NotedInv'
        BY <1>1, <1>2, <1>3, <1>4, <1>7, <2>1, <2>2 DEF NotedInv
      <3> QED
        BY <1>1, <1>4, <1>5, <3>2, <3>3 DEF WatchInv
    <2>3. CASE poll.who # born
      <3>1. strays' = [strays EXCEPT ![born] = 1] /\ attempts' = attempts
        <4>1. strays[born] + 1 = 1
          BY <1>6, <2>3
        <4>2. strays' = [strays EXCEPT ![born] = strays[born] + 1]
          BY <1>1, <1>7, <2>3
        <4>3. attempts' = [attempts EXCEPT ![born] = attempts[born]]
          BY <1>1, <1>7, <2>3
        <4>4. attempts' = attempts
          BY <1>0, <2>1, <4>3 DEF CountInv
        <4> QED
          BY <4>1, <4>2, <4>4
      <3>2. CountInv'
        BY <1>m, <1>0, <1>1, <2>1, <3>1 DEF CountInv
      <3>3. NotedInv'
        BY <1>1, <1>6, <2>3, <3>1 DEF NotedInv
      <3> QED
        BY <1>1, <1>4, <1>5, <3>2, <3>3 DEF WatchInv
    <2> QED
      BY <2>2, <2>3
  <1>8. CASE exe # poll.name
    <2>1. UNCHANGED <<attempts, strays>>
      BY <1>1, <1>8
    <2>2. CountInv'
      BY <1>0, <1>1, <2>1 DEF CountInv
    <2>3. NotedInv'
      <3>1. exe \in Watched => attempts[born] = 0
        BY <1>2, <1>6, <1>8
      <3> QED
        BY <1>1, <2>1, <3>1 DEF NotedInv
    <2> QED
      BY <1>1, <1>4, <1>5, <2>2, <2>3 DEF WatchInv
  <1> QED
    BY <1>7, <1>8

LEMMA WatchDecidesStep == WatchInv /\ WatchDecides => WatchInv'
  <1> SUFFICES ASSUME WatchInv, WatchDecides PROVE WatchInv'
    OBVIOUS
  <1>0. born \in 0..MaxProcesses /\ CountInv /\ PollTyped /\ NotedInv /\ MaxProcesses \in Nat
    BY StartUpAssumption DEF WatchInv
  <1>1. UNCHANGED <<exe, pid, born, lastInjected, attempts, strays>> /\ poll.step = "decide"
        /\ poll' = FirstLook
    BY DEF WatchDecides, processVars, runningVars
  <1>2. CountInv'
    BY <1>0, <1>1 DEF CountInv
  <1>3. PollTyped' /\ FoundInv'
    BY <1>0, <1>1, FirstLookTyped DEF PollTyped, FoundInv
  <1>4. poll.seen => watch' = "on"
    <2>1. ~(0 > Patience)
      BY StartUpAssumption
    <2> QED
      BY <2>1 DEF WatchDecides
  <1>5. NotedInv'
    BY <1>0, <1>1, <1>4, FirstLookTyped DEF NotedInv
  <1> QED
    BY <1>1, <1>2, <1>3, <1>5 DEF WatchInv

LEMMA WatchInvStep == FilesInv /\ WatchInv /\ [Next]_vars => WatchInv'
  <1> SUFFICES ASSUME FilesInv, WatchInv, [Next]_vars PROVE WatchInv'
    OBVIOUS
  <1> USE FirstLookTyped
  <1>1. CASE Launcher
    BY <1>1, LauncherKeepsProcess, WatchIdle DEF processVars, runningVars
  <1>2. CASE Play
    BY <1>2, WatchStart DEF Play
  <1>3. ASSUME NEW name \in Watched, TraxStarts(name) PROVE WatchInv'
    BY <1>3, WatchStart DEF TraxStarts
  <1>4. CASE PlayFails \/ InjectSuspended \/ ResumeThread
    BY <1>4, WatchIdle DEF PlayFails, InjectSuspended, ResumeThread, processVars, runningVars
  <1>5. CASE InjectFails \/ GameExits
    BY <1>5, WatchIdle DEF InjectFails, GameExits, Gone
  <1>6. CASE InitialiseIO \/ ApplyEarlyPatches \/ ApplyNormalPatches
    BY <1>6, WatchIdle DEF InitialiseIO, ApplyEarlyPatches, ApplyNormalPatches, processVars, runningVars
  <1>7. CASE GameRuns \/ GameDecrypts
    BY <1>7, WatchIdle DEF GameRuns, GameDecrypts
  <1>8. CASE PlaySixth
    <2>0. WatchInv /\ MaxProcesses \in Nat
      BY StartUpAssumption
    <2>1. /\ watch # "on" /\ watch' = "on" /\ lastInjected' = [w \in Watched |-> 0] /\ poll' = FirstLook
          /\ UNCHANGED <<exe, pid, born, attempts, strays>>
      BY <1>8 DEF PlaySixth, processVars, runningVars
    <2>2. CountInv' /\ PollTyped' /\ FoundInv'
      BY <2>0, <2>1 DEF WatchInv, CountInv, PollTyped, FoundInv
    <2>3. NotedInv'
      BY <2>0, <2>1 DEF WatchInv, NotedInv
    <2>4. lastInjected' \in [Watched -> Pids \cup {0}]
      BY <2>1
    <2> QED
      BY <2>0, <2>1, <2>2, <2>3, <2>4 DEF WatchInv
  <1>9. CASE WatchLoop
    BY <1>9, WatchLooksStep, WatchInjectsStep, WatchDecidesStep DEF WatchLoop
  <1>10. CASE UNCHANGED vars
    BY <1>10, WatchIdle DEF vars, processVars, runningVars
  <1> QED
    BY <1>1, <1>2, <1>3, <1>4, <1>5, <1>6, <1>7, <1>8, <1>9, <1>10 DEF Next

-----------------------------------------------------------------------------
(* The game's process. *)

\* A game that the launcher has started runs no code before it is resumed, and
\* it is resumed after the injection: a DLL that is in it came in time.
ProcessInv ==
  /\ exe = None => ~early
  /\ ui = "launching" => exe = "game" /\ suspended /\ ~early
  /\ ui = "injected" => exe = "game"
  /\ exe = "game" /\ dll # "out" => ~early

LEMMA ProcessInvInit == Init => ProcessInv
  BY DEF Init, SettingsInit, ProcessInv, None

LEMMA ProcessInvStep == FilesInv /\ WatchInv /\ ProcessInv /\ [Next]_vars => ProcessInv'
  <1> SUFFICES ASSUME FilesInv, WatchInv, ProcessInv, [Next]_vars PROVE ProcessInv'
    OBVIOUS
  <1> USE DEF ProcessInv
  <1>s. "game" \notin Watched /\ None # "game" /\ None \notin Watched
    BY DEF Watched, None, Sixth, First
  <1>1. CASE Launcher
    BY <1>1, LauncherKeepsProcess DEF processVars, runningVars, dllVars
  <1>2. CASE Play
    <2>1. exe = None /\ exe' = "game" /\ suspended' = TRUE /\ early' = early /\ ui' = "launching"
      BY <1>2 DEF Play, NewProcess
    <2> QED
      BY <1>s, <2>1
  <1>3. CASE PlayFails \/ PlaySixth
    BY <1>3 DEF PlayFails, PlaySixth, processVars, runningVars, dllVars
  <1>4. CASE InjectSuspended
    <2>1. ui = "launching" /\ ui' = "injected" /\ UNCHANGED <<exe, early>>
      BY <1>4 DEF InjectSuspended, runningVars
    <2> QED
      BY <2>1
  <1>5. CASE InjectFails
    BY <1>5, <1>s DEF InjectFails, Gone
  <1>6. CASE ResumeThread
    BY <1>6 DEF ResumeThread, dllVars
  <1>7. CASE WatchLooks \/ WatchDecides
    BY <1>7 DEF WatchLooks, WatchDecides, settingsVars, processVars, runningVars, dllVars
  <1>8. CASE WatchInjects
    <2>1. /\ UNCHANGED <<exe, suspended, early, ui>>
          /\ exe = poll.name \/ UNCHANGED dll
      BY <1>8 DEF WatchInjects, Unloaded, dllVars, settingsVars, runningVars
    <2>2. poll.name \in Watched
      BY DEF WatchInv, PollTyped, Polls
    <2> QED
      BY <1>s, <2>1, <2>2
  <1>9. CASE InitialiseIO \/ ApplyEarlyPatches \/ ApplyNormalPatches
    <2>1. UNCHANGED <<exe, suspended, early, ui>> /\ dll # "out"
      BY <1>9 DEF InitialiseIO, ApplyEarlyPatches, ApplyNormalPatches, settingsVars, processVars,
                  runningVars
    <2> QED
      BY <2>1
  <1>10. ASSUME NEW name \in Watched, TraxStarts(name) PROVE ProcessInv'
    <2>1. exe' = name /\ exe = None /\ UNCHANGED ui
      BY <1>10 DEF TraxStarts, NewProcess, settingsVars
    <2> QED
      BY <1>s, <2>1
  <1>11. CASE GameRuns
    <2>1. exe # None /\ ~suspended /\ dll = "out" /\ UNCHANGED <<exe, suspended, ui, dll>>
      BY <1>11 DEF GameRuns, settingsVars, dllVars
    <2> QED
      BY <2>1
  <1>12. CASE GameDecrypts
    BY <1>12 DEF GameDecrypts, settingsVars, dllVars
  <1>13. CASE GameExits
    BY <1>13, <1>s DEF GameExits, Gone, settingsVars
  <1>14. CASE UNCHANGED vars
    BY <1>14 DEF vars, settingsVars, processVars, runningVars, dllVars
  <1> QED
    BY <1>1, <1>2, <1>3, <1>4, <1>5, <1>6, <1>7, <1>8, <1>9, <1>10, <1>11, <1>12, <1>13, <1>14
       DEF Next, WatchLoop

-----------------------------------------------------------------------------
(* Settings: what is chosen, saved and loaded. *)

Ids(f, g) == {p.id : p \in Tree(Loads[f][g])}

\* A state per game and patch id, as the patch store keeps it.
IsState(f, st) ==
  /\ st = [g \in Games |-> st[g]]
  /\ \A g \in Games : st[g] = [id \in Ids(f, g) |-> st[g][id]]

IsSettings(s) == s.id \in Games \cup {None} /\ s = [id |-> s.id, patches |-> s.patches]

\* st is, for these games, what loading the settings makes of them.
Remembers(f, settings, st, games) ==
  \A g \in games : st[g] = LoadState(Loads[f], settings.patches)[g]

\* chosen is what these settings choose for the games they hold.
Records(f, settings, choice) ==
  \A g \in SavedGames(settings.id, Games) :
    choice[g] = Chosen(Loads[f][g], LoadState(Loads[f], settings.patches)[g])

LEMMA LoadsFacts ==
  /\ \A f \in DOMAIN Loads : Loads[f] \in [Games -> Seq(Defined)]
  /\ Missing \in DOMAIN Loads /\ Torn \in DOMAIN Loads
  /\ Whole(1) \in DOMAIN Loads /\ Whole(Embedded) \in DOMAIN Loads
  /\ Embedded \in Nat
  <1>1. DOMAIN Loads = {Missing, Torn} \cup {Whole(v) : v \in DOMAIN Bundled}
    BY DEF Loads
  <1>2. PICK n \in Nat : n = Len(Bundled) /\ DOMAIN Bundled = 1..n /\ n # 0
    BY SettingsAssumption
  <1>3. 1 \in DOMAIN Bundled /\ n \in DOMAIN Bundled
    BY <1>2
  <1>4. Embedded = n
    BY <1>2 DEF Embedded
  <1> QED
    BY <1>1, <1>2, <1>3, <1>4, LoadsAssumption

LEMMA SavedGamesOfTable == \A id : SavedGames(id, Games) \subseteq Games
  BY DEF SavedGames

(* What is loaded is a state for every patch of every game. *)
LEMMA LoadedIsState ==
  ASSUME NEW f \in DOMAIN Loads, NEW kept
  PROVE  IsState(f, LoadState(Loads[f], kept))
  <1>1. DOMAIN Loads[f] = Games
    BY LoadsFacts
  <1>2. PICK st : st = LoadState(Loads[f], kept)
    OBVIOUS
  <1>3. st = [g \in Games |-> st[g]]
    BY <1>1, <1>2 DEF LoadState
  <1>4. ASSUME NEW g \in Games PROVE st[g] = [id \in Ids(f, g) |-> st[g][id]]
    <2>1. PICK own : st[g] = LoadStateHelper(Loads[f][g], own)
      BY <1>1, <1>2 DEF LoadState
    <2> QED
      BY <2>1 DEF LoadStateHelper, Ids
  <1> QED
    BY <1>2, <1>3, <1>4 DEF IsState

(* A state that was kept is loaded again. *)
LEMMA SavedIsLoaded ==
  ASSUME NEW f \in DOMAIN Loads, NEW st, IsState(f, st), NEW games \in SUBSET Games, NEW settings,
         settings.patches = SaveState(st, games)
  PROVE  Remembers(f, settings, st, games)
  <1>1. DOMAIN Loads[f] = Games
    BY LoadsFacts
  <1>2. ASSUME NEW g \in games PROVE st[g] = LoadState(Loads[f], settings.patches)[g]
    <2>1. PICK kept : kept = settings.patches
      OBVIOUS
    <2>2. g \in DOMAIN kept /\ kept[g] = st[g]
      BY <2>1 DEF SaveState
    <2>3. LoadState(Loads[f], kept)[g] = LoadStateHelper(Loads[f][g], st[g])
      BY <1>1, <2>2 DEF LoadState
    <2>4. st[g] = [id \in Ids(f, g) |-> st[g][id]]
      BY DEF IsState
    <2>5. PICK own : own = st[g]
      OBVIOUS
    <2>6. own = [id \in Ids(f, g) |-> own[id]]
      BY <2>4, <2>5
    <2>7. DOMAIN own = Ids(f, g)
      BY <2>6
    <2>8. LoadStateHelper(Loads[f][g], own) = [id \in Ids(f, g) |-> own[id]]
      BY <2>7 DEF LoadStateHelper, Ids
    <2> QED
      BY <2>1, <2>3, <2>5, <2>6, <2>8
  <1> QED
    BY <1>2 DEF Remembers

SettingsInv ==
  /\ {patchesFile, loaded} \subseteq DOMAIN Loads
  /\ IsSettings(game) /\ global \in BOOLEAN
  /\ \/ gameFile \in {Missing, Torn}
     \/ gameFile.kind = "whole" /\ IsSettings(gameFile.content)
  /\ \/ globalFile \in {Missing, Torn}
     \/ globalFile.kind = "whole" /\ globalFile.content \in BOOLEAN
  /\ IsState(loaded, state)
  /\ ui \in {"off", "extracting", "loading"} \cup Open
  /\ edits \in 0..MaxEdits /\ crashes \in 0..MaxCrashes

\* What is chosen survives in the file of the settings.
ChoiceInv ==
  /\ ui \in {"loading"} \cup Open => ~Outdated
  /\ ui \in Open => /\ loaded = patchesFile
                    /\ Remembers(loaded, game, state, SavedGames(game.id, Games))
  /\ ui = "detecting" \/ (ui \in Saving /\ next = "detecting") => Remembers(loaded, game, state, Games)
  /\ gameFile.kind = "whole" => /\ ui # "extracting" /\ ~Outdated
                                /\ Records(patchesFile, gameFile.content, chosen)

LEMMA UpToDate ==
  /\ ~(Torn = Missing \/ (Torn.kind = "whole" /\ Embedded > Torn.content))
  /\ ~(Whole(Embedded) = Missing
       \/ (Whole(Embedded).kind = "whole" /\ Embedded > Whole(Embedded).content))
  <1>1. Embedded \in Nat
    BY LoadsFacts
  <1>2. ~(Embedded > Embedded)
    BY <1>1
  <1> QED
    BY <1>2, FileKinds

LEMMA SettingsInvInit == Init => SettingsInv
  <1> SUFFICES ASSUME Init PROVE SettingsInv
    OBVIOUS
  <1>1. /\ patchesFile \in {Missing, Whole(1)} /\ gameFile = Missing /\ globalFile = Missing
        /\ ui = "off" /\ game = DefaultGame /\ global = TRUE /\ loaded = Missing
        /\ state = LoadState(store, << >>) /\ edits = 0 /\ crashes = 0
    BY DEF Init, SettingsInit
  <1>2. IsSettings(game)
    BY <1>1 DEF IsSettings, DefaultGame
  <1>3. IsState(loaded, state)
    BY <1>1, LoadsFacts, LoadedIsState DEF store
  <1>4. MaxEdits \in Nat /\ MaxCrashes \in Nat
    BY SettingsAssumption
  <1>5. 0 \in 0..MaxEdits /\ 0 \in 0..MaxCrashes
    BY <1>4
  <1> QED
    BY <1>1, <1>2, <1>3, <1>5, LoadsFacts DEF SettingsInv

(* A row of the window is a patch of the game it is drawn for. *)
LEMMA RowHasState ==
  ASSUME NEW f \in DOMAIN Loads, NEW st, IsState(f, st), NEW g \in Games,
         NEW p \in Rows(Loads[f][g], st[g])
  PROVE  p \in Defined /\ p.id \in Ids(f, g)
  <1>1. PICK list \in Seq(Defined) : list = Loads[f][g]
    BY LoadsFacts
  <1>2. PICK i \in DOMAIN list : p \in RowsOf(list[i], st[g])
    BY <1>1 DEF Rows
  <1>3. list[i] \in Defined
    OBVIOUS
  <1>4. p \in Family[list[i]] /\ p \in Defined
    BY <1>2, <1>3, RowsInFamily
  <1> QED
    BY <1>1, <1>4 DEF Ids, Tree

LEMMA EditKeepsState ==
  ASSUME NEW f, NEW st, IsState(f, st), NEW g \in Games, NEW id \in Ids(f, g), NEW new
  PROVE  IsState(f, [st EXCEPT ![g][id] = new])
  <1>1. PICK own : own = st[g]
    OBVIOUS
  <1>2. own = [i \in Ids(f, g) |-> own[i]]
    BY <1>1 DEF IsState
  <1>3. PICK changed : changed = [own EXCEPT ![id] = new]
    OBVIOUS
  <1>4. changed = [i \in Ids(f, g) |-> changed[i]]
    BY <1>2, <1>3
  <1>5. PICK after : after = [st EXCEPT ![g][id] = new]
    OBVIOUS
  <1>6. after = [st EXCEPT ![g] = changed]
    BY <1>1, <1>3, <1>5
  <1>7. st = [h \in Games |-> st[h]]
    BY DEF IsState
  <1>8. after = [h \in Games |-> after[h]] /\ after[g] = changed
        /\ \A h \in Games \ {g} : after[h] = st[h]
    BY <1>6, <1>7
  <1>9. \A h \in Games : after[h] = [i \in Ids(f, h) |-> after[h][i]]
    BY <1>4, <1>8 DEF IsState
  <1> QED
    BY <1>5, <1>8, <1>9 DEF IsState

(* What an edit leaves: a saving launcher whose memory fits together. *)
LEMMA EditStep ==
  ASSUME EditNext, SettingsInv, ui = "window" =>
           loaded = patchesFile /\ Remembers(loaded, game, state, SavedGames(game.id, Games))
  PROVE  /\ ui = "window" /\ edits < MaxEdits /\ edits' = edits + 1
         /\ gameFile' = Torn /\ ui' = "saving" /\ next' = "window"
         /\ UNCHANGED <<patchesFile, globalFile, loaded, chosen, crashes>>
         /\ IsSettings(game') /\ global' \in BOOLEAN /\ IsState(loaded, state')
         /\ Remembers(loaded, game', state', SavedGames(game'.id, Games))
  <1>0. /\ loaded \in DOMAIN Loads /\ IsSettings(game) /\ global \in BOOLEAN /\ IsState(loaded, state)
    BY DEF SettingsInv
  <1>1. ASSUME Edit PROVE /\ ui = "window" /\ edits < MaxEdits /\ edits' = edits + 1
                          /\ gameFile' = Torn /\ ui' = "saving" /\ next' = "window"
                          /\ UNCHANGED <<patchesFile, globalFile, loaded, chosen, crashes>>
    BY <1>1 DEF Edit, BeginSave
  <1>2. ASSUME NEW g \in Games, SelectGame(g) PROVE
          /\ Edit /\ IsSettings(game') /\ global' \in BOOLEAN /\ IsState(loaded, state')
          /\ Remembers(loaded, game', state', SavedGames(game'.id, Games))
    <2>1. PICK patches : patches = SaveState(state, SavedGames(g, Games))
      OBVIOUS
    <2>2. game' = [game EXCEPT !.id = g, !.patches = patches] /\ global' = global /\ state' = state
      BY <1>2, <2>1 DEF SelectGame
    <2>3. IsSettings(game') /\ game'.id = g /\ game'.patches = patches
      BY <1>0, <2>2 DEF IsSettings
    <2>4. SavedGames(g, Games) \in SUBSET Games
      BY SavedGamesOfTable
    <2>5. PICK after : after = game'
      OBVIOUS
    <2>6. Remembers(loaded, after, state, SavedGames(g, Games))
      BY <1>0, <2>1, <2>3, <2>4, <2>5, SavedIsLoaded
    <2> QED
      BY <1>0, <1>2, <2>2, <2>3, <2>5, <2>6 DEF SelectGame
  <1>3. ASSUME NEW g \in SavedGames(game.id, Games), NEW p \in Rows(store[g], state[g]), NEW new,
               PatchRow(g, p, new)
        PROVE  /\ Edit /\ IsSettings(game') /\ global' \in BOOLEAN /\ IsState(loaded, state')
               /\ Remembers(loaded, game', state', SavedGames(game'.id, Games))
    <2>1. g \in Games
      BY SavedGamesOfTable
    <2>2. p.id \in Ids(loaded, g)
      BY <1>0, <2>1, RowHasState DEF store
    <2>3. state' = [state EXCEPT ![g][p.id] = new] /\ global' = global
          /\ game' = [game EXCEPT !.patches = SaveState(state', SavedGames(game.id, Games))]
      BY <1>3 DEF PatchRow
    <2>4. PICK id : id = p.id
      OBVIOUS
    <2>5. IsState(loaded, state')
      BY <1>0, <2>1, <2>2, <2>3, <2>4, EditKeepsState
    <2>6. PICK patches : patches = SaveState(state', SavedGames(game.id, Games))
      OBVIOUS
    <2>7. IsSettings(game') /\ game'.id = game.id /\ game'.patches = patches
      BY <1>0, <2>3, <2>6 DEF IsSettings
    <2>8. SavedGames(game.id, Games) \in SUBSET Games
      BY SavedGamesOfTable
    <2>9. PICK after, st : after = game' /\ st = state'
      OBVIOUS
    <2>10. Remembers(loaded, after, st, SavedGames(game.id, Games))
      BY <1>0, <2>5, <2>6, <2>7, <2>8, <2>9, SavedIsLoaded
    <2> QED
      BY <1>0, <1>3, <2>3, <2>5, <2>7, <2>9, <2>10 DEF PatchRow
  <1>4. ASSUME NEW g \in SavedGames(game.id, Games), NEW p \in Rows(store[g], state[g]),
               TogglePatch(g, p) \/ PickOption(g, p)
        PROVE  \E new : PatchRow(g, p, new)
    BY <1>4 DEF TogglePatch, PickOption
  <1>5. CASE Checkbox
    <2>1. Edit /\ game' = game /\ state' = state /\ global' = ~global
      BY <1>5 DEF Checkbox
    <2>2. Remembers(loaded, game, state, SavedGames(game.id, Games))
      BY <1>1, <2>1
    <2>3. global' \in BOOLEAN
      BY <1>0, <2>1
    <2>4. IsSettings(game') /\ IsState(loaded, state')
          /\ Remembers(loaded, game', state', SavedGames(game'.id, Games))
      BY <1>0, <2>1, <2>2
    <2> QED
      BY <1>1, <2>1, <2>3, <2>4
  <1> QED
    BY <1>1, <1>2, <1>3, <1>4, <1>5 DEF EditNext

LEMMA SettingsInvStep == FilesInv /\ ChoiceInv /\ SettingsInv /\ [Next]_vars => SettingsInv'
  <1> SUFFICES ASSUME FilesInv, ChoiceInv, SettingsInv, [Next]_vars PROVE SettingsInv'
    OBVIOUS
  <1>0. /\ patchesFile \in DOMAIN Loads /\ loaded \in DOMAIN Loads
        /\ IsSettings(game) /\ global \in BOOLEAN
        /\ gameFile \in {Missing, Torn} \/ (gameFile.kind = "whole" /\ IsSettings(gameFile.content))
        /\ globalFile \in {Missing, Torn}
           \/ (globalFile.kind = "whole" /\ globalFile.content \in BOOLEAN)
        /\ IsState(loaded, state)
        /\ ui \in {"off", "extracting", "loading"} \cup Open
        /\ edits \in 0..MaxEdits /\ crashes \in 0..MaxCrashes
    BY DEF SettingsInv
  <1>m. /\ MaxEdits \in Nat /\ MaxCrashes \in Nat
        /\ edits < MaxEdits => edits + 1 \in 0..MaxEdits
        /\ crashes < MaxCrashes => crashes + 1 \in 0..MaxCrashes
    BY <1>0, SettingsAssumption
  <1>n. next \in {"off", "detecting", "window"}
    BY DEF FilesInv
  <1>1. ASSUME UNCHANGED rest, ui' \in {"off", "extracting", "loading"} \cup Open
        PROVE  SettingsInv'
    BY <1>0, <1>1 DEF rest, fileVars, memoryVars, countVars, SettingsInv
  <1>2. CASE LauncherStarts
    <2>1. /\ patchesFile' = patchesFile \/ patchesFile' = Torn
          /\ ui' \in {"extracting", "loading"}
          /\ UNCHANGED <<gameFile, globalFile, memoryVars, edits, crashes>>
      BY <1>2 DEF LauncherStarts, countVars
    <2> QED
      BY <1>0, <2>1, LoadsFacts DEF memoryVars, SettingsInv
  <1>3. CASE PatchesExtracted
    <2>1. /\ patchesFile' = Whole(Embedded) /\ ui' = "loading"
          /\ UNCHANGED <<gameFile, globalFile, memoryVars, edits, crashes>>
      BY <1>3 DEF PatchesExtracted, countVars
    <2> QED
      BY <1>0, <2>1, LoadsFacts DEF memoryVars, SettingsInv
  <1>4. CASE LoadSettings
    <2>1. /\ Torn \notin {gameFile, globalFile}
          /\ game' = Content(gameFile, DefaultGame) /\ global' = Content(globalFile, TRUE)
          /\ loaded' = patchesFile /\ state' = LoadState(Loads[patchesFile], game'.patches)
          /\ gameFile' = Torn \/ gameFile' = gameFile
          /\ ui' \in Open
          /\ UNCHANGED <<patchesFile, globalFile, edits, crashes>>
      BY <1>4 DEF LoadSettings, BeginSave, countVars, Open, Saving
    <2>2. IsSettings(game')
      <3>1. IsSettings(DefaultGame)
        BY DEF IsSettings, DefaultGame
      <3>2. gameFile = Missing \/ IsSettings(gameFile.content)
        BY <1>0, <2>1
      <3> QED
        BY <2>1, <3>1, <3>2 DEF Content
    <2>3. global' \in BOOLEAN
      <3>1. globalFile = Missing \/ globalFile.content \in BOOLEAN
        BY <1>0, <2>1
      <3>2. TRUE \in BOOLEAN
        OBVIOUS
      <3> QED
        BY <2>1, <3>1, <3>2 DEF Content
    <2>4. IsState(loaded', state')
      BY <1>0, <2>1, LoadedIsState
    <2> QED
      BY <1>0, <1>m, <2>1, <2>2, <2>3, <2>4 DEF SettingsInv
  <1>5. CASE LoadSettingsThrows
    BY <1>1, <1>5 DEF LoadSettingsThrows, rest
  <1>6. ASSUME NEW found \in Games \cup {None}, AutoDetect(found) PROVE SettingsInv'
    <2>1. /\ game' = game \/ game' = [game EXCEPT !.id = found]
          /\ gameFile' = Torn \/ gameFile' = gameFile
          /\ ui' \in Open
          /\ UNCHANGED <<patchesFile, globalFile, global, loaded, state, edits, crashes>>
      BY <1>6 DEF AutoDetect, BeginSave, countVars, Open, Saving
    <2>2. IsSettings(game')
      BY <1>0, <2>1 DEF IsSettings
    <2> QED
      BY <1>0, <1>m, <2>1, <2>2 DEF SettingsInv
  <1>7. CASE SaveOpensGlobal
    <2>1. /\ globalFile' = Torn /\ ui' = "opened"
          /\ UNCHANGED <<patchesFile, gameFile, memoryVars, edits, crashes>>
      BY <1>7 DEF SaveOpensGlobal, countVars
    <2> QED
      BY <1>0, <2>1 DEF memoryVars, SettingsInv, Open, Saving
  <1>8. CASE SaveClosesGlobal
    <2>1. /\ globalFile' = Whole(global) /\ ui' = "closing"
          /\ UNCHANGED <<patchesFile, gameFile, memoryVars, edits, crashes>>
      BY <1>8 DEF SaveClosesGlobal, countVars
    <2>2. globalFile'.kind = "whole" /\ globalFile'.content = global
      BY <2>1, FileKinds
    <2> QED
      BY <1>0, <2>1, <2>2 DEF memoryVars, SettingsInv, Open, Saving
  <1>9. CASE SaveClosesGame
    <2>1. /\ gameFile' = Whole(game) /\ ui' = next
          /\ UNCHANGED <<patchesFile, globalFile, memoryVars, edits, crashes>>
      BY <1>9 DEF SaveClosesGame, GameFileIsWhole, countVars
    <2>2. gameFile'.kind = "whole" /\ gameFile'.content = game
      BY <2>1, FileKinds
    <2>3. ui' \in {"off", "extracting", "loading"} \cup Open
      BY <1>n, <2>1 DEF Open
    <2> QED
      BY <1>0, <2>1, <2>2, <2>3 DEF memoryVars, SettingsInv
  <1>15. CASE SaveWritesGame
    <2>1. /\ gameFile' = Whole(game) /\ ui' = ui
          /\ UNCHANGED <<patchesFile, globalFile, memoryVars, edits, crashes>>
      BY <1>15 DEF SaveWritesGame, GameFileIsWhole, countVars
    <2>2. gameFile'.kind = "whole" /\ gameFile'.content = game
      BY <2>1, FileKinds
    <2> QED
      BY <1>0, <2>1, <2>2 DEF memoryVars, SettingsInv
  <1>10. CASE EditNext
    <2>1. ui = "window" => loaded = patchesFile /\ Remembers(loaded, game, state, SavedGames(game.id, Games))
      BY DEF ChoiceInv, Open
    <2>2. /\ edits < MaxEdits /\ edits' = edits + 1
          /\ gameFile' = Torn /\ ui' = "saving"
          /\ UNCHANGED <<patchesFile, globalFile, loaded, crashes>>
          /\ IsSettings(game') /\ global' \in BOOLEAN /\ IsState(loaded, state')
      BY <1>10, <2>1, EditStep
    <2> QED
      BY <1>0, <1>m, <2>2 DEF SettingsInv, Open, Saving
  <1>11. CASE Crash
    <2>1. crashes < MaxCrashes /\ crashes' = crashes + 1 /\ ui' = "off"
          /\ UNCHANGED <<fileVars, memoryVars, edits>>
      BY <1>11 DEF Crash
    <2> QED
      BY <1>0, <1>m, <2>1 DEF fileVars, memoryVars, SettingsInv
  <1>12. CASE Next /\ ~Launcher
    <2>1. UNCHANGED rest /\ (ui' = ui \/ ui' \in {"off", "launching", "injected"})
      BY <1>12, OtherSteps
    <2> QED
      BY <1>0, <1>1, <2>1 DEF Open
  <1>13. CASE UNCHANGED vars
    BY <1>0, <1>1, <1>13 DEF vars, settingsVars, rest
  <1>14. CASE Launcher
    BY <1>2, <1>3, <1>4, <1>5, <1>6, <1>7, <1>8, <1>9, <1>10, <1>11, <1>14, <1>15 DEF Launcher, SettingsNext
  <1> QED
    BY <1>12, <1>13, <1>14

LEMMA ChoiceInvInit == Init => ChoiceInv
  <1> SUFFICES ASSUME Init PROVE ChoiceInv
    OBVIOUS
  <1>1. ui = "off" /\ gameFile = Missing
    BY DEF Init, SettingsInit
  <1>2. gameFile.kind # "whole"
    BY <1>1, FileKinds
  <1> QED
    BY <1>1, <1>2 DEF ChoiceInv, Open, Saving

LEMMA ChoiceInvStep == FilesInv /\ SettingsInv /\ ChoiceInv /\ [Next]_vars => ChoiceInv'
  <1> SUFFICES ASSUME FilesInv, SettingsInv, ChoiceInv, [Next]_vars PROVE ChoiceInv'
    OBVIOUS
  <1>0. /\ ui \in {"loading"} \cup Open => ~Outdated
        /\ ui \in Open => loaded = patchesFile
        /\ ui \in Open => Remembers(loaded, game, state, SavedGames(game.id, Games))
        /\ ui = "detecting" => Remembers(loaded, game, state, Games)
        /\ ui \in Saving /\ next = "detecting" => Remembers(loaded, game, state, Games)
        /\ gameFile.kind = "whole" => ui # "extracting"
        /\ gameFile.kind = "whole" => ~Outdated
        /\ gameFile.kind = "whole" => Records(patchesFile, gameFile.content, chosen)
    BY DEF ChoiceInv
  <1>n. next \in {"off", "detecting", "window"}
    BY DEF FilesInv
  <1>o. /\ Saving \subseteq Open /\ "loading" \notin Open /\ "extracting" \notin Open /\ "off" \notin Open
        /\ {"detecting", "window", "launching", "injected"} \subseteq Open \ Saving
    BY DEF Open, Saving
  <1>t. Torn.kind # "whole"
    BY FileKinds
  <1>1. ASSUME UNCHANGED <<patchesFile, gameFile, next, memoryVars, chosen>>,
               ui' \in {"off", "loading"} \/ ui' \in Open \ (Saving \cup {"detecting"})
               \/ ui' = ui,
               ui' = "loading" => ~Outdated,
               ui' \in Open => ui \in Open
        PROVE  ChoiceInv'
    <2>1. UNCHANGED <<patchesFile, gameFile, next, game, loaded, state, chosen>>
      BY <1>1 DEF memoryVars
    <2>2. Outdated' = Outdated
      BY <2>1 DEF Outdated
    <2>3. ui' = "detecting" \/ ui' \in Saving => ui' = ui
      BY <1>1, <1>o
    <2>4. ui' = "extracting" => ui' = ui
      BY <1>1, <1>o
    <2> QED
      BY <1>0, <1>1, <2>1, <2>2, <2>3, <2>4 DEF ChoiceInv
  <1>2. CASE LauncherStarts
    <2>1. /\ ui = "off" /\ UNCHANGED <<gameFile, next, memoryVars, chosen>>
          /\ patchesFile' = IF Outdated THEN Torn ELSE patchesFile
          /\ ui' = IF Outdated THEN "extracting" ELSE "loading"
      BY <1>2 DEF LauncherStarts, historyVars
    <2>2. CASE Outdated
      <3>1. ui' = "extracting" /\ gameFile'.kind # "whole"
        BY <1>0, <2>1, <2>2
      <3> QED
        BY <1>o, <3>1 DEF ChoiceInv, Saving
    <2>3. CASE ~Outdated
      BY <1>1, <2>1, <2>3, <1>o
    <2> QED
      BY <2>2, <2>3
  <1>3. CASE PatchesExtracted
    <2>1. /\ ui = "extracting" /\ ui' = "loading" /\ patchesFile' = Whole(Embedded) /\ gameFile' = gameFile
      BY <1>3 DEF PatchesExtracted
    <2>2. ~Outdated'
      BY <2>1, UpToDate DEF Outdated
    <2>3. gameFile'.kind # "whole"
      BY <1>0, <2>1
    <2> QED
      BY <1>o, <2>1, <2>2, <2>3 DEF ChoiceInv, Saving
  <1>4. CASE LoadSettings
    <2>1. /\ ui = "loading" /\ loaded' = patchesFile
          /\ state' = LoadState(Loads[patchesFile], game'.patches)
          /\ patchesFile' = patchesFile /\ chosen' = chosen
          /\ \/ gameFile' = Torn /\ ui' = "saving"
             \/ gameFile' = gameFile /\ ui' = "detecting"
      BY <1>4 DEF LoadSettings, BeginSave
    <2>2. ~Outdated /\ Outdated' = Outdated
      BY <1>0, <2>1 DEF Outdated
    <2>3. Remembers(loaded', game', state', Games)
      BY <2>1 DEF Remembers
    <2>4. Remembers(loaded', game', state', SavedGames(game'.id, Games))
      BY <2>3, SavedGamesOfTable DEF Remembers
    <2>5. gameFile'.kind = "whole" => gameFile' = gameFile
      BY <1>t, <2>1
    <2>6. gameFile'.kind = "whole" => Records(patchesFile', gameFile'.content, chosen')
      BY <1>0, <2>1, <2>5
    <2>7. ui' # "extracting"
      BY <2>1
    <2> QED
      BY <2>1, <2>2, <2>3, <2>4, <2>6, <2>7 DEF ChoiceInv
  <1>5. CASE LoadSettingsThrows
    BY <1>1, <1>5, <1>o DEF LoadSettingsThrows, fileVars, historyVars
  <1>6. ASSUME NEW found \in Games \cup {None}, AutoDetect(found) PROVE ChoiceInv'
    <2>1. /\ ui = "detecting" /\ UNCHANGED <<patchesFile, loaded, state, chosen>>
          /\ game' = game \/ game' = [game EXCEPT !.id = found]
          /\ \/ gameFile' = Torn /\ ui' = "saving" /\ next' = "window"
             \/ gameFile' = gameFile /\ ui' = "window"
      BY <1>6 DEF AutoDetect, BeginSave
    <2>2. game'.patches = game.patches
      BY <2>1 DEF SettingsInv, IsSettings
    <2>3. Remembers(loaded', game', state', Games)
      BY <1>0, <2>1, <2>2 DEF Remembers
    <2>4. Remembers(loaded', game', state', SavedGames(game'.id, Games))
      BY <2>3, SavedGamesOfTable DEF Remembers
    <2>5. Outdated' = Outdated
      BY <2>1 DEF Outdated
    <2>6. gameFile'.kind = "whole" => gameFile' = gameFile
      BY <1>t, <2>1
    <2>7. ~Outdated /\ loaded = patchesFile
      BY <1>0, <1>o, <2>1
    <2>8. gameFile'.kind = "whole" => Records(patchesFile', gameFile'.content, chosen')
      BY <1>0, <2>1, <2>6
    <2>9. ui' # "extracting" /\ ui' # "detecting"
      BY <2>1
    <2> QED
      BY <2>1, <2>3, <2>4, <2>5, <2>7, <2>8, <2>9 DEF ChoiceInv
  <1>7. CASE SaveOpensGlobal \/ SaveClosesGlobal
    <2>1. /\ ui \in Saving /\ ui' \in Saving
          /\ UNCHANGED <<patchesFile, gameFile, next, memoryVars, chosen>>
      BY <1>7 DEF SaveOpensGlobal, SaveClosesGlobal, Saving, historyVars
    <2>2. UNCHANGED <<patchesFile, gameFile, next, game, loaded, state, chosen>>
      BY <2>1 DEF memoryVars
    <2>3. Outdated' = Outdated
      BY <2>2 DEF Outdated
    <2>4. ui' \notin {"detecting", "extracting"} /\ ui \in Open
      BY <1>o, <2>1
    <2> QED
      BY <1>0, <2>1, <2>2, <2>3, <2>4 DEF ChoiceInv
  <1>8. CASE SaveClosesGame
    <2>1. /\ ui = "closing" /\ ui' = next
          /\ gameFile' = Whole(game)
          /\ chosen' = [g \in Games |-> Chosen(store[g], state[g])]
          /\ UNCHANGED <<patchesFile, next, game, loaded, state>>
      BY <1>8 DEF SaveClosesGame, GameFileIsWhole, memoryVars
    <2>2. gameFile'.content = game
      BY <2>1, FileKinds
    <2>3. ui \in Saving
      BY <2>1 DEF Saving
    <2>4. loaded = patchesFile /\ ~Outdated /\ Remembers(loaded, game, state, SavedGames(game.id, Games))
      BY <1>0, <1>o, <2>3
    <2>5. Records(patchesFile, game, chosen')
      BY <2>1, <2>4, SavedGamesOfTable DEF Records, Remembers, store
    <2>6. Outdated' = Outdated
      BY <2>1 DEF Outdated
    <2>7. ui' \in {"off", "detecting", "window"} /\ ui' \notin Saving
      BY <1>n, <2>1 DEF Saving
    <2>8. ui' = "detecting" => Remembers(loaded, game, state, Games)
      BY <1>0, <2>1, <2>3
    <2> QED
      BY <2>1, <2>2, <2>4, <2>5, <2>6, <2>7, <2>8 DEF ChoiceInv
  <1>14. CASE SaveWritesGame
    <2>1. /\ ui = "saving" /\ ui' = ui
          /\ gameFile' = Whole(game)
          /\ chosen' = [g \in Games |-> Chosen(store[g], state[g])]
          /\ UNCHANGED <<patchesFile, next, game, loaded, state>>
      BY <1>14 DEF SaveWritesGame, GameFileIsWhole, memoryVars
    <2>2. gameFile'.content = game
      BY <2>1, FileKinds
    <2>3. ui \in Saving
      BY <2>1 DEF Saving
    <2>4. loaded = patchesFile /\ ~Outdated /\ Remembers(loaded, game, state, SavedGames(game.id, Games))
      BY <1>0, <1>o, <2>3
    <2>5. Records(patchesFile, game, chosen')
      BY <2>1, <2>4, SavedGamesOfTable DEF Records, Remembers, store
    <2>6. Outdated' = Outdated
      BY <2>1 DEF Outdated
    <2>7. ui \in Saving /\ next = "detecting" => Remembers(loaded, game, state, Games)
      BY <1>0
    <2> QED
      BY <2>1, <2>2, <2>4, <2>5, <2>6, <2>7 DEF ChoiceInv
  <1>9. CASE EditNext
    <2>1. ui = "window" => loaded = patchesFile /\ Remembers(loaded, game, state, SavedGames(game.id, Games))
      BY <1>0, <1>o
    <2>2. /\ ui = "window" /\ gameFile' = Torn /\ ui' = "saving" /\ next' = "window"
          /\ UNCHANGED <<patchesFile, loaded, chosen>>
          /\ Remembers(loaded, game', state', SavedGames(game'.id, Games))
      BY <1>9, <2>1, EditStep
    <2>3. Outdated' = Outdated /\ ~Outdated
      BY <1>0, <1>o, <2>2 DEF Outdated
    <2> QED
      BY <1>t, <2>1, <2>2, <2>3 DEF ChoiceInv
  <1>10. CASE Crash
    BY <1>1, <1>10, <1>o DEF Crash, fileVars, historyVars
  <1>11. CASE Next /\ ~Launcher
    <2>1. /\ UNCHANGED rest
          /\ ui' = ui \/ ui' = "off" \/ (ui = "window" /\ ui' = "launching")
             \/ (ui = "launching" /\ ui' = "injected")
      BY <1>11, OtherSteps
    <2>2. UNCHANGED <<patchesFile, gameFile, next, memoryVars, chosen>>
      BY <2>1 DEF rest, fileVars, historyVars
    <2>3. ui' = "loading" => ~Outdated
      BY <1>0, <2>1
    <2>4. "launching" \in Open \ (Saving \cup {"detecting"}) /\ "injected" \in Open \ (Saving \cup {"detecting"})
      BY DEF Open, Saving
    <2>5. ui' \in Open => ui \in Open
      BY <1>o, <2>1
    <2>6. ui' \in {"off", "loading"} \/ ui' \in Open \ (Saving \cup {"detecting"}) \/ ui' = ui
      BY <2>1, <2>4
    <2> QED
      BY <1>1, <2>2, <2>3, <2>5, <2>6
  <1>12. CASE UNCHANGED vars
    BY <1>0, <1>1, <1>12 DEF vars, settingsVars, fileVars, historyVars
  <1>13. CASE Launcher
    BY <1>2, <1>3, <1>4, <1>5, <1>6, <1>7, <1>8, <1>9, <1>10, <1>13, <1>14 DEF Launcher, SettingsNext
  <1> QED
    BY <1>11, <1>12, <1>13

-----------------------------------------------------------------------------
(* The DLL: what it has loaded. *)

Running == {"io", "early", "normal", "done"}

\* A DLL that runs has what the settings chose for its game.
DllInv ==
  /\ exe = None => dll = "out"
  /\ dll \in {"out", "aborted"} \cup Running
  /\ dll \in {"out", "aborted"} => wanted = {}
  /\ dll \in Running => config.loaded \in DOMAIN Loads /\ wanted = Chosen(Patches, config.state)

LEMMA ForTyped ==
  ASSUME NEW f \in DOMAIN Loads, NEW id
  PROVE  For(Loads[f], id) \in Seq(Defined)
  BY LoadsFacts DEF For

LEMMA PatchesTyped ==
  ASSUME config.loaded \in DOMAIN Loads
  PROVE  Patches \in Seq(Defined)
  BY ForTyped DEF Patches

(* DllMain finds what was chosen; it applies the super-early patches of    *)
(* the game it has found, unless it is overtaken by Remember 1st.          *)
LEMMA DllMainFinds ==
  ASSUME SettingsInv, ChoiceInv, NEW name, DllMain(name), image = [s \in AllSites |-> image[s]]
  PROVE  \/ dll' = "aborted" /\ UNCHANGED <<config, image, settled, wanted>>
         \/ /\ dll' = "io" /\ config'.loaded \in DOMAIN Loads
            /\ wanted' = Chosen(Patches', config'.state)
            /\ settled' = IF packed THEN settled ELSE settled \cup {"super_early"}
            /\ \E list \in Seq(Defined) : \E st : image' = ApplyPatches(image, list, st, "super_early")
            /\ ~Overtaken' => image' = ApplyPatches(image, Patches', config'.state, "super_early")
  <1>1. CASE ~(gameFile.kind = "whole" /\ globalFile.kind = "whole")
    BY <1>1 DEF DllMain
  <1>2. CASE gameFile.kind = "whole" /\ globalFile.kind = "whole"
    <2>1. PICK g : g = gameFile.content
      OBVIOUS
    <2>2. PICK defs : defs = Loads[patchesFile]
      OBVIOUS
    <2>3. PICK st : st = LoadState(defs, g.patches)
      OBVIOUS
    <2>4. PICK id : id = Resolve(g.id, name)
      OBVIOUS
    <2>5. /\ image' = ApplyPatches(image, For(defs, g.id), For(st, g.id), "super_early")
          /\ settled' = IF packed THEN settled ELSE settled \cup {"super_early"}
          /\ config' = [selected |-> g.id, id |-> id, loaded |-> patchesFile, state |-> For(st, id)]
          /\ wanted' = IF id = None THEN {} ELSE chosen[id]
          /\ dll' = "io"
      BY <1>2, <2>1, <2>2, <2>3, <2>4 DEF DllMain, Apply
    <2>6. patchesFile \in DOMAIN Loads /\ defs \in [Games -> Seq(Defined)] /\ IsState(patchesFile, st)
      BY <2>2, <2>3, LoadsFacts, LoadedIsState DEF SettingsInv
    <2>7. DOMAIN defs = Games /\ DOMAIN st = Games
      BY <2>6 DEF IsState
    <2>8. g.id \in Games \cup {None} /\ Records(patchesFile, g, chosen)
      <3>1. gameFile \notin {Missing, Torn}
        BY <1>2, FileKinds
      <3> QED
        BY <1>2, <2>1, <3>1 DEF SettingsInv, ChoiceInv, IsSettings
    <2>9. \/ id = g.id
          \/ g.id = "ez2dj_6th" /\ id = "rmbr_1st" /\ {"ez2dj_6th", "rmbr_1st"} \subseteq Games
      <3>1. g.id = "ez2dj_6th" => g.id \in Games /\ "rmbr_1st" \in Games
        BY <2>8, SettingsAssumption DEF None
      <3> QED
        BY <2>4, <3>1 DEF Resolve
    <2>10. None \notin Games
      BY SettingsAssumption
    <2>11. For(defs, id) \in Seq(Defined) /\ For(defs, g.id) \in Seq(Defined)
      BY <2>2, <2>6, ForTyped
    <2>12. wanted' = Chosen(For(defs, id), For(st, id))
      <3>1. CASE id = None
        <4>1. For(defs, id) = << >>
          BY <2>7, <2>10, <3>1 DEF For
        <4>2. Chosen(<< >>, For(st, id)) = {}
          BY DEF Chosen, Rows
        <4> QED
          BY <2>5, <3>1, <4>1, <4>2
      <3>2. CASE id # None
        <4>1. id \in Games
          BY <2>8, <2>9, <3>2
        <4>2. id \in SavedGames(g.id, Games)
          BY <2>9, <4>1 DEF SavedGames
        <4>3. chosen[id] = Chosen(defs[id], st[id])
          BY <2>2, <2>3, <2>8, <4>2 DEF Records
        <4>4. For(defs, id) = defs[id] /\ For(st, id) = st[id]
          BY <2>7, <4>1 DEF For
        <4> QED
          BY <2>5, <3>2, <4>3, <4>4
      <3> QED
        BY <3>1, <3>2
    <2>13. /\ config'.id = id /\ config'.selected = g.id /\ config'.loaded = patchesFile
           /\ config'.state = For(st, id)
      BY <2>5
    <2>14. Patches' = For(defs, id)
      BY <2>2, <2>13 DEF Patches
    <2>15. ASSUME ~Overtaken'
           PROVE  image' = ApplyPatches(image, For(defs, id), For(st, id), "super_early")
      <3>1. CASE id = g.id
        BY <2>5, <3>1
      <3>2. CASE id # g.id
        <4>1. \A k \in {id, g.id} : \A i \in DOMAIN For(defs, k) : For(defs, k)[i].apply # "super_early"
          BY <2>2, <2>13, <2>15, <3>2 DEF Overtaken
        <4>2. ApplyPatches(image, For(defs, g.id), For(st, g.id), "super_early") = image
          BY <2>11, <4>1, PhaseOfNothing
        <4>3. ApplyPatches(image, For(defs, id), For(st, id), "super_early") = image
          BY <2>11, <4>1, PhaseOfNothing
        <4> QED
          BY <2>5, <4>2, <4>3
      <3> QED
        BY <3>1, <3>2
    <2>16. /\ dll' = "io" /\ config'.loaded \in DOMAIN Loads
           /\ settled' = IF packed THEN settled ELSE settled \cup {"super_early"}
      BY <2>5, <2>6, <2>13
    <2>17. wanted' = Chosen(Patches', config'.state)
      BY <2>12, <2>13, <2>14
    <2>18. ~Overtaken' => image' = ApplyPatches(image, Patches', config'.state, "super_early")
      BY <2>13, <2>14, <2>15
    <2>19. \E list \in Seq(Defined) : \E some : image' = ApplyPatches(image, list, some, "super_early")
      BY <2>5, <2>11
    <2> QED
      BY <2>16, <2>17, <2>18, <2>19
  <1> QED
    BY <1>1, <1>2

LEMMA DllInvInit == Init => DllInv
  BY DEF Init, DllInv, Running

(* What holds of the DLL holds as long as nothing happens to it. *)
LEMMA DllUntouched ==
  ASSUME DllInv, UNCHANGED <<dll, config, wanted>>, exe' = None => exe = None
  PROVE  DllInv'
  <1>1. Patches' = Patches
    BY DEF Patches
  <1> QED
    BY <1>1 DEF DllInv

(* The next phase of a DLL that runs. *)
LEMMA DllGoesOn ==
  ASSUME DllInv, dll \in Running, dll' \in Running, UNCHANGED <<config, wanted, exe>>
  PROVE  DllInv'
  <1>1. Patches' = Patches
    BY DEF Patches
  <1>2. {"out", "aborted"} \cap Running = {}
    BY DEF Running
  <1> QED
    BY <1>1, <1>2 DEF DllInv

\* The code that a game without the DLL has, and what the DLL makes of it: all
\* that is written is chosen, and what is chosen stays.
ImageInv ==
  /\ image = [s \in AllSites |-> image[s]] /\ release \subseteq Sites
  /\ packed \in BOOLEAN /\ settled \subseteq Timing /\ (packed => settled = {})
  /\ dll = "out" => settled = {} /\ image = IF packed THEN Packed ELSE Decrypted(release)
  /\ dll \in Running /\ ~Overtaken =>
       /\ OnlyOf(image, wanted)
       /\ ~packed => \A w \in wanted : Kept(image, release, config.state, wanted, w, settled)

(* LoadLibraryA: DllMain runs in a process that has no DLL yet, or nothing *)
(* happens.                                                                *)
LEMMA DllLoads ==
  ASSUME SettingsInv, ChoiceInv, DllInv, ImageInv, NEW name, LoadLibrary(name), UNCHANGED exe, exe # None
  PROVE  DllInv'
  <1>1. CASE Unloaded
    BY <1>1, DllUntouched DEF Unloaded, dllVars
  <1>2. CASE dll = "out" /\ DllMain(name)
    <2>1. wanted = {} /\ exe' # None
      BY <1>2 DEF DllInv
    <2>2. image = [s \in AllSites |-> image[s]]
      BY DEF ImageInv
    <2>3. CASE dll' = "aborted" /\ wanted' = wanted
      BY <2>1, <2>3 DEF DllInv, Running
    <2>4. CASE dll' = "io" /\ config'.loaded \in DOMAIN Loads /\ wanted' = Chosen(Patches', config'.state)
      BY <2>1, <2>4 DEF DllInv, Running
    <2> QED
      BY <1>2, <2>2, <2>3, <2>4, DllMainFinds
  <1> QED
    BY <1>1, <1>2 DEF LoadLibrary

LEMMA DllInvStep ==
  WatchInv /\ ProcessInv /\ SettingsInv /\ ChoiceInv /\ ImageInv /\ DllInv /\ [Next]_vars => DllInv'
  <1> SUFFICES ASSUME WatchInv, ProcessInv, SettingsInv, ChoiceInv, ImageInv, DllInv, [Next]_vars
               PROVE  DllInv'
    OBVIOUS
  <1> USE FirstLookTyped
  <1>1. CASE Launcher
    BY <1>1, DllUntouched DEF Launcher, processVars, runningVars, dllVars
  <1>2. ASSUME NEW name, NEW stopped, NewProcess(name, stopped) PROVE DllInv'
    <2>1. exe = None /\ UNCHANGED dllVars
      BY <1>2 DEF NewProcess
    <2>2. dll = "out" /\ wanted = {}
      BY <2>1 DEF DllInv
    <2> QED
      BY <2>1, <2>2 DEF dllVars, DllInv, Running
  <1>3. CASE Play \/ \E name \in Watched : TraxStarts(name)
    BY <1>2, <1>3 DEF Play, TraxStarts
  <1>4. CASE InjectFails \/ GameExits
    BY <1>4 DEF InjectFails, GameExits, Gone, DllInv, Running
  <1>5. CASE PlayFails \/ ResumeThread \/ PlaySixth \/ WatchLooks \/ WatchDecides
    BY <1>5, DllUntouched DEF PlayFails, ResumeThread, PlaySixth, WatchLooks, WatchDecides, processVars,
                              runningVars, dllVars
  <1>6. CASE InjectSuspended
    BY <1>6, DllLoads DEF InjectSuspended, runningVars, ProcessInv
  <1>7. CASE WatchInjects
    <2>1. CASE exe = poll.name
      <3>1. LoadLibrary(exe) /\ UNCHANGED exe
        BY <1>7, <2>1 DEF WatchInjects, runningVars
      <3>2. exe # None
        BY <2>1 DEF WatchInv, PollTyped, Polls
      <3> QED
        BY <3>1, <3>2, DllLoads
    <2>2. CASE exe # poll.name
      BY <1>7, <2>2, DllUntouched DEF WatchInjects, Unloaded, runningVars, dllVars
    <2> QED
      BY <2>1, <2>2
  <1>8. CASE GameRuns \/ GameDecrypts
    BY <1>8, DllUntouched DEF GameRuns, GameDecrypts, dllVars
  <1>9. CASE InitialiseIO \/ ApplyEarlyPatches \/ ApplyNormalPatches
    <2>1. dll \in Running /\ dll' \in Running /\ UNCHANGED <<config, wanted, exe>>
      BY <1>9 DEF InitialiseIO, ApplyEarlyPatches, ApplyNormalPatches, processVars, runningVars, Running
    <2> QED
      BY <2>1, DllGoesOn
  <1>10. CASE UNCHANGED vars
    BY <1>10, DllUntouched DEF vars, processVars, runningVars, dllVars
  <1> QED
    BY <1>1, <1>3, <1>4, <1>5, <1>6, <1>7, <1>8, <1>9, <1>10 DEF Next, WatchLoop

-----------------------------------------------------------------------------
(* The code of the game. *)

(* The code of a game has all its sites, packed or not, and is fresh.      *)
LEMMA CodeTyped ==
  /\ Packed = [s \in AllSites |-> Packed[s]]
  /\ \A lack : Decrypted(lack) = [s \in AllSites |-> Decrypted(lack)[s]]
  /\ \A want : OnlyOf(Packed, want)
  /\ \A lack, want : OnlyOf(Decrypted(lack), want)
  <1>1. /\ Packed = [s \in AllSites |-> Packed[s]]
        /\ \A lack : Decrypted(lack) = [s \in AllSites |-> Decrypted(lack)[s]]
    BY DEF Packed, Decrypted
  <1>2. \A s \in AllSites : Packed[s].by = "packer"
    BY DEF Packed, PackedByte
  <1>3. ASSUME NEW lack, NEW s \in AllSites PROVE Decrypted(lack)[s].by \in {"release", "game"}
    <2>1. Decrypted(lack)[s] = IF s \in lack THEN [by |-> "release", value |-> 0] ELSE CodeByte
      BY DEF Decrypted
    <2> QED
      BY <2>1 DEF CodeByte
  <1> QED
    BY <1>1, <1>2, <1>3 DEF OnlyOf

LEMMA FreshIsKept ==
  ASSUME NEW lack, NEW st, NEW want, NEW w
  PROVE  Kept(Decrypted(lack), lack, st, want, w, {})
  BY DEF Kept, Fresh

\* What the invariant says of a code, for what a DLL has loaded.
CodeInv(code, lack, st, want, done) ==
  /\ OnlyOf(code, want)
  /\ ~packed => \A w \in want : Kept(code, lack, st, want, w, done)

(* A phase keeps it. *)
LEMMA PhaseKeepsCode ==
  ASSUME NEW code, code = [s \in AllSites |-> code[s]], NEW list \in Seq(Defined), NEW st, NEW lack,
         NEW timing \in Timing, NEW done, CodeInv(code, lack, st, Chosen(list, st), done)
  PROVE  CodeInv(ApplyPatches(code, list, st, timing), lack, st, Chosen(list, st),
                 IF packed THEN done ELSE done \cup {timing})
  <1>1. PICK want : want = Chosen(list, st)
    OBVIOUS
  <1>2. PICK after : after = ApplyPatches(code, list, st, timing)
    OBVIOUS
  <1>3. OnlyOf(after, want)
    BY <1>1, <1>2, PhaseKeepsOnly DEF CodeInv
  <1>4. ASSUME ~packed, NEW w \in want PROVE Kept(after, lack, st, want, w, done \cup {timing})
    <2>1. Kept(code, lack, st, want, w, done)
      BY <1>1, <1>4 DEF CodeInv
    <2> QED
      BY <1>1, <1>2, <2>1, PhaseKeeps
  <1> QED
    BY <1>1, <1>2, <1>3, <1>4 DEF CodeInv

(* A phase leaves types as they are. *)
LEMMA PhaseTyped ==
  ASSUME NEW code, code = [s \in AllSites |-> code[s]], NEW list \in Seq(Defined), NEW st, NEW timing
  PROVE  ApplyPatches(code, list, st, timing) = [s \in AllSites |-> ApplyPatches(code, list, st, timing)[s]]
  <1>1. PICK phase, n, after :
          /\ phase \in Seq(Defined) /\ n \in Nat
          /\ ApplyPatches(code, list, st, timing) = after[n]
          /\ PhaseStates(code, st, phase, n, after)
    BY PhaseSteps
  <1>2. n \in 0..n
    BY <1>1
  <1>3. after[n] \in [AllSites -> Bytes(code, st)]
    BY <1>1, <1>2 DEF PhaseStates
  <1>4. after[n] = [s \in AllSites |-> after[n][s]]
    BY <1>3
  <1> QED
    BY <1>1, <1>4

(* The version string is not a place of a patch that is alone. *)
LEMMA VersionKeepsCode ==
  ASSUME NEW code, code = [s \in AllSites |-> code[s]], NEW lack, NEW st, NEW want, NEW done,
         want \subseteq [patch : Defined, value : {w.value : w \in want}, timing : Timing],
         CodeInv(code, lack, st, want, done)
  PROVE  /\ ApplyVersionPatch(code) = [s \in AllSites |-> ApplyVersionPatch(code)[s]]
         /\ CodeInv(ApplyVersionPatch(code), lack, st, want, done)
  <1>1. PICK after : after = ApplyVersionPatch(code)
    OBVIOUS
  <1>2. PICK versioned : versioned = [code EXCEPT ![VersionSite] = [by |-> "2EZConfig", value |-> 0]]
    OBVIOUS
  <1>3. after = code \/ after = versioned
    BY <1>1, <1>2 DEF ApplyVersionPatch
  <1>4. versioned = [s \in AllSites |-> versioned[s]]
        /\ \A s \in AllSites : IF s = VersionSite THEN versioned[s].by = "2EZConfig"
                                                  ELSE versioned[s] = code[s]
    BY <1>2
  <1>5. CASE after = code
    BY <1>1, <1>5
  <1>6. CASE after = versioned
    <2>1. OnlyOf(versioned, want)
      BY <1>4 DEF CodeInv, OnlyOf
    <2>2. ASSUME NEW w \in want, Kept(code, lack, st, want, w, done)
          PROVE  Kept(versioned, lack, st, want, w, done)
      <3> SUFFICES ASSUME AloneIn(want, w.patch) PROVE Kept(versioned, lack, st, want, w, done)
        BY DEF Kept
      <3>1. w.patch \in Defined
        OBVIOUS
      <3>2. \A s \in Touches(w.patch) : versioned[s] = code[s]
        <4>1. Touches(w.patch) \subseteq AllSites
          BY <3>1, TouchesSites DEF AllSites
        <4>2. VersionSite \notin Touches(w.patch)
          BY DEF AloneIn
        <4> QED
          BY <1>4, <4>1, <4>2
      <3>3. /\ Fresh(code, lack, w.patch) => Fresh(versioned, lack, w.patch)
            /\ Stamped(code, lack, w.patch, st) => Stamped(versioned, lack, w.patch, st)
        BY <3>2 DEF Fresh, Stamped
      <3> QED
        BY <2>2, <3>3 DEF Kept
    <2> QED
      BY <1>1, <1>4, <1>6, <2>1, <2>2 DEF CodeInv
  <1> QED
    BY <1>3, <1>5, <1>6

(* What is chosen from patches consists of patches. *)
LEMMA ChosenTyped ==
  ASSUME NEW list \in Seq(Defined), NEW st, NEW want, want = Chosen(list, st)
  PROVE  want \subseteq [patch : Defined, value : {w.value : w \in want}, timing : Timing]
  <1>1. ASSUME NEW w \in want PROVE w \in [patch : Defined, value : {v.value : v \in want}, timing : Timing]
    <2>1. PICK t \in Timing : \E q \in ToSet(Phase(list, st, t)) :
                                w = [patch |-> q, value |-> st[q.id].value, timing |-> t]
      BY ChosenByPhase
    <2>2. PICK q \in ToSet(Phase(list, st, t)) :
            w = [patch |-> q, value |-> st[q.id].value, timing |-> t]
      BY <2>1
    <2>3. q \in Defined
      BY ChosenByPhase
    <2>4. w.value \in {v.value : v \in want}
      OBVIOUS
    <2> QED
      BY <2>2, <2>3, <2>4
  <1> QED
    BY <1>1

LEMMA ImageInvInit == Init => ImageInv
  <1> SUFFICES ASSUME Init PROVE ImageInv
    OBVIOUS
  <1>1. image = Packed /\ packed = TRUE /\ release = {} /\ dll = "out" /\ settled = {}
    BY DEF Init
  <1> QED
    BY <1>1, CodeTyped DEF ImageInv, Running

(* What holds of the code holds as long as nothing happens to it. *)
LEMMA ImageUntouched ==
  ASSUME ImageInv, UNCHANGED <<image, release, packed, settled, wanted, config>>,
         dll' = dll \/ (dll \in Running /\ dll' \in Running)
  PROVE  ImageInv'
  <1>1. Overtaken' = Overtaken
    BY DEF Overtaken
  <1>2. "out" \notin Running
    BY DEF Running
  <1> QED
    BY <1>1, <1>2 DEF ImageInv

(* A process that has just started. *)
LEMMA ImageStarts ==
  ASSUME ImageInv, DllInv, NEW name, NEW stopped, NewProcess(name, stopped)
  PROVE  ImageInv'
  <1>1. /\ exe = None /\ release' \in {{}, Lacking} /\ packed' \in BOOLEAN
        /\ image' = IF packed' THEN Packed ELSE Decrypted(release')
        /\ UNCHANGED dllVars
    BY DEF NewProcess
  <1>2. dll' = "out" /\ settled' = {}
    BY <1>1 DEF DllInv, ImageInv, dllVars
  <1>3. release' \subseteq Sites
    BY <1>1, StartUpAssumption
  <1>4. image' = [s \in AllSites |-> image'[s]]
    BY <1>1, CodeTyped
  <1> QED
    BY <1>1, <1>2, <1>3, <1>4 DEF ImageInv, Running

(* A phase of a DLL that runs. *)
LEMMA ImagePhase ==
  ASSUME ImageInv, DllInv, dll \in Running, dll' \in Running, NEW timing \in Timing,
         NEW code, code = [s \in AllSites |-> code[s]],
         ~Overtaken => CodeInv(code, release, config.state, wanted, settled),
         image' = ApplyPatches(code, Patches, config.state, timing),
         settled' = IF packed THEN settled ELSE settled \cup {timing},
         UNCHANGED <<release, packed, config, wanted>>
  PROVE  ImageInv'
  <1>1. PICK list \in Seq(Defined) : list = Patches
    BY PatchesTyped DEF DllInv
  <1>2. PICK st : st = config.state
    OBVIOUS
  <1>3. wanted = Chosen(list, st)
    BY <1>1, <1>2 DEF DllInv
  <1>4. image' = ApplyPatches(code, list, st, timing)
    BY <1>1, <1>2
  <1>5. image' = [s \in AllSites |-> image'[s]]
    BY <1>4, PhaseTyped
  <1>6. Overtaken' = Overtaken
    BY DEF Overtaken
  <1>7. ~Overtaken => CodeInv(image', release, st, wanted, settled')
    <2>1. PICK done : done = settled
      OBVIOUS
    <2>2. ~Overtaken => CodeInv(code, release, st, Chosen(list, st), done)
      BY <1>2, <1>3, <2>1
    <2>3. ~Overtaken => CodeInv(ApplyPatches(code, list, st, timing), release, st, Chosen(list, st),
                                IF packed THEN done ELSE done \cup {timing})
      BY <2>2, PhaseKeepsCode
    <2> QED
      BY <1>3, <1>4, <2>1, <2>3
  <1>8. ~Overtaken' => CodeInv(image', release', config'.state, wanted', settled')
    BY <1>2, <1>6, <1>7
  <1>9. settled' \subseteq Timing /\ (packed' => settled' = {}) /\ dll' # "out"
    BY DEF ImageInv, Running
  <1> QED
    BY <1>5, <1>8, <1>9 DEF ImageInv, CodeInv

(* LoadLibraryA: DllMain's phase, or nothing. *)
LEMMA ImageLoads ==
  ASSUME SettingsInv, ChoiceInv, DllInv, ImageInv, NEW name, LoadLibrary(name),
         UNCHANGED <<release, packed>>
  PROVE  ImageInv'
  <1>1. CASE Unloaded
    BY <1>1, ImageUntouched DEF Unloaded, dllVars
  <1>2. CASE dll = "out" /\ DllMain(name)
    <2>0. /\ image = [s \in AllSites |-> image[s]] /\ settled = {}
          /\ image = IF packed THEN Packed ELSE Decrypted(release)
      BY <1>2 DEF ImageInv
    <2>1. CASE dll' = "aborted" /\ UNCHANGED <<config, image, settled, wanted>>
      BY <2>1 DEF ImageInv, Running
    <2>2. CASE /\ dll' = "io" /\ config'.loaded \in DOMAIN Loads
               /\ wanted' = Chosen(Patches', config'.state)
               /\ settled' = IF packed THEN settled ELSE settled \cup {"super_early"}
               /\ \E list \in Seq(Defined) : \E st : image' = ApplyPatches(image, list, st, "super_early")
               /\ ~Overtaken' => image' = ApplyPatches(image, Patches', config'.state, "super_early")
      <3>1. image' = [s \in AllSites |-> image'[s]]
        BY <2>0, <2>2, PhaseTyped
      <3>2. PICK f \in DOMAIN Loads : f = config'.loaded
        BY <2>2
      <3>3. PICK list \in Seq(Defined) : list = Patches'
        BY <3>2, ForTyped DEF Patches
      <3>4. PICK st : st = config'.state
        OBVIOUS
      <3>5. CodeInv(image, release, st, Chosen(list, st), {})
        BY <2>0, CodeTyped, FreshIsKept DEF CodeInv
      <3>6. PICK done : done = {"super_early"} /\ "super_early" \in Timing
        BY DEF Timing
      <3>7. ~Overtaken' => CodeInv(image', release, st, wanted', settled')
        <4>1. CodeInv(ApplyPatches(image, list, st, "super_early"), release, st, Chosen(list, st),
                      IF packed THEN {} ELSE {} \cup {"super_early"})
          BY <2>0, <3>5, <3>6, PhaseKeepsCode
        <4>2. ~Overtaken' => image' = ApplyPatches(image, list, st, "super_early")
          BY <2>2, <3>3, <3>4
        <4>3. wanted' = Chosen(list, st)
          BY <2>2, <3>3, <3>4
        <4>4. settled' = IF packed THEN {} ELSE {} \cup {"super_early"}
          BY <2>0, <2>2
        <4> QED
          BY <4>1, <4>2, <4>3, <4>4
      <3>8. settled' \subseteq Timing /\ (packed' => settled' = {}) /\ dll' # "out"
        BY <2>0, <2>2, <3>6
      <3> QED
        BY <3>1, <3>4, <3>7, <3>8 DEF ImageInv, CodeInv
    <2> QED
      BY <1>2, <2>0, <2>1, <2>2, DllMainFinds
  <1> QED
    BY <1>1, <1>2 DEF LoadLibrary

LEMMA ImageInvStep ==
  SettingsInv /\ ChoiceInv /\ DllInv /\ ImageInv /\ [Next]_vars => ImageInv'
  <1> SUFFICES ASSUME SettingsInv, ChoiceInv, DllInv, ImageInv, [Next]_vars PROVE ImageInv'
    OBVIOUS
  <1>1. CASE Launcher
    BY <1>1, ImageUntouched DEF Launcher, processVars, runningVars, dllVars
  <1>2. CASE Play \/ \E name \in Watched : TraxStarts(name)
    BY <1>2, ImageStarts DEF Play, TraxStarts
  <1>3. CASE InjectFails \/ GameExits
    <2>1. release' = {} /\ packed' = TRUE /\ image' = Packed /\ dll' = "out" /\ settled' = {}
      BY <1>3 DEF InjectFails, GameExits, Gone
    <2> QED
      BY <2>1, CodeTyped DEF ImageInv, Running
  <1>4. CASE PlayFails \/ ResumeThread \/ PlaySixth \/ WatchLooks \/ WatchDecides
    BY <1>4, ImageUntouched DEF PlayFails, ResumeThread, PlaySixth, WatchLooks, WatchDecides, processVars,
                                runningVars, dllVars
  <1>5. CASE InjectSuspended
    BY <1>5, ImageLoads DEF InjectSuspended, runningVars
  <1>6. CASE WatchInjects
    <2>1. CASE exe = poll.name
      BY <1>6, <2>1, ImageLoads DEF WatchInjects, runningVars
    <2>2. CASE exe # poll.name
      BY <1>6, <2>2, ImageUntouched DEF WatchInjects, Unloaded, runningVars, dllVars
    <2> QED
      BY <2>1, <2>2
  <1>7. CASE InitialiseIO
    <2>1. dll \in Running /\ dll' \in Running /\ UNCHANGED <<image, release, packed, settled, wanted, config>>
      BY <1>7 DEF InitialiseIO, processVars, runningVars, Running
    <2> QED
      BY <2>1, ImageUntouched
  <1>c. dll \in Running /\ ~Overtaken => CodeInv(image, release, config.state, wanted, settled)
    BY DEF ImageInv, CodeInv
  <1>t. "early" \in Timing /\ "normal" \in Timing
    BY DEF Timing
  <1>8. CASE ApplyEarlyPatches
    <2>1. /\ dll \in Running /\ dll' \in Running
          /\ image' = ApplyPatches(image, Patches, config.state, "early")
          /\ settled' = IF packed THEN settled ELSE settled \cup {"early"}
          /\ UNCHANGED <<release, packed, config, wanted>>
      BY <1>8 DEF ApplyEarlyPatches, Apply, runningVars, Running
    <2>2. image = [s \in AllSites |-> image[s]]
      BY DEF ImageInv
    <2> QED
      BY <1>c, <1>t, <2>1, <2>2, ImagePhase
  <1>9. CASE ApplyNormalPatches
    <2>1. PICK code : code = IF FamilyFromGameId(config.id) \in {"EZ2DJ", "EZ2Dancer"}
                             THEN ApplyVersionPatch(image) ELSE image
      OBVIOUS
    <2>2. /\ dll \in Running /\ dll' \in Running
          /\ image' = ApplyPatches(code, Patches, config.state, "normal")
          /\ settled' = IF packed THEN settled ELSE settled \cup {"normal"}
          /\ UNCHANGED <<release, packed, config, wanted>>
      BY <1>9, <2>1 DEF ApplyNormalPatches, Apply, runningVars, Running
    <2>3. image = [s \in AllSites |-> image[s]]
      BY DEF ImageInv
    <2>4. PICK list \in Seq(Defined) : list = Patches
      BY <2>2, PatchesTyped DEF DllInv
    <2>5. PICK st : st = config.state
      OBVIOUS
    <2>6. wanted = Chosen(list, st)
      BY <2>2, <2>4, <2>5 DEF DllInv
    <2>7. wanted \subseteq [patch : Defined, value : {w.value : w \in wanted}, timing : Timing]
      BY <2>6, ChosenTyped
    <2>8. code = [s \in AllSites |-> code[s]]
      <3>1. ApplyVersionPatch(image) = [s \in AllSites |-> ApplyVersionPatch(image)[s]]
        <4>1. PICK versioned : versioned = [image EXCEPT ![VersionSite] = [by |-> "2EZConfig", value |-> 0]]
          OBVIOUS
        <4>2. versioned = [s \in AllSites |-> versioned[s]]
          BY <2>3, <4>1
        <4> QED
          BY <2>3, <4>1, <4>2 DEF ApplyVersionPatch
      <3> QED
        BY <2>1, <2>3, <3>1
    <2>9. ~Overtaken => CodeInv(code, release, config.state, wanted, settled)
      <3>1. ~Overtaken => CodeInv(ApplyVersionPatch(image), release, st, wanted, settled)
        BY <1>c, <2>2, <2>3, <2>5, <2>7, VersionKeepsCode
      <3> QED
        BY <1>c, <2>1, <2>2, <2>5, <3>1
    <2> QED
      BY <1>t, <2>2, <2>8, <2>9, ImagePhase
  <1>10. CASE GameRuns
    BY <1>10, ImageUntouched DEF GameRuns, dllVars
  <1>11. CASE GameDecrypts
    <2>1. /\ packed /\ packed' = FALSE /\ image' = Decrypted(release)
          /\ UNCHANGED <<release, dll, config, settled, wanted>>
      BY <1>11 DEF GameDecrypts, dllVars
    <2>2. settled = {} /\ settled' = {} /\ release' \subseteq Sites
      BY <2>1 DEF ImageInv
    <2>3. image' = [s \in AllSites |-> image'[s]] /\ OnlyOf(image', wanted')
      BY <2>1, CodeTyped
    <2>4. \A w \in wanted' : Kept(image', release', config'.state, wanted', w, settled')
      BY <2>1, <2>2, FreshIsKept
    <2> QED
      BY <2>1, <2>2, <2>3, <2>4 DEF ImageInv
  <1>12. CASE UNCHANGED vars
    BY <1>12, ImageUntouched DEF vars, processVars, runningVars, dllVars
  <1> QED
    BY <1>1, <1>2, <1>3, <1>4, <1>5, <1>6, <1>7, <1>8, <1>9, <1>10, <1>11, <1>12 DEF Next, WatchLoop

(* What holds of the code is that it is as chosen. *)
LEMMA CodeIsChosen == DllInv /\ ImageInv => ImageIsChosen
  <1> SUFFICES ASSUME DllInv, ImageInv, dll = "done", ~Overtaken PROVE OnlyChosen /\ ChosenHolds
    BY DEF ImageIsChosen
  <1>1. dll \in Running /\ config.loaded \in DOMAIN Loads /\ wanted = Chosen(Patches, config.state)
    BY DEF DllInv, Running
  <1>2. OnlyChosen
    BY <1>1 DEF ImageInv, OnlyOf, OnlyChosen
  <1>3. PICK list \in Seq(Defined) : list = Patches
    BY <1>1, PatchesTyped
  <1>4. PICK st : st = config.state /\ wanted = Chosen(list, st)
    BY <1>1, <1>3
  <1>5. ASSUME NEW w \in wanted, w.timing \in settled, Alone(w.patch), Fits(w.patch) PROVE InImage(w)
    <2>1. AloneIn(wanted, w.patch)
      BY <1>5 DEF Alone, AloneIn, Parted
    <2>2. FitsIn(release, w.patch)
      BY <1>5 DEF Fits, FitsIn, Found, FoundIn
    <2>3. Stamped(image, release, w.patch, st)
      BY <1>1, <1>4, <1>5, <2>1, <2>2 DEF ImageInv, Kept
    <2>4. PICK t \in Timing : \E q \in ToSet(Phase(list, st, t)) :
                                w = [patch |-> q, value |-> st[q.id].value, timing |-> t]
      BY <1>4, ChosenByPhase
    <2>5. PICK q \in ToSet(Phase(list, st, t)) :
            w = [patch |-> q, value |-> st[q.id].value, timing |-> t]
      BY <2>4
    <2>6. w.patch = q /\ w.value = st[q.id].value /\ q \in Defined
      BY <2>5, ChosenByPhase
    <2>7. Byte(w) = Stamp(q, st)
      BY <2>6 DEF Byte, Stamp
    <2>8. Places(q) = PlacesIn(release, q) /\ PlacesIn(release, q) \subseteq Touches(q)
      <3>1. Places(q) = PlacesIn(release, q)
        BY DEF Places, PlacesIn, Found, FoundIn
      <3> QED
        BY <2>6, <3>1, TouchesSites
    <2>9. \A s \in PlacesIn(release, q) : image[s] = Stamp(q, st)
      BY <2>3, <2>6, <2>8 DEF Stamped
    <2> QED
      BY <2>6, <2>7, <2>8, <2>9 DEF InImage
  <1> QED
    BY <1>2, <1>5 DEF ChosenHolds

\* The types of what no other part speaks of.
ProcessTyped ==
  /\ exe \in Watched \cup {"game", None} /\ suspended \in BOOLEAN /\ early \in BOOLEAN
  /\ watch \in {"off", "on", "over"} /\ unseen \in 0..Patience + 1
  /\ watch = "on" => unseen <= Patience

LEMMA ProcessTypedInit == Init => ProcessTyped
  <1> SUFFICES ASSUME Init PROVE ProcessTyped
    OBVIOUS
  <1>1. /\ exe = None /\ suspended = FALSE /\ early = FALSE /\ watch = "off" /\ unseen = 0
    BY DEF Init
  <1>2. 0 \in 0..Patience + 1
    BY StartUpAssumption
  <1> QED
    BY <1>1, <1>2 DEF ProcessTyped

LEMMA ProcessTypedStep == ProcessTyped /\ [Next]_vars => ProcessTyped'
  <1> SUFFICES ASSUME ProcessTyped, [Next]_vars PROVE ProcessTyped'
    OBVIOUS
  <1>0. /\ exe \in Watched \cup {"game", None} /\ suspended \in BOOLEAN /\ early \in BOOLEAN
        /\ watch \in {"off", "on", "over"} /\ unseen \in 0..Patience + 1
        /\ watch = "on" => unseen <= Patience
    BY DEF ProcessTyped
  <1>p. Patience \in Nat /\ 0 \in 0..Patience + 1 /\ 0 <= Patience
    BY StartUpAssumption
  <1>1. ASSUME UNCHANGED watchVars, exe' \in {exe, None, "game"} \cup Watched,
               suspended' \in {suspended, FALSE, TRUE}, early' \in {early, FALSE, TRUE}
        PROVE  ProcessTyped'
    BY <1>0, <1>1 DEF watchVars, ProcessTyped
  <1>2. CASE Launcher \/ UNCHANGED vars
    BY <1>1, <1>2 DEF Launcher, vars, processVars, runningVars
  <1>3. CASE Play
    BY <1>1, <1>3 DEF Play, NewProcess
  <1>4. ASSUME NEW name \in Watched, TraxStarts(name) PROVE ProcessTyped'
    BY <1>1, <1>4 DEF TraxStarts, NewProcess
  <1>5. CASE InjectFails \/ GameExits
    BY <1>1, <1>5 DEF InjectFails, GameExits, Gone
  <1>6. CASE PlayFails \/ InjectSuspended \/ ResumeThread
    BY <1>1, <1>6 DEF PlayFails, InjectSuspended, ResumeThread, processVars, runningVars
  <1>7. CASE InitialiseIO \/ ApplyEarlyPatches \/ ApplyNormalPatches
    BY <1>1, <1>7 DEF InitialiseIO, ApplyEarlyPatches, ApplyNormalPatches, processVars, runningVars
  <1>8. CASE GameRuns \/ GameDecrypts
    BY <1>1, <1>8 DEF GameRuns, GameDecrypts
  <1>9. ASSUME UNCHANGED <<exe, suspended, early>>, watch' \in {"on", "over"}, unseen' \in 0..Patience + 1,
               watch' = "on" => unseen' <= Patience
        PROVE  ProcessTyped'
    BY <1>0, <1>9 DEF ProcessTyped
  <1>10. CASE PlaySixth
    BY <1>9, <1>10, <1>p DEF PlaySixth, processVars, runningVars
  <1>11. CASE WatchLooks \/ WatchInjects
    BY <1>0, <1>9, <1>11 DEF WatchLooks, WatchInjects, processVars, runningVars
  <1>12. CASE WatchDecides
    <2>1. /\ UNCHANGED <<exe, suspended, early>>
          /\ watch = "on" /\ unseen' = (IF poll.seen THEN 0 ELSE unseen + 1)
          /\ watch' = (IF unseen' > Patience THEN "over" ELSE "on")
      BY <1>12 DEF WatchDecides, processVars, runningVars
    <2>2. unseen' \in 0..Patience + 1
      BY <1>0, <1>p, <2>1
    <2> QED
      BY <1>9, <1>p, <2>1, <2>2
  <1> QED
    BY <1>2, <1>3, <1>4, <1>5, <1>6, <1>7, <1>8, <1>10, <1>11, <1>12 DEF Next, WatchLoop

LEMMA LauncherSteps == [LauncherNext]_LauncherVars => [Next]_vars
  BY DEF LauncherNext, LauncherVars

LauncherInv ==
  /\ FilesInv /\ ProcessInv /\ WatchInv /\ SettingsInv /\ ChoiceInv /\ DllInv /\ ImageInv
  /\ ProcessTyped

LEMMA LauncherInvHolds == LauncherSpec => []LauncherInv
  <1>1. LauncherInit => LauncherInv
    BY FilesInvInit, ProcessInvInit, WatchInvInit, SettingsInvInit, ChoiceInvInit, DllInvInit,
       ImageInvInit, ProcessTypedInit DEF LauncherInit, LauncherInv
  <1>2. LauncherInv /\ [LauncherNext]_LauncherVars => LauncherInv'
    BY LauncherSteps, FilesInvStep, ProcessInvStep, WatchInvStep, SettingsInvStep, ChoiceInvStep,
       DllInvStep, ImageInvStep, ProcessTypedStep DEF LauncherInv
  <1> QED
    BY <1>1, <1>2, PTL DEF LauncherSpec

-----------------------------------------------------------------------------
(* The theorems about settings and games. *)

(* However often the launcher is killed and started again, and however     *)
(* early the game's file is handed to the system: two files that can be    *)
(* read hold the settings of one save (settings.cpp: save).                *)
THEOREM FilesAreOfOneSave == LauncherSpec => []ReadsOneSave
  <1>1. LauncherInv => ReadsOneSave
    BY DEF LauncherInv, FilesInv
  <1> QED
    BY <1>1, LauncherInvHolds, PTL

(* A DLL that gets into a game which the launcher has started comes before *)
(* the game's own code, whenever the launcher is killed and however the    *)
(* injection ends (injector.cpp: LaunchAndInject).                         *)
THEOREM DllIsInTime == LauncherSpec => []DllIsNotLate
  <1>1. LauncherInv => DllIsNotLate
    BY DEF LauncherInv, ProcessInv, DllIsNotLate
  <1> QED
    BY <1>1, LauncherInvHolds, PTL

(* However 6th Trax goes back and forth between its games, whichever       *)
(* numbers the system gives them, and whatever ends or starts between the  *)
(* two lookups of a poll: no process is injected again and again (main.cpp: *)
(* sixthBackgroundLoop, injector.cpp: InjectRunningProcess).               *)
THEOREM NoneInjectedTwice == LauncherSpec => []InjectedOnce
  <1>1. LauncherInv => InjectedOnce
    <2> SUFFICES ASSUME LauncherInv PROVE InjectedOnce
      OBVIOUS
    <2>1. attempts \in [1..MaxProcesses -> 0..1] /\ strays \in [1..MaxProcesses -> 0..1]
      BY DEF LauncherInv, WatchInv, CountInv
    <2> QED
      BY <2>1 DEF InjectedOnce
  <1> QED
    BY <1>1, LauncherInvHolds, PTL

(* Whatever is edited, killed, started again, unpacked late or injected    *)
(* anew: once InitThread is through, the bytes of the game's code are those *)
(* of the patches chosen for it, as far as a phase has found the code      *)
(* decrypted, the release has their places and they do not meet            *)
(* (patch_store.cpp, settings.cpp, dll.cpp).                               *)
THEOREM ChoiceIsInImage == LauncherSpec => []ImageIsChosen
  <1>1. LauncherInv => ImageIsChosen
    BY CodeIsChosen DEF LauncherInv
  <1> QED
    BY <1>1, LauncherInvHolds, PTL

-----------------------------------------------------------------------------
(* Bindings and the settings. *)

LightBindings == {NoLight} \union [device : LampDevices, output : Outlets]

LEMMA BlockIs ==
  ASSUME NEW x, NEW d
  PROVE  Block({x}, d) = x /\ Block({}, d) = d
  BY DEF Block

LEMMA ButtonComesBack ==
  ASSUME NEW b \in Binding
  PROVE  ButtonFromJson(ButtonToJson(b)) = b
  <1>1. CASE b = Key
    BY <1>1 DEF ButtonFromJson, ButtonToJson
  <1>2. CASE b # Key
    <2>1. ButtonToJson(b) = [type |-> "HidButton", control |-> b]
      BY <1>2 DEF ButtonToJson
    <2> QED
      BY <2>1 DEF ButtonFromJson
  <1> QED
    BY <1>1, <1>2

LEMMA AnalogFields ==
  ASSUME NEW a \in AnalogBindings
  PROVE  /\ a = [device |-> a.device, axis |-> a.axis, reverse |-> a.reverse,
                 minus |-> a.minus, plus |-> a.plus, step |-> a.step, mouse |-> a.mouse,
                 mouseAxis |-> a.mouseAxis, sensitivity |-> a.sensitivity]
         /\ a.minus \in Binding /\ a.plus \in Binding /\ a.step \in 1..20 /\ a.sensitivity \in 1..20
         /\ a.axis \in Int /\ a.mouseAxis \in Int
         /\ a.mouse = Unset => a.mouseAxis = -1
         /\ a.mouse # Unset => a.mouseAxis >= 0
         /\ HasMouse(a) <=> a.mouse # Unset
  <1>1. a \in [device : {Unset, "pad"}, axis : Int, reverse : BOOLEAN, minus : Binding, plus : Binding,
               step : 1..20, mouse : {Unset, "mouse"}, mouseAxis : Int, sensitivity : 1..20]
    BY DEF AnalogBindings
  <1>2. IF a.mouse = Unset THEN a.mouseAxis = -1 ELSE a.mouseAxis >= 0
    BY DEF AnalogBindings
  <1>3. a.mouseAxis \in Int
    BY <1>1
  <1>4. HasMouse(a) <=> a.mouse # Unset
    BY <1>2, <1>3 DEF HasMouse
  <1>5. a = [device |-> a.device, axis |-> a.axis, reverse |-> a.reverse,
             minus |-> a.minus, plus |-> a.plus, step |-> a.step, mouse |-> a.mouse,
             mouseAxis |-> a.mouseAxis, sensitivity |-> a.sensitivity]
    BY <1>1
  <1> QED
    BY <1>1, <1>2, <1>4, <1>5

LEMMA NoAnalogIs == NoAnalog \in AnalogBindings
  <1>1. Unset \in Binding
    BY DEF Binding
  <1>2. NoAnalog \in [device : {Unset, "pad"}, axis : Int, reverse : BOOLEAN, minus : Binding, plus : Binding,
                      step : 1..20, mouse : {Unset, "mouse"}, mouseAxis : Int, sensitivity : 1..20]
    BY <1>1 DEF NoAnalog
  <1>3. NoAnalog.mouse = Unset /\ NoAnalog.mouseAxis = -1
    BY DEF NoAnalog
  <1> QED
    BY <1>2, <1>3 DEF AnalogBindings

(* What the settings hold of a turntable is all that can be felt of it.     *)
LEMMA AnalogComesBack ==
  ASSUME NEW a \in AnalogBindings
  PROVE  AnalogFromJson(AnalogToJson(a)) =
           [device |-> a.device, axis |-> a.axis, reverse |-> a.reverse,
            minus |-> a.minus, plus |-> a.plus,
            step |-> IF HasVtt(a) THEN a.step ELSE 3,
            mouse |-> a.mouse, mouseAxis |-> a.mouseAxis,
            sensitivity |-> IF HasMouse(a) THEN a.sensitivity ELSE 5]
  <1> DEFINE j == AnalogToJson(a)
             vtt == Block(j.vtt, VttToJson(NoAnalog))
             mouse == Block(j.mouse, MouseToJson(NoAnalog))
  <1>1. /\ j.device_path = a.device /\ j.axis_idx = a.axis /\ j.reverse = a.reverse
        /\ j.vtt = IF HasVtt(a) THEN {VttToJson(a)} ELSE {}
        /\ j.mouse = IF HasMouse(a) THEN {MouseToJson(a)} ELSE {}
    BY DEF AnalogToJson
  <1>2. vtt = VttToJson(IF HasVtt(a) THEN a ELSE NoAnalog)
    BY <1>1, BlockIs
  <1>3. mouse = MouseToJson(IF HasMouse(a) THEN a ELSE NoAnalog)
    BY <1>1, BlockIs
  <1>4. a.minus \in Binding /\ a.plus \in Binding /\ Unset \in Binding
    BY AnalogFields DEF Binding
  <1>5. /\ ButtonFromJson(vtt.minus) = a.minus /\ ButtonFromJson(vtt.plus) = a.plus
        /\ vtt.step = IF HasVtt(a) THEN a.step ELSE 3
    <2>1. CASE HasVtt(a)
      BY <1>2, <1>4, <2>1, ButtonComesBack DEF VttToJson
    <2>2. CASE ~HasVtt(a)
      <3>1. /\ ButtonFromJson(vtt.minus) = Unset /\ ButtonFromJson(vtt.plus) = Unset /\ vtt.step = 3
        BY <1>2, <1>4, <2>2, ButtonComesBack DEF VttToJson, NoAnalog
      <3> QED
        BY <2>2, <3>1 DEF HasVtt
    <2> QED
      BY <2>1, <2>2
  <1>6. /\ mouse.device_path = a.mouse /\ mouse.axis = a.mouseAxis
        /\ mouse.sensitivity = IF HasMouse(a) THEN a.sensitivity ELSE 5
    <2>1. CASE HasMouse(a)
      BY <1>3, <2>1 DEF MouseToJson
    <2>2. CASE ~HasMouse(a)
      <3>1. mouse.device_path = Unset /\ mouse.axis = -1 /\ mouse.sensitivity = 5
        BY <1>3, <2>2 DEF MouseToJson, NoAnalog
      <3> QED
        BY <2>2, <3>1, AnalogFields
    <2> QED
      BY <2>1, <2>2
  <1>7. AnalogFromJson(j) =
          [device |-> j.device_path, axis |-> j.axis_idx, reverse |-> j.reverse,
           minus |-> ButtonFromJson(vtt.minus), plus |-> ButtonFromJson(vtt.plus), step |-> vtt.step,
           mouse |-> mouse.device_path, mouseAxis |-> mouse.axis, sensitivity |-> mouse.sensitivity]
    BY DEF AnalogFromJson
  <1> HIDE DEF j, vtt, mouse
  <1>8. AnalogFromJson(j) =
          [device |-> a.device, axis |-> a.axis, reverse |-> a.reverse,
           minus |-> a.minus, plus |-> a.plus,
           step |-> IF HasVtt(a) THEN a.step ELSE 3,
           mouse |-> a.mouse, mouseAxis |-> a.mouseAxis,
           sensitivity |-> IF HasMouse(a) THEN a.sensitivity ELSE 5]
    BY Zenon, <1>1, <1>5, <1>6, <1>7
  <1> QED
    BY <1>8 DEF j

LEMMA FeltIs ==
  ASSUME NEW a \in AnalogBindings, AnalogSet(a) \/ HasVtt(a)
  PROVE  Felt(a) = [device |-> a.device, axis |-> a.axis, reverse |-> a.reverse,
                    minus |-> a.minus, plus |-> a.plus,
                    step |-> IF HasVtt(a) THEN a.step ELSE 3,
                    mouse |-> a.mouse, mouseAxis |-> a.mouseAxis,
                    sensitivity |-> IF HasMouse(a) THEN a.sensitivity ELSE 5]
  <1>1. PICK x : x = IF HasVtt(a) THEN a.step ELSE 3
    OBVIOUS
  <1>2. PICK y : y = IF HasMouse(a) THEN a.sensitivity ELSE 5
    OBVIOUS
  <1>3. NoAnalog.step = 3 /\ NoAnalog.sensitivity = 5
    BY DEF NoAnalog
  <1>4. Felt(a) = [a EXCEPT !.step = x, !.sensitivity = y]
    BY <1>1, <1>2, <1>3 DEF Felt
  <1>5. [a EXCEPT !.step = x, !.sensitivity = y] =
          [device |-> a.device, axis |-> a.axis, reverse |-> a.reverse,
           minus |-> a.minus, plus |-> a.plus, step |-> x,
           mouse |-> a.mouse, mouseAxis |-> a.mouseAxis, sensitivity |-> y]
    <2>1. a \in [device : {Unset, "pad"}, axis : Int, reverse : BOOLEAN, minus : Binding, plus : Binding,
                 step : 1..20, mouse : {Unset, "mouse"}, mouseAxis : Int, sensitivity : 1..20]
      BY DEF AnalogBindings
    <2>2. PICK c : c = [a EXCEPT !.step = x, !.sensitivity = y]
      OBVIOUS
    <2>3. x \in 1..20 /\ y \in 1..20
      BY <1>1, <1>2, <2>1
    <2>4. c \in [device : {Unset, "pad"}, axis : Int, reverse : BOOLEAN, minus : Binding, plus : Binding,
                 step : 1..20, mouse : {Unset, "mouse"}, mouseAxis : Int, sensitivity : 1..20]
      BY <2>1, <2>2, <2>3
    <2>5. /\ c.device = a.device /\ c.axis = a.axis /\ c.reverse = a.reverse
          /\ c.minus = a.minus /\ c.plus = a.plus /\ c.step = x
          /\ c.mouse = a.mouse /\ c.mouseAxis = a.mouseAxis /\ c.sensitivity = y
      BY <2>1, <2>2
    <2>6. c = [device |-> c.device, axis |-> c.axis, reverse |-> c.reverse,
               minus |-> c.minus, plus |-> c.plus, step |-> c.step, mouse |-> c.mouse,
               mouseAxis |-> c.mouseAxis, sensitivity |-> c.sensitivity]
      BY <2>4
    <2> QED
      BY <2>2, <2>5, <2>6
  <1> QED
    BY <1>1, <1>2, <1>4, <1>5

(* So it is with all bindings: written and read back, they are what they    *)
(* were.                                                                    *)
LEMMA BindingsComeBack ==
  ASSUME NEW b \in [ButtonRows -> Binding], NEW a \in AnalogBindings,
         NEW l \in [Families -> LightBindings]
  PROVE  FromJson(ToJson(b, a, l)) = [buttons |-> b, analog |-> Felt(a), lights |-> l]
  <1> DEFINE j == ToJson(b, a, l)
             heldRows == {r \in ButtonRows : b[r] # Unset}
             heldLights == {f \in Families : l[f].device # Unset /\ l[f].output >= 0}
  <1>1. /\ j.buttons = [r \in heldRows |-> ButtonToJson(b[r])]
        /\ j.analog = IF AnalogSet(a) \/ HasVtt(a) THEN {AnalogToJson(a)} ELSE {}
        /\ j.lights = [f \in heldLights |-> l[f]]
    BY DEF ToJson
  <1>2. [r \in ButtonRows |-> IF r \in DOMAIN j.buttons THEN ButtonFromJson(j.buttons[r]) ELSE Unset] = b
    <2>1. ASSUME NEW r \in ButtonRows
          PROVE  (IF r \in DOMAIN j.buttons THEN ButtonFromJson(j.buttons[r]) ELSE Unset) = b[r]
      <3>1. CASE b[r] # Unset
        <4>1. r \in DOMAIN j.buttons /\ j.buttons[r] = ButtonToJson(b[r])
          BY <1>1, <3>1
        <4> QED
          BY <4>1, ButtonComesBack
      <3>2. CASE b[r] = Unset
        BY <1>1, <3>2
      <3> QED
        BY <3>1, <3>2
    <2> HIDE DEF j
    <2> QED
      BY <2>1
  <1>3. AnalogFromJson(Block(j.analog, AnalogToJson(NoAnalog))) = Felt(a)
    <2>1. CASE AnalogSet(a) \/ HasVtt(a)
      <3>1. Block(j.analog, AnalogToJson(NoAnalog)) = AnalogToJson(a)
        BY <1>1, <2>1, BlockIs
      <3> QED
        BY <2>1, <3>1, AnalogComesBack, FeltIs
    <2>2. CASE ~(AnalogSet(a) \/ HasVtt(a))
      <3>1. Block(j.analog, AnalogToJson(NoAnalog)) = AnalogToJson(NoAnalog)
        BY <1>1, <2>2, BlockIs
      <3>2. ~HasVtt(NoAnalog) /\ ~HasMouse(NoAnalog)
        BY DEF HasVtt, HasMouse, NoAnalog
      <3>3. AnalogFromJson(AnalogToJson(NoAnalog)) = NoAnalog
        BY <3>2, AnalogComesBack, NoAnalogIs DEF NoAnalog
      <3>4. Felt(a) = NoAnalog
        BY <2>2 DEF Felt
      <3> QED
        BY <3>1, <3>3, <3>4
    <2> QED
      BY <2>1, <2>2
  <1>4. [f \in Families |-> IF f \in DOMAIN j.lights THEN j.lights[f] ELSE NoLight] = l
    <2>1. ASSUME NEW f \in Families
          PROVE  (IF f \in DOMAIN j.lights THEN j.lights[f] ELSE NoLight) = l[f]
      <3>1. CASE l[f] = NoLight
        BY <1>1, <3>1 DEF NoLight
      <3>2. CASE l[f] # NoLight
        <4>1. l[f] \in [device : LampDevices, output : Outlets]
          BY <3>2 DEF LightBindings
        <4>2. l[f].device # Unset /\ l[f].output >= 0
          <5>1. Unset \notin LampDevices /\ Outlets \subseteq Nat
            BY EditorAssumption
          <5>2. l[f].device \in LampDevices /\ l[f].output \in Outlets
            BY <4>1
          <5>3. l[f].output \in Nat
            BY <5>1, <5>2
          <5> QED
            BY <5>1, <5>2, <5>3
        <4> QED
          BY <1>1, <4>2
      <3> QED
        BY <3>1, <3>2
    <2> HIDE DEF j
    <2> QED
      BY <2>1
  <1>5. FromJson(j) =
          [buttons |-> [r \in ButtonRows |->
                          IF r \in DOMAIN j.buttons THEN ButtonFromJson(j.buttons[r]) ELSE Unset],
           analog  |-> AnalogFromJson(Block(j.analog, AnalogToJson(NoAnalog))),
           lights  |-> [f \in Families |-> IF f \in DOMAIN j.lights THEN j.lights[f] ELSE NoLight]]
    BY DEF FromJson
  <1> HIDE DEF j
  <1>6. FromJson(j) = [buttons |-> b, analog |-> Felt(a), lights |-> l]
    BY <1>2, <1>3, <1>4, <1>5
  <1> QED
    BY <1>6 DEF j

-----------------------------------------------------------------------------
(* Frames and captures. *)

Drawing == {"reset", "row", "poll", "wait"}

\* A row is drawn only while there is one; a result is a control that was down
\* since the capture began.
FrameInv ==
  /\ chosenFamily \in Families /\ clicks \in 0..MaxClicks
  /\ tab \in {"other", "buttons", "analogs", "editAnalog", "lights", "bindLight"}
  /\ uiPc \in Drawing \union {"top", "vttReset", "vttStop"}
  /\ IF uiPc \in Drawing THEN row \in 1..ButtonCount[chosenFamily] ELSE row = 0
  /\ listenRow \in 0..10
  /\ clicked \in BOOLEAN /\ listening \in BOOLEAN /\ wasListening \in BOOLEAN
  /\ captureMode \in BOOLEAN
  /\ vttListening \in {Unset, "minus", "plus"}
  /\ prevStates \subseteq Control /\ heardDown \subseteq Control
  /\ padPc \in {"idle", "stored", "buttons", "hats"}
  /\ padStates \subseteq heardDown
  /\ captureResult \in heardDown \union {Unset}

LEMMA FrameInvInit == EditorInit => FrameInv
  <1> SUFFICES ASSUME EditorInit PROVE FrameInv
    OBVIOUS
  <1>1. 0 \in 0..MaxClicks
    BY EditorAssumption
  <1>2. chosenFamily \in Families /\ clicks = 0 /\ tab = "other" /\ uiPc = "top" /\ row = 0
        /\ listenRow = 0 /\ clicked = FALSE /\ listening = FALSE /\ wasListening = FALSE
        /\ vttListening = Unset
    BY DEF EditorInit
  <1>3. captureMode = FALSE /\ prevStates = {} /\ heardDown = {} /\ padStates = {}
        /\ padPc = "idle" /\ captureResult = Unset
    BY DEF EditorInit
  <1>4. 0 \in 0..10 /\ "top" \notin Drawing
    BY DEF Drawing
  <1> QED
    BY <1>1, <1>2, <1>3, <1>4 DEF FrameInv

LEMMA FrameInvStep == FrameInv /\ [EditorNext]_editorVars => FrameInv'
  <1> SUFFICES ASSUME FrameInv, [EditorNext]_editorVars PROVE FrameInv'
    OBVIOUS
  <1>c. /\ \A f \in Families : ButtonCount[f] \in 1..10
        /\ MaxClicks \in Nat /\ Control = Controls.hats \union Controls.buttons
    <2>1. /\ \A f \in Families : ButtonCount[f] \in 1..10
          /\ MaxClicks \in Nat
      BY EditorAssumption
    <2> QED
      BY <2>1 DEF Control
  <1>i. /\ chosenFamily \in Families /\ clicks \in 0..MaxClicks
        /\ tab \in {"other", "buttons", "analogs", "editAnalog", "lights", "bindLight"}
        /\ uiPc \in Drawing \union {"top", "vttReset", "vttStop"}
        /\ IF uiPc \in Drawing THEN row \in 1..ButtonCount[chosenFamily] ELSE row = 0
        /\ listenRow \in 0..10
        /\ clicked \in BOOLEAN /\ listening \in BOOLEAN /\ wasListening \in BOOLEAN
        /\ captureMode \in BOOLEAN
        /\ vttListening \in {Unset, "minus", "plus"}
        /\ prevStates \subseteq Control /\ heardDown \subseteq Control
        /\ padPc \in {"idle", "stored", "buttons", "hats"}
        /\ padStates \subseteq heardDown
        /\ captureResult \in heardDown \union {Unset}
    BY DEF FrameInv
  <1>t. "top" \notin Drawing /\ "vttReset" \notin Drawing /\ "vttStop" \notin Drawing
        /\ Drawing = {"reset", "row", "poll", "wait"}
    BY DEF Drawing
  <1>n. ASSUME NextRow, uiPc \in Drawing
        PROVE  /\ uiPc' \in {"row", "top"}
               /\ IF uiPc' \in Drawing THEN row' \in 1..ButtonCount[chosenFamily] ELSE row' = 0
    <2>1. row \in 1..ButtonCount[chosenFamily] /\ ButtonCount[chosenFamily] \in 1..10
      BY <1>c, <1>i, <1>n
    <2>2. CASE row < ButtonCount[chosenFamily]
      BY <1>n, <1>t, <2>1, <2>2 DEF NextRow
    <2>3. CASE ~(row < ButtonCount[chosenFamily])
      BY <1>n, <1>t, <2>1, <2>3 DEF NextRow
    <2> QED
      BY <2>2, <2>3
  <1>k. ASSUME Click
        PROVE  /\ clicks' \in 0..MaxClicks /\ clicked' \in BOOLEAN
    <2>1. clicks' = clicks + 1 /\ clicks < MaxClicks
      BY <1>k DEF Click
    <2>2. clicks' \in 0..MaxClicks
      BY <1>c, <1>i, <2>1
    <2>3. clicked' = clicked \/ clicked' = TRUE
      BY <1>k DEF Click
    <2> QED
      BY <1>i, <2>2, <2>3
  <1>1. CASE PadReports
    BY <1>1, <1>i DEF PadReports, FrameInv, uiVars
  <1>2. CASE LooksForCapture
    BY <1>2, <1>i DEF LooksForCapture, FrameInv, uiVars, captureVars
  <1>3. CASE CapturesButton
    BY <1>3, <1>c, <1>i DEF CapturesButton, Captures, FrameInv, uiVars
  <1>4. CASE CapturesHat
    BY <1>4, <1>c, <1>i DEF CapturesHat, FrameInv, uiVars
  <1>5. ASSUME NEW t \in {"other", "buttons", "analogs", "lights"}, ShowTab(t) PROVE FrameInv'
    BY <1>5, <1>i DEF ShowTab, FrameInv, captureVars, padVars
  <1>6. ASSUME NEW f \in Families, ChooseFamily(f) PROVE FrameInv'
    BY <1>6, <1>i, <1>k, <1>t DEF ChooseFamily, FrameInv, captureVars, padVars
  <1>7. CASE FrameStarts
    <2>1. 1 \in 1..ButtonCount[chosenFamily]
      BY <1>c, <1>i
    <2>2. UNCHANGED <<chosenFamily, tab, clicks, listening, listenRow, vttListening, padStates, padPc>>
          /\ wasListening' = listening /\ row' = 1 /\ clicked' = FALSE /\ uiPc' \in {"row", "reset"}
      BY <1>7 DEF FrameStarts, padVars
    <2>3. /\ captureMode' \in BOOLEAN /\ prevStates' \subseteq Control /\ heardDown' \subseteq Control
          /\ padStates \subseteq heardDown' /\ captureResult' \in heardDown' \union {Unset}
      BY <1>7, <1>i DEF FrameStarts, StartsCapture, StopCapture, captureVars
    <2> QED
      BY <1>i, <1>t, <2>1, <2>2, <2>3 DEF FrameInv
  <1>8. CASE FrameResets
    BY <1>8, <1>i, <1>t DEF FrameResets, ForgetsStates, FrameInv, padVars
  <1>9. CASE DrawsRow
    <2>1. uiPc = "row" /\ UNCHANGED <<chosenFamily, tab, clicked, clicks, listening, wasListening,
                                      listenRow, vttListening, captureVars, padVars>>
      BY <1>9 DEF DrawsRow
    <2>2. /\ uiPc' \in {"row", "top", "poll"}
          /\ IF uiPc' \in Drawing THEN row' \in 1..ButtonCount[chosenFamily] ELSE row' = 0
      BY <1>9, <1>i, <1>n, <1>t DEF DrawsRow
    <2> QED
      BY <1>i, <1>t, <2>1, <2>2 DEF FrameInv, captureVars, padVars
  <1>10. CASE ClicksBind
    <2>1. uiPc = "row" /\ Click /\ NextRow /\ listening' = TRUE /\ listenRow' = row
          /\ UNCHANGED <<chosenFamily, tab, wasListening, vttListening, captureVars, padVars>>
      BY <1>10 DEF ClicksBind
    <2>2. row \in 0..10
      BY <1>c, <1>i, <1>t, <2>1
    <2> QED
      BY <1>i, <1>k, <1>n, <1>t, <2>1, <2>2 DEF FrameInv, captureVars, padVars
  <1>11. CASE ClicksClear
    <2>1. uiPc = "row" /\ Click /\ NextRow
          /\ UNCHANGED <<chosenFamily, tab, listening, wasListening, listenRow, vttListening, captureVars,
                         padVars>>
      BY <1>11 DEF ClicksClear
    <2> QED
      BY <1>i, <1>k, <1>n, <1>t, <2>1 DEF FrameInv, captureVars, padVars
  <1>12. CASE ClicksCancel
    <2>1. uiPc = "row" /\ Click /\ StopCapture /\ listening' = FALSE /\ listenRow' = 0 /\ uiPc' = "poll"
          /\ UNCHANGED <<chosenFamily, tab, row, wasListening, vttListening, padVars>>
      BY <1>12 DEF ClicksCancel
    <2>2. /\ row \in 1..ButtonCount[chosenFamily] /\ uiPc' \in Drawing /\ listenRow' \in 0..10
          /\ clicks' \in 0..MaxClicks /\ clicked' \in BOOLEAN
      BY <1>i, <1>k, <1>t, <2>1
    <2>3. captureMode' = FALSE /\ captureResult' = Unset
          /\ UNCHANGED <<prevStates, heardDown, padStates, padPc>>
      BY <2>1 DEF StopCapture, padVars
    <2> QED
      BY <1>i, <2>1, <2>2, <2>3 DEF FrameInv
  <1>13. CASE PollsCapture
    <2>1. /\ uiPc = "poll" /\ uiPc' = "wait"
          /\ UNCHANGED <<chosenFamily, tab, row, clicked, clicks, wasListening, vttListening, padVars>>
          /\ (listening' = FALSE /\ listenRow' = 0) \/ UNCHANGED <<listening, listenRow>>
          /\ captureResult' = captureResult \/ captureResult' = Unset
          /\ UNCHANGED <<captureMode, prevStates, heardDown>>
      BY <1>13 DEF PollsCapture, BindRow, TakesResult, captureVars
    <2>2. row \in 1..ButtonCount[chosenFamily] /\ uiPc' \in Drawing
      BY <1>i, <1>t, <2>1
    <2>3. listening' \in BOOLEAN /\ listenRow' \in 0..10
      <3>1. CASE listening' = FALSE /\ listenRow' = 0
        <4>1. listening' \in BOOLEAN
          BY <3>1
        <4>2. 0 \in 0..10
          OBVIOUS
        <4> QED
          BY <3>1, <4>1, <4>2
      <3>2. CASE UNCHANGED <<listening, listenRow>>
        BY <1>i, <3>2
      <3> QED
        BY <2>1, <3>1, <3>2
    <2> QED
      BY <1>i, <2>1, <2>2, <2>3 DEF FrameInv, padVars
  <1>14. CASE FindsKey
    <2>1. uiPc = "wait" /\ StopCapture /\ NextRow /\ listening' = FALSE /\ listenRow' = 0
          /\ UNCHANGED <<chosenFamily, tab, clicked, clicks, wasListening, vttListening, padVars>>
      BY <1>14 DEF FindsKey, BindRow
    <2>2. /\ uiPc' \in {"row", "top"} /\ listenRow' \in 0..10
          /\ IF uiPc' \in Drawing THEN row' \in 1..ButtonCount[chosenFamily] ELSE row' = 0
      BY <1>n, <1>t, <2>1
    <2>3. captureMode' = FALSE /\ captureResult' = Unset
          /\ UNCHANGED <<prevStates, heardDown, padStates, padPc>>
      BY <2>1 DEF StopCapture, padVars
    <2>4. /\ chosenFamily' = chosenFamily /\ tab' = tab /\ clicked' = clicked /\ clicks' = clicks
          /\ wasListening' = wasListening /\ vttListening' = vttListening /\ listening' = FALSE
      BY <2>1
    <2>5. uiPc' \in Drawing \union {"top", "vttReset", "vttStop"}
      BY <1>t, <2>2
    <2> QED
      BY <1>i, <2>2, <2>3, <2>4, <2>5 DEF FrameInv
  <1>15. CASE ListenTimeout
    <2>1. uiPc = "wait" /\ StopCapture /\ NextRow /\ listening' = FALSE
          /\ UNCHANGED <<chosenFamily, tab, clicked, clicks, wasListening, listenRow, vttListening, padVars>>
      BY <1>15 DEF ListenTimeout
    <2> QED
      BY <1>i, <1>n, <1>t, <2>1 DEF FrameInv, StopCapture, padVars
  <1>16. CASE ListensOn
    <2>1. uiPc = "wait" /\ NextRow
          /\ UNCHANGED <<chosenFamily, tab, clicked, clicks, listening, wasListening, listenRow,
                         vttListening, captureVars, padVars>>
      BY <1>16 DEF ListensOn
    <2> QED
      BY <1>i, <1>n, <1>t, <2>1 DEF FrameInv, captureVars, padVars
  <1>17. ASSUME NEW a, EditAnalog(a), UNCHANGED tab PROVE FrameInv'
    <2>1. Click /\ UNCHANGED <<chosenFamily, uiPc, row, listening, wasListening, listenRow, vttListening,
                               captureVars, padVars>>
      BY <1>17 DEF EditAnalog
    <2> QED
      BY <1>17, <1>i, <1>k, <2>1 DEF FrameInv, captureVars, padVars
  <1>18. ASSUME NEW l, EditLight(l), UNCHANGED tab PROVE FrameInv'
    <2>1. Click /\ UNCHANGED <<chosenFamily, uiPc, row, listening, wasListening, listenRow, vttListening,
                               captureVars, padVars>>
      BY <1>18 DEF EditLight
    <2> QED
      BY <1>18, <1>i, <1>k, <2>1 DEF FrameInv, captureVars, padVars
  <1>19. CASE AnalogsTab
    <2>1. CASE ClearAnalog
      BY <1>17, <2>1 DEF ClearAnalog
    <2>2. ASSUME NEW d \in {Unset, "pad", "mouse"}, SelectDevice(d) PROVE FrameInv'
      BY <1>17, <2>2 DEF SelectDevice
    <2>3. ASSUME NEW i \in 0..1, SelectAxis(i) PROVE FrameInv'
      BY <1>17, <2>3 DEF SelectAxis
    <2>4. ASSUME NEW s \in Sensitivities, SetSensitivity(s) PROVE FrameInv'
      BY <1>17, <2>4 DEF SetSensitivity
    <2>5. CASE SetReverseOrStep
      BY <1>17, <2>5 DEF SetReverseOrStep
    <2>6. CASE VttResets
      BY <1>i, <1>t, <2>6 DEF VttResets, ForgetsStates, FrameInv, padVars
    <2>7. CASE VttStops
      BY <1>i, <1>t, <2>7 DEF VttStops, StopCapture, FrameInv, padVars
    <2>8. CASE OpenAnalog
      BY <1>i, <1>t, <2>8 DEF OpenAnalog, FrameInv, captureVars, padVars
    <2>9. CASE CloseAnalog
      BY <1>i, <1>t, <2>9 DEF CloseAnalog, StopCapture, FrameInv, captureVars, padVars
    <2>10. ASSUME NEW k \in {"minus", "plus"}, VttBind(k) PROVE FrameInv'
      <3>1. /\ uiPc = "top" /\ Click /\ vttListening' = k /\ StartsCapture /\ uiPc' = "vttReset"
            /\ UNCHANGED <<chosenFamily, tab, row, listening, wasListening, listenRow, padVars>>
        BY <2>10 DEF VttBind
      <3> QED
        BY <1>i, <1>k, <1>t, <3>1 DEF StartsCapture, FrameInv, padVars
    <2>11. ASSUME NEW k \in {"minus", "plus"}, VttClear(k) PROVE FrameInv'
      BY <1>17, <2>11 DEF VttClear
    <2>12. ASSUME NEW k \in {"minus", "plus"}, VttPolls(k) PROVE FrameInv'
      <3>1. /\ uiPc = "top" /\ uiPc' = "vttStop"
            /\ UNCHANGED <<chosenFamily, tab, row, clicked, clicks, listening, wasListening, listenRow,
                           vttListening, padVars>>
            /\ captureResult' = captureResult \/ captureResult' = Unset
            /\ UNCHANGED <<captureMode, prevStates, heardDown>>
        BY <2>12 DEF VttPolls, TakesResult, captureVars
      <3> QED
        BY <1>i, <1>t, <3>1 DEF FrameInv, padVars
    <2> QED
      BY <1>19, <2>1, <2>2, <2>3, <2>4, <2>5, <2>6, <2>7, <2>8, <2>9, <2>10, <2>11, <2>12 DEF AnalogsTab
  <1>20. CASE LightsTab
    <2>1. CASE ClearLight
      BY <1>18, <2>1 DEF ClearLight
    <2>2. CASE OpenLight \/ CloseLight
      BY <1>i, <1>t, <2>2 DEF OpenLight, CloseLight, FrameInv, captureVars, padVars
    <2>3. ASSUME NEW d \in LampDevices \union {Unset}, SelectLamp(d) PROVE FrameInv'
      BY <1>18, <2>3 DEF SelectLamp
    <2>4. ASSUME NEW o \in Outlets, SelectOutlet(o) PROVE FrameInv'
      BY <1>18, <2>4 DEF SelectOutlet
    <2> QED
      BY <1>20, <2>1, <2>2, <2>3, <2>4 DEF LightsTab
  <1>21. CASE UNCHANGED editorVars
    BY <1>21, <1>i DEF editorVars, uiVars, captureVars, padVars, FrameInv
  <1> QED
    BY <1>1, <1>2, <1>3, <1>4, <1>5, <1>6, <1>7, <1>8, <1>9, <1>10, <1>11, <1>12, <1>13, <1>14, <1>15,
       <1>16, <1>19, <1>20, <1>21 DEF EditorNext, PadThread, ButtonsTab

-----------------------------------------------------------------------------
(* What is bound, saved and followed. *)

BindingInv ==
  /\ buttons \in [ButtonRows -> Binding] /\ analog \in AnalogBindings
  /\ lights \in [Families -> LightBindings] /\ selected \in LightBindings
  /\ saved = ToJson(buttons, analog, lights)
  /\ MouseFollowsBinding

LEMMA BindingInvInit == EditorInit => BindingInv
  <1> SUFFICES ASSUME EditorInit PROVE BindingInv
    OBVIOUS
  <1>1. Unset \in Binding /\ NoLight \in LightBindings /\ Stored \subseteq AnalogBindings
    BY EditorAssumption DEF Binding, LightBindings
  <1>2. /\ buttons \in [ButtonRows -> Binding] /\ analog \in AnalogBindings
        /\ lights \in [Families -> LightBindings] /\ selected \in LightBindings
        /\ saved = ToJson(buttons, analog, lights)
    BY <1>1 DEF EditorInit
  <1>3. MouseFollowsBinding
    BY DEF EditorInit, MouseFollowsBinding
  <1> QED
    BY <1>2, <1>3 DEF BindingInv

(* The slots of a turntable that the popup sets.                            *)
LEMMA AnalogEdits ==
  ASSUME NEW a \in AnalogBindings
  PROVE  /\ \A x \in BOOLEAN : [a EXCEPT !.reverse = x] \in AnalogBindings
         /\ \A x \in 1..20 : /\ [a EXCEPT !.step = x] \in AnalogBindings
                             /\ [a EXCEPT !.sensitivity = x] \in AnalogBindings
         /\ \A x \in Int : [a EXCEPT !.axis = x] \in AnalogBindings
         /\ \A x \in Nat : a.mouse # Unset => [a EXCEPT !.mouseAxis = x] \in AnalogBindings
         /\ \A k \in {"minus", "plus"}, x \in Binding : [a EXCEPT ![k] = x] \in AnalogBindings
         /\ \A d \in {Unset, "pad"}, m \in {Unset, "mouse"}, x, y \in Int :
              (m = Unset /\ y = -1) \/ (m # Unset /\ y >= 0)
                => [a EXCEPT !.device = d, !.axis = x, !.mouse = m, !.mouseAxis = y] \in AnalogBindings
  <1> DEFINE Shapes == [device : {Unset, "pad"}, axis : Int, reverse : BOOLEAN, minus : Binding,
                        plus : Binding, step : 1..20, mouse : {Unset, "mouse"}, mouseAxis : Int,
                        sensitivity : 1..20]
  <1>1. a \in Shapes /\ IF a.mouse = Unset THEN a.mouseAxis = -1 ELSE a.mouseAxis >= 0
    BY DEF AnalogBindings
  <1>2. ASSUME NEW c \in Shapes, IF c.mouse = Unset THEN c.mouseAxis = -1 ELSE c.mouseAxis >= 0
        PROVE  c \in AnalogBindings
    BY <1>2 DEF AnalogBindings
  <1>3. ASSUME NEW x \in BOOLEAN PROVE [a EXCEPT !.reverse = x] \in AnalogBindings
    <2>1. [a EXCEPT !.reverse = x] \in Shapes
      BY <1>1
    <2> QED
      BY <1>1, <1>2, <2>1
  <1>4. ASSUME NEW x \in 1..20 PROVE [a EXCEPT !.step = x] \in AnalogBindings
    <2>1. [a EXCEPT !.step = x] \in Shapes
      BY <1>1
    <2> QED
      BY <1>1, <1>2, <2>1
  <1>5. ASSUME NEW x \in 1..20 PROVE [a EXCEPT !.sensitivity = x] \in AnalogBindings
    <2>1. [a EXCEPT !.sensitivity = x] \in Shapes
      BY <1>1
    <2> QED
      BY <1>1, <1>2, <2>1
  <1>6. ASSUME NEW x \in Int PROVE [a EXCEPT !.axis = x] \in AnalogBindings
    <2>1. [a EXCEPT !.axis = x] \in Shapes
      BY <1>1
    <2> QED
      BY <1>1, <1>2, <2>1
  <1>7. ASSUME NEW x \in Nat, a.mouse # Unset PROVE [a EXCEPT !.mouseAxis = x] \in AnalogBindings
    <2>1. [a EXCEPT !.mouseAxis = x] \in Shapes
      BY <1>1
    <2> QED
      BY <1>1, <1>2, <1>7, <2>1
  <1>8. ASSUME NEW k \in {"minus", "plus"}, NEW x \in Binding PROVE [a EXCEPT ![k] = x] \in AnalogBindings
    <2>1. [a EXCEPT ![k] = x] \in Shapes
      BY <1>1
    <2> QED
      BY <1>1, <1>2, <2>1
  <1>9. ASSUME NEW d \in {Unset, "pad"}, NEW m \in {Unset, "mouse"}, NEW x \in Int, NEW y \in Int,
               (m = Unset /\ y = -1) \/ (m # Unset /\ y >= 0)
        PROVE  [a EXCEPT !.device = d, !.axis = x, !.mouse = m, !.mouseAxis = y] \in AnalogBindings
    <2>1. PICK c : c = [a EXCEPT !.device = d, !.axis = x, !.mouse = m, !.mouseAxis = y]
      OBVIOUS
    <2>2. c \in Shapes
      BY <1>1, <2>1
    <2>3. c.mouse = m /\ c.mouseAxis = y
      BY <1>1, <2>1
    <2> QED
      BY <1>2, <1>9, <2>1, <2>2, <2>3
  <1> QED
    BY <1>3, <1>4, <1>5, <1>6, <1>7, <1>8, <1>9

LEMMA BindingInvStep == FrameInv /\ BindingInv /\ [EditorNext]_editorVars => BindingInv'
  <1> SUFFICES ASSUME FrameInv, BindingInv, [EditorNext]_editorVars PROVE BindingInv'
    OBVIOUS
  <1>i. /\ buttons \in [ButtonRows -> Binding] /\ analog \in AnalogBindings
        /\ lights \in [Families -> LightBindings] /\ selected \in LightBindings
        /\ saved = ToJson(buttons, analog, lights)
        /\ MouseFollowsBinding
    BY DEF BindingInv
  <1>f. /\ chosenFamily \in Families
        /\ uiPc \in Drawing => row \in 1..ButtonCount[chosenFamily]
        /\ captureResult \in Binding
    BY DEF FrameInv, Binding, Control
  <1>u. ASSUME UNCHANGED storeVars PROVE BindingInv'
    BY <1>u, <1>i DEF BindingInv, storeVars, MouseFollowsBinding
  <1>b. ASSUME NEW b \in Binding, uiPc \in Drawing, buttons' = [buttons EXCEPT ![ThisRow] = b],
               UNCHANGED <<analog, lights, selected, mouseBinding>>, Save
        PROVE  BindingInv'
    <2>1. buttons' \in [ButtonRows -> Binding]
      BY <1>b, <1>i
    <2> QED
      BY <1>b, <1>i, <2>1 DEF BindingInv, Save, MouseFollowsBinding
  <1>a. ASSUME NEW a \in AnalogBindings, analog' = a, UNCHANGED <<buttons, lights, selected>>, Save,
               MouseFollowsBinding'
        PROVE  BindingInv'
    BY <1>a, <1>i DEF BindingInv, Save
  <1>k. ASSUME UNCHANGED mouseBinding, HasMouse(analog') <=> HasMouse(analog),
               analog'.mouse = analog.mouse, analog'.mouseAxis = analog.mouseAxis,
               analog'.sensitivity = analog.sensitivity
        PROVE  MouseFollowsBinding'
    BY <1>k, <1>i DEF MouseFollowsBinding
  <1>l. ASSUME NEW l \in LightBindings, NEW s \in LightBindings, EditLight(l), selected' = s
        PROVE  BindingInv'
    <2>1. /\ lights' = [lights EXCEPT ![chosenFamily] = l] /\ Save
          /\ UNCHANGED <<buttons, analog, mouseBinding>>
      BY <1>l DEF EditLight
    <2>2. lights' \in [Families -> LightBindings]
      BY <1>i, <2>1
    <2> QED
      BY <1>l, <1>i, <2>1, <2>2 DEF BindingInv, Save, MouseFollowsBinding
  <1>d. "row" \in Drawing /\ "poll" \in Drawing /\ "wait" \in Drawing
    BY DEF Drawing
  <1>1. CASE PadReports \/ PadThread \/ \E t \in {"other", "buttons", "analogs", "lights"} : ShowTab(t)
    BY <1>1, <1>u DEF PadReports, PadThread, LooksForCapture, CapturesButton, CapturesHat, ShowTab
  <1>2. CASE \E f \in Families : ChooseFamily(f)
    BY <1>2, <1>u DEF ChooseFamily
  <1>3. CASE FrameStarts \/ FrameResets \/ DrawsRow \/ ClicksBind \/ ClicksCancel \/ ListenTimeout \/ ListensOn
    BY <1>3, <1>u DEF FrameStarts, FrameResets, DrawsRow, ClicksBind, ClicksCancel, ListenTimeout, ListensOn
  <1>4. CASE ClicksClear
    <2>1. Unset \in Binding
      BY DEF Binding
    <2> QED
      BY <1>4, <1>b, <1>d, <2>1 DEF ClicksClear
  <1>5. CASE PollsCapture
    BY <1>5, <1>b, <1>d, <1>f, <1>u DEF PollsCapture, BindRow
  <1>6. CASE FindsKey
    <2>1. Key \in Binding
      BY DEF Binding
    <2> QED
      BY <1>6, <1>b, <1>d, <2>1 DEF FindsKey, BindRow
  <1>7. CASE AnalogsTab
    <2>e. ASSUME NEW a, EditAnalog(a)
          PROVE  analog' = a /\ Save /\ UNCHANGED <<buttons, lights, selected>>
      BY <2>e DEF EditAnalog
    <2>1. CASE ClearAnalog
      <3>1. EditAnalog(NoAnalog) /\ mouseBinding'.axis = -1
        BY <2>1 DEF ClearAnalog, SetMouseBinding
      <3>2. ~HasMouse(NoAnalog)
        BY DEF HasMouse, NoAnalog
      <3> QED
        BY <1>a, <2>e, <3>1, <3>2, NoAnalogIs DEF MouseFollowsBinding
    <2>2. ASSUME NEW d \in {Unset, "pad", "mouse"}, SelectDevice(d) PROVE BindingInv'
      <3>1. PICK e \in {Unset, "pad"} : e = IF d = "pad" THEN d ELSE Unset
        OBVIOUS
      <3>2. PICK x \in Int : x = IF d = "pad" THEN 0 ELSE -1
        OBVIOUS
      <3>3. PICK m \in {Unset, "mouse"} : m = IF d = "mouse" THEN d ELSE Unset
        OBVIOUS
      <3>4. PICK y \in Int : y = IF d = "mouse" THEN 0 ELSE -1
        OBVIOUS
      <3>5. PICK a : a = [analog EXCEPT !.device = e, !.axis = x, !.mouse = m, !.mouseAxis = y]
        OBVIOUS
      <3>6. (m = Unset /\ y = -1) \/ (m # Unset /\ y >= 0)
        BY <3>3, <3>4 DEF Unset
      <3>7. a \in AnalogBindings
        BY <1>i, <3>5, <3>6, AnalogEdits
      <3>8. EditAnalog(a)
        BY <2>2, <3>1, <3>2, <3>3, <3>4, <3>5 DEF SelectDevice
      <3>9. a.mouse = m /\ a.mouseAxis = y /\ a.sensitivity = analog.sensitivity
        BY <1>i, <3>5 DEF AnalogBindings
      <3>10. mouseBinding' = IF d = "mouse"
                             THEN [mouse |-> d, axis |-> 0, sensitivity |-> analog.sensitivity]
                             ELSE [mouse |-> Unset, axis |-> -1, sensitivity |-> 5]
        BY <2>2 DEF SelectDevice, SetMouseBinding
      <3>11. analog' = a
        BY <2>e, <3>8
      <3>12. MouseFollowsBinding'
        <4>1. CASE d = "mouse"
          <5>1. m = d /\ y = 0
            BY <3>3, <3>4, <4>1
          <5>2. HasMouse(a)
            BY <3>9, <5>1, <4>1 DEF HasMouse, Unset
          <5>3. mouseBinding' = [mouse |-> a.mouse, axis |-> a.mouseAxis, sensitivity |-> a.sensitivity]
            BY <3>9, <3>10, <4>1, <5>1
          <5> QED
            BY <3>11, <5>2, <5>3 DEF MouseFollowsBinding
        <4>2. CASE d # "mouse"
          <5>1. y = -1
            BY <3>4, <4>2
          <5>2. ~HasMouse(a)
            BY <3>9, <5>1 DEF HasMouse
          <5> QED
            BY <3>10, <3>11, <4>2, <5>2 DEF MouseFollowsBinding
        <4> QED
          BY <4>1, <4>2
      <3> QED
        BY <1>a, <2>e, <3>7, <3>8, <3>12
    <2>3. ASSUME NEW i \in 0..1, SelectAxis(i) PROVE BindingInv'
      <3>1. CASE HasMouse(analog) /\ EditAnalog([analog EXCEPT !.mouseAxis = i])
                 /\ SetMouseBinding(analog.mouse, i, analog.sensitivity)
        <4>1. PICK a : a = [analog EXCEPT !.mouseAxis = i]
          OBVIOUS
        <4>2. analog.mouse # Unset
          BY <3>1 DEF HasMouse
        <4>3. a \in AnalogBindings
          <5>1. i \in Nat
            OBVIOUS
          <5>2. \A x \in Nat : [analog EXCEPT !.mouseAxis = x] \in AnalogBindings
            BY <1>i, <4>2, AnalogEdits
          <5> QED
            BY <4>1, <5>1, <5>2
        <4>4. a.mouse = analog.mouse /\ a.mouseAxis = i /\ a.sensitivity = analog.sensitivity
          BY <1>i, <4>1 DEF AnalogBindings
        <4>5. analog' = a /\ mouseBinding' = [mouse |-> analog.mouse, axis |-> i,
                                              sensitivity |-> analog.sensitivity]
          BY <2>e, <3>1, <4>1 DEF SetMouseBinding
        <4>6. HasMouse(a)
          BY <4>2, <4>4 DEF HasMouse
        <4>7. MouseFollowsBinding'
          BY <4>4, <4>5, <4>6 DEF MouseFollowsBinding
        <4> QED
          BY <1>a, <2>e, <3>1, <4>1, <4>3, <4>5, <4>7
      <3>2. CASE EditAnalog([analog EXCEPT !.axis = i]) /\ UNCHANGED mouseBinding
        <4>1. PICK a : a = [analog EXCEPT !.axis = i]
          OBVIOUS
        <4>2. a \in AnalogBindings
          <5>1. i \in Int
            OBVIOUS
          <5>2. \A x \in Int : [analog EXCEPT !.axis = x] \in AnalogBindings
            BY <1>i, AnalogEdits
          <5> QED
            BY <4>1, <5>1, <5>2
        <4>3. /\ a.mouse = analog.mouse /\ a.mouseAxis = analog.mouseAxis
              /\ a.sensitivity = analog.sensitivity
          BY <1>i, <4>1 DEF AnalogBindings
        <4>4. analog' = a
          BY <2>e, <3>2, <4>1
        <4>5. MouseFollowsBinding'
          BY <1>k, <3>2, <4>3, <4>4 DEF HasMouse
        <4> QED
          BY <1>a, <2>e, <3>2, <4>1, <4>2, <4>4, <4>5
      <3> QED
        BY <2>3, <3>1, <3>2 DEF SelectAxis
    <2>4. ASSUME NEW s \in Sensitivities, SetSensitivity(s) PROVE BindingInv'
      <3>1. PICK a : a = [analog EXCEPT !.sensitivity = s]
        OBVIOUS
      <3>2. s \in 1..20
        BY EditorAssumption
      <3>3. a \in AnalogBindings
        BY <1>i, <3>1, <3>2, AnalogEdits
      <3>4. a.mouse = analog.mouse /\ a.mouseAxis = analog.mouseAxis /\ a.sensitivity = s
        BY <1>i, <3>1 DEF AnalogBindings
      <3>5. EditAnalog(a) /\ HasMouse(analog)
            /\ mouseBinding' = [mouse |-> analog.mouse, axis |-> analog.mouseAxis, sensitivity |-> s]
        BY <2>4, <3>1 DEF SetSensitivity, SetMouseBinding
      <3>6. analog' = a
        BY <2>e, <3>5
      <3>7. MouseFollowsBinding'
        BY <3>4, <3>5, <3>6 DEF MouseFollowsBinding, HasMouse
      <3> QED
        BY <1>a, <2>e, <3>3, <3>5, <3>6, <3>7
    <2>5. CASE SetReverseOrStep
      <3>1. PICK a : EditAnalog(a) /\ (a = [analog EXCEPT !.reverse = ~@]
                                       \/ \E s \in Steps : a = [analog EXCEPT !.step = s])
        BY <2>5 DEF SetReverseOrStep
      <3>2. a \in AnalogBindings /\ a.mouse = analog.mouse /\ a.mouseAxis = analog.mouseAxis
            /\ a.sensitivity = analog.sensitivity
        <4>1. CASE a = [analog EXCEPT !.reverse = ~@]
          <5>1. PICK x \in BOOLEAN : x = ~analog.reverse
            OBVIOUS
          <5>2. a = [analog EXCEPT !.reverse = x]
            BY <4>1, <5>1
          <5>3. a \in AnalogBindings
            BY <1>i, <5>2, AnalogEdits
          <5> QED
            BY <1>i, <5>2, <5>3 DEF AnalogBindings
        <4>2. ASSUME NEW s \in Steps, a = [analog EXCEPT !.step = s]
              PROVE  a \in AnalogBindings /\ a.mouse = analog.mouse /\ a.mouseAxis = analog.mouseAxis
                     /\ a.sensitivity = analog.sensitivity
          <5>1. s \in 1..20
            BY EditorAssumption
          <5>2. a \in AnalogBindings
            BY <1>i, <4>2, <5>1, AnalogEdits
          <5> QED
            BY <1>i, <4>2, <5>2 DEF AnalogBindings
        <4> QED
          BY <3>1, <4>1, <4>2
      <3>3. UNCHANGED mouseBinding
        BY <2>5 DEF SetReverseOrStep
      <3>4. MouseFollowsBinding'
        BY <1>k, <2>e, <3>1, <3>2, <3>3 DEF HasMouse
      <3> QED
        BY <1>a, <2>e, <3>1, <3>2, <3>4
    <2>6. CASE VttResets \/ VttStops \/ OpenAnalog \/ CloseAnalog
      BY <1>u, <2>6 DEF VttResets, VttStops, OpenAnalog, CloseAnalog
    <2>k. ASSUME NEW k \in {"minus", "plus"}, NEW b \in Binding, analog' = [analog EXCEPT ![k] = b],
                 UNCHANGED <<buttons, lights, selected, mouseBinding>>, Save
          PROVE  BindingInv'
      <3>1. PICK a : a = [analog EXCEPT ![k] = b]
        OBVIOUS
      <3>2. a \in AnalogBindings
        BY <1>i, <3>1, AnalogEdits
      <3>3. a.mouse = analog.mouse /\ a.mouseAxis = analog.mouseAxis
            /\ a.sensitivity = analog.sensitivity
        BY <1>i, <3>1 DEF AnalogBindings
      <3>4. MouseFollowsBinding'
        BY <1>k, <2>k, <3>1, <3>3 DEF HasMouse
      <3> QED
        BY <1>a, <2>k, <3>1, <3>2, <3>4
    <2>7. ASSUME NEW k \in {"minus", "plus"}, VttBind(k) PROVE BindingInv'
      BY <1>u, <2>7 DEF VttBind
    <2>8. ASSUME NEW k \in {"minus", "plus"}, VttClear(k) PROVE BindingInv'
      <3>1. Unset \in Binding
        BY DEF Binding
      <3> QED
        BY <2>8, <2>e, <2>k, <3>1 DEF VttClear
    <2>9. ASSUME NEW k \in {"minus", "plus"}, VttPolls(k) PROVE BindingInv'
      <3>1. Key \in Binding
        BY DEF Binding
      <3> QED
        BY <1>f, <2>9, <2>k, <3>1 DEF VttPolls
    <2> QED
      BY <1>7, <2>1, <2>2, <2>3, <2>4, <2>5, <2>6, <2>7, <2>8, <2>9 DEF AnalogsTab
  <1>8. CASE LightsTab
    <2>1. NoLight \in LightBindings /\ lights[chosenFamily] \in LightBindings
      BY <1>f, <1>i DEF LightBindings
    <2>2. CASE ClearLight
      BY <1>i, <1>l, <2>1, <2>2 DEF ClearLight
    <2>3. CASE OpenLight
      <3>1. selected' \in LightBindings /\ UNCHANGED <<buttons, analog, lights, saved, mouseBinding>>
        BY <2>1, <2>3 DEF OpenLight
      <3> QED
        BY <1>i, <3>1 DEF BindingInv, MouseFollowsBinding
    <2>4. CASE CloseLight
      BY <1>u, <2>4 DEF CloseLight
    <2>5. ASSUME NEW d \in LampDevices \union {Unset}, SelectLamp(d) PROVE BindingInv'
      <3>1. PICK s : s = IF d = Unset THEN NoLight ELSE [device |-> d, output |-> 0]
        OBVIOUS
      <3>2. s \in LightBindings
        BY <2>1, <3>1, EditorAssumption DEF LightBindings
      <3>3. PICK l : l = IF d = Unset THEN lights[chosenFamily] ELSE s
        OBVIOUS
      <3>4. l \in LightBindings
        BY <2>1, <3>2, <3>3
      <3>5. selected' = s /\ EditLight(l)
        BY <2>5, <3>1, <3>3 DEF SelectLamp
      <3> QED
        BY <1>l, <3>2, <3>4, <3>5
    <2>6. ASSUME NEW o \in Outlets, SelectOutlet(o) PROVE BindingInv'
      <3>1. PICK s : s = [selected EXCEPT !.output = o]
        OBVIOUS
      <3>2. s \in LightBindings
        <4>1. selected \in [device : LampDevices, output : Outlets]
          BY <1>i, <2>6 DEF SelectOutlet, LightBindings, NoLight
        <4> QED
          BY <3>1, <4>1 DEF LightBindings
      <3>3. selected' = s /\ EditLight(s)
        BY <2>6, <3>1 DEF SelectOutlet
      <3> QED
        BY <1>l, <3>2, <3>3
    <2> QED
      BY <1>8, <2>2, <2>3, <2>4, <2>5, <2>6 DEF LightsTab
  <1>9. CASE UNCHANGED editorVars
    BY <1>9, <1>u DEF editorVars
  <1> QED
    BY <1>1, <1>2, <1>3, <1>4, <1>5, <1>6, <1>7, <1>8, <1>9 DEF EditorNext, ButtonsTab

-----------------------------------------------------------------------------
(* What is bound was down. *)

Heard ==
  /\ \A r \in ButtonRows : buttons'[r] # buttons[r] /\ buttons'[r] \in Control
       => buttons'[r] \in heardDown
  /\ \A k \in {"minus", "plus"} : analog'[k] # analog[k] /\ analog'[k] \in Control
       => analog'[k] \in heardDown

LEMMA HeardStep ==
  ASSUME FrameInv, BindingInv, EditorNext
  PROVE  Heard
  <1>f. captureResult \in heardDown \union {Unset}
    BY DEF FrameInv
  <1>t. buttons \in [ButtonRows -> Binding] /\ analog \in AnalogBindings
    BY DEF BindingInv
  <1>k. Key \notin Control /\ Unset \notin Control
    BY EditorAssumption
  <1>s. analog \in [device : {Unset, "pad"}, axis : Int, reverse : BOOLEAN, minus : Binding,
                    plus : Binding, step : 1..20, mouse : {Unset, "mouse"}, mouseAxis : Int,
                    sensitivity : 1..20]
    BY <1>t DEF AnalogBindings
  <1>u. ASSUME UNCHANGED <<buttons, analog>> PROVE Heard
    BY <1>u DEF Heard
  <1>b. ASSUME NEW b, b \notin Control \/ b \in heardDown,
               buttons' = [buttons EXCEPT ![ThisRow] = b], UNCHANGED analog
        PROVE  Heard
    BY <1>b, <1>t DEF Heard
  <1>a. ASSUME UNCHANGED buttons, analog'.minus = analog.minus, analog'.plus = analog.plus PROVE Heard
    BY <1>a DEF Heard
  <1>v. ASSUME NEW k \in {"minus", "plus"}, NEW b, b \notin Control \/ b \in heardDown,
               analog' = [analog EXCEPT ![k] = b], UNCHANGED buttons
        PROVE  Heard
    <2>1. CASE k = "minus"
      <3>1. analog'.minus = b /\ analog'.plus = analog.plus
        BY <1>s, <1>v, <2>1
      <3> QED
        BY <1>v, <3>1 DEF Heard
    <2>2. CASE k = "plus"
      <3>1. analog'.plus = b /\ analog'.minus = analog.minus
        BY <1>s, <1>v, <2>2
      <3> QED
        BY <1>v, <3>1 DEF Heard
    <2> QED
      BY <2>1, <2>2
  <1>1. CASE PadReports \/ PadThread \/ LightsTab
             \/ (\E t \in {"other", "buttons", "analogs", "lights"} : ShowTab(t))
             \/ (\E f \in Families : ChooseFamily(f))
    BY <1>1, <1>u DEF PadReports, PadThread, LooksForCapture, CapturesButton, CapturesHat, ShowTab,
                      ChooseFamily, storeVars, LightsTab, ClearLight, OpenLight, CloseLight, SelectLamp,
                      SelectOutlet, EditLight
  <1>2. CASE FrameStarts \/ FrameResets \/ DrawsRow \/ ClicksBind \/ ClicksCancel \/ ListenTimeout \/ ListensOn
    BY <1>2, <1>u DEF FrameStarts, FrameResets, DrawsRow, ClicksBind, ClicksCancel, ListenTimeout, ListensOn,
                      storeVars
  <1>3. CASE ClicksClear
    <2>1. buttons' = [buttons EXCEPT ![ThisRow] = Unset] /\ UNCHANGED analog
      BY <1>3 DEF ClicksClear
    <2> QED
      BY <1>b, <1>k, <2>1
  <1>4. CASE PollsCapture
    <2>1. \/ UNCHANGED <<buttons, analog>>
          \/ /\ captureResult # Unset
             /\ buttons' = [buttons EXCEPT ![ThisRow] = captureResult] /\ UNCHANGED analog
      BY <1>4 DEF PollsCapture, BindRow, storeVars
    <2> QED
      BY <1>b, <1>f, <1>u, <2>1
  <1>5. CASE FindsKey
    BY <1>5, <1>b, <1>k DEF FindsKey, BindRow
  <1>6. CASE AnalogsTab
    <2>e. ASSUME NEW a, EditAnalog(a) PROVE analog' = a /\ UNCHANGED buttons
      BY <2>e DEF EditAnalog
    <2>1. CASE ClearAnalog
      <3>1. analog' = NoAnalog /\ UNCHANGED buttons
        BY <2>1, <2>e DEF ClearAnalog
      <3>2. analog'.minus = Unset /\ analog'.plus = Unset
        BY <3>1 DEF NoAnalog
      <3> QED
        BY <1>k, <3>1, <3>2 DEF Heard
    <2>2. ASSUME NEW d \in {Unset, "pad", "mouse"}, SelectDevice(d) PROVE Heard
      <3>1. PICK w, x, y, z : /\ analog' = [analog EXCEPT !.device = w, !.axis = x, !.mouse = y, !.mouseAxis = z]
                              /\ UNCHANGED buttons
        BY <2>2, <2>e DEF SelectDevice
      <3>2. analog'.minus = analog.minus /\ analog'.plus = analog.plus
        BY <1>s, <3>1
      <3> QED
        BY <1>a, <3>1, <3>2
    <2>3. ASSUME NEW i \in 0..1, SelectAxis(i) PROVE Heard
      <3>1. /\ analog' = [analog EXCEPT !.mouseAxis = i] \/ analog' = [analog EXCEPT !.axis = i]
            /\ UNCHANGED buttons
        BY <2>3, <2>e DEF SelectAxis
      <3>2. analog'.minus = analog.minus /\ analog'.plus = analog.plus
        BY <1>s, <3>1
      <3> QED
        BY <1>a, <3>1, <3>2
    <2>4. ASSUME NEW s \in Sensitivities, SetSensitivity(s) PROVE Heard
      <3>1. analog' = [analog EXCEPT !.sensitivity = s] /\ UNCHANGED buttons
        BY <2>4, <2>e DEF SetSensitivity
      <3>2. analog'.minus = analog.minus /\ analog'.plus = analog.plus
        BY <1>s, <3>1
      <3> QED
        BY <1>a, <3>1, <3>2
    <2>5. CASE SetReverseOrStep
      <3>1. PICK a : EditAnalog(a) /\ (a = [analog EXCEPT !.reverse = ~@]
                                       \/ \E s \in Steps : a = [analog EXCEPT !.step = s])
        BY <2>5 DEF SetReverseOrStep
      <3>2. a.minus = analog.minus /\ a.plus = analog.plus
        BY <1>s, <3>1
      <3>3. analog' = a /\ UNCHANGED buttons
        BY <2>e, <3>1
      <3> QED
        BY <1>a, <3>2, <3>3
    <2>6. CASE VttResets \/ VttStops \/ OpenAnalog \/ CloseAnalog
      BY <1>u, <2>6 DEF VttResets, VttStops, OpenAnalog, CloseAnalog, storeVars
    <2>7. ASSUME NEW k \in {"minus", "plus"}, VttBind(k) PROVE Heard
      BY <1>u, <2>7 DEF VttBind, storeVars
    <2>8. ASSUME NEW k \in {"minus", "plus"}, VttClear(k) PROVE Heard
      BY <1>k, <1>v, <2>8, <2>e DEF VttClear
    <2>9. ASSUME NEW k \in {"minus", "plus"}, VttPolls(k) PROVE Heard
      <3>1. UNCHANGED buttons /\ (analog' = [analog EXCEPT ![k] = captureResult]
                                  \/ analog' = [analog EXCEPT ![k] = Key])
        BY <2>9 DEF VttPolls
      <3>2. captureResult \notin Control \/ captureResult \in heardDown
        BY <1>f, <1>k
      <3> QED
        BY <1>k, <1>v, <3>1, <3>2
    <2> QED
      BY <1>6, <2>1, <2>2, <2>3, <2>4, <2>5, <2>6, <2>7, <2>8, <2>9 DEF AnalogsTab
  <1> QED
    BY <1>1, <1>2, <1>3, <1>4, <1>5, <1>6 DEF EditorNext, ButtonsTab

-----------------------------------------------------------------------------
LEMMA LauncherStepsEditor == [LauncherNext]_LauncherVars => [EditorNext]_editorVars
  BY DEF LauncherNext, LauncherVars

LEMMA EditorInv == LauncherSpec => [](FrameInv /\ BindingInv)
  <1>1. LauncherInit => FrameInv /\ BindingInv
    BY FrameInvInit, BindingInvInit DEF LauncherInit
  <1>2. FrameInv /\ BindingInv /\ [LauncherNext]_LauncherVars => (FrameInv /\ BindingInv)'
    BY LauncherStepsEditor, FrameInvStep, BindingInvStep
  <1> QED
    BY <1>1, <1>2, PTL DEF LauncherSpec

(* After every edit, of whatever turntable, buttons and lights, the        *)
(* settings read back are the bindings (bindings.cpp: save, load).         *)
THEOREM BindingsAreSaved == LauncherSpec => []SettingsHoldBindings
  <1>1. BindingInv => SettingsHoldBindings
    BY BindingsComeBack DEF BindingInv, SettingsHoldBindings
  <1> QED
    BY <1>1, EditorInv, PTL

(* The input manager follows the mouse that the binding names, or none     *)
(* (main.cpp: setMouseBinding's callers).                                  *)
THEOREM MouseIsTheBound == LauncherSpec => []MouseFollowsBinding
  <1>1. BindingInv => MouseFollowsBinding
    BY DEF BindingInv
  <1> QED
    BY <1>1, EditorInv, PTL

(* No control is bound that was not down since the capture began, however  *)
(* the pump thread's steps fall between the frames' (input_manager.cpp:    *)
(* startCapture, handleWmInput).                                           *)
THEOREM NoStalePressIsBound == LauncherSpec => BoundWasDown
  <1>1. FrameInv /\ BindingInv /\ [LauncherNext]_LauncherVars => [Heard]_editorVars
    BY LauncherStepsEditor, HeardStep
  <1>2. LauncherSpec => [][Heard]_editorVars
    BY <1>1, EditorInv, PTL DEF LauncherSpec
  <1> QED
    BY <1>2 DEF Heard, BoundWasDown

-----------------------------------------------------------------------------
(* Types of the whole. *)

LEMMA SettingsTyped == FilesInv /\ SettingsInv => SettingsTypeOK
  <1> SUFFICES ASSUME FilesInv, SettingsInv PROVE SettingsTypeOK
    OBVIOUS
  <1>1. {patchesFile.kind, gameFile.kind, globalFile.kind} \subseteq {"missing", "torn", "whole"}
    <2>1. patchesFile \in {Missing, Torn} \/ \E v : patchesFile = Whole(v)
      BY DEF SettingsInv, Loads
    <2> QED
      BY <2>1, FileKinds DEF SettingsInv
  <1>2. \A g \in Games : DOMAIN state[g] = {p.id : p \in Tree(store[g])}
    <2>1. ASSUME NEW g \in Games PROVE DOMAIN state[g] = Ids(loaded, g)
      <3>1. state[g] = [id \in Ids(loaded, g) |-> state[g][id]]
        BY DEF SettingsInv, IsState
      <3> QED
        BY <3>1
    <2> QED
      BY <2>1 DEF Ids, store
  <1>3. ui \in {"off", "extracting", "loading", "detecting", "window", "launching",
                "injected", "saving", "opened", "closing"}
    BY DEF SettingsInv, Open, Saving
  <1>4. game.id \in Games \cup {None}
    BY DEF SettingsInv, IsSettings
  <1> QED
    BY <1>1, <1>2, <1>3, <1>4 DEF SettingsTypeOK, SettingsInv, FilesInv

(* Types of the launcher, its files, the game and the DLL in it, and of    *)
(* the window's bindings.                                                  *)
THEOREM LauncherTypes == LauncherSpec => []LauncherTypeOK
  <1>1. LauncherInv => TypeOK
    <2> SUFFICES ASSUME LauncherInv PROVE TypeOK
      OBVIOUS
    <2>1. FilesInv /\ WatchInv /\ SettingsInv /\ DllInv /\ ImageInv /\ ProcessTyped
      BY DEF LauncherInv
    <2>2. DOMAIN image = AllSites /\ release \subseteq Sites /\ packed \in BOOLEAN /\ settled \subseteq Timing
      <3>1. image = [s \in AllSites |-> image[s]]
        BY <2>1 DEF ImageInv
      <3> QED
        BY <2>1, <3>1 DEF ImageInv
    <2>3. dll \in {"out", "aborted", "io", "early", "normal", "done"}
      BY <2>1 DEF DllInv, Running
    <2>4. \A w \in wanted : w.patch \in Defined /\ w.timing \in Timing
      <3>1. CASE dll \in {"out", "aborted"}
        BY <2>1, <3>1 DEF DllInv
      <3>2. CASE dll \in Running
        <4>1. config.loaded \in DOMAIN Loads /\ wanted = Chosen(Patches, config.state)
          BY <2>1, <3>2 DEF DllInv
        <4>2. wanted \subseteq [patch : Defined, value : {w.value : w \in wanted}, timing : Timing]
          BY <4>1, PatchesTyped, ChosenTyped
        <4> QED
          BY <4>2
      <3> QED
        BY <2>1, <3>1, <3>2 DEF DllInv
    <2>5. /\ attempts \in [1..MaxProcesses -> Nat] /\ strays \in [1..MaxProcesses -> Nat]
          /\ lastInjected \in [Watched -> Pids \cup {0}] /\ born \in 0..MaxProcesses /\ pid \in Pids \cup {0}
      <3>1. attempts \in [1..MaxProcesses -> 0..1] /\ strays \in [1..MaxProcesses -> 0..1]
        BY <2>1 DEF WatchInv, CountInv
      <3> QED
        BY <2>1, <3>1 DEF WatchInv
    <2>6. /\ poll.step \in {"look", "inject", "decide"} /\ poll.name \in Watched
          /\ poll.found \in Pids \cup {0} /\ poll.who \in 0..MaxProcesses /\ poll.seen \in BOOLEAN
      BY <2>1 DEF WatchInv, PollTyped, Polls
    <2>7. /\ exe \in Watched \cup {"game", None} /\ suspended \in BOOLEAN /\ early \in BOOLEAN
          /\ watch \in {"off", "on", "over"} /\ unseen \in 0..Patience + 1
      BY <2>1 DEF ProcessTyped
    <2> QED
      BY <2>1, <2>2, <2>3, <2>4, <2>5, <2>6, <2>7, SettingsTyped DEF TypeOK
  <1>2. FrameInv /\ BindingInv => EditorTypeOK
    <2> SUFFICES ASSUME FrameInv, BindingInv PROVE EditorTypeOK
      OBVIOUS
    <2>1. /\ chosenFamily \in Families /\ clicks \in 0..MaxClicks
          /\ tab \in {"other", "buttons", "analogs", "editAnalog", "lights", "bindLight"}
          /\ listenRow \in 0..10 /\ vttListening \in {Unset, "minus", "plus"}
          /\ prevStates \subseteq Control /\ heardDown \subseteq Control
          /\ padPc \in {"idle", "stored", "buttons", "hats"}
      BY DEF FrameInv
    <2>2. uiPc \in {"top", "reset", "row", "poll", "wait", "vttReset", "vttStop"}
      BY DEF FrameInv, Drawing
    <2>3. row \in 0..ButtonCount[chosenFamily]
      <3>1. ButtonCount[chosenFamily] \in Nat
        BY <2>1, EditorAssumption
      <3>2. row \in 1..ButtonCount[chosenFamily] \/ row = 0
        BY DEF FrameInv
      <3> QED
        BY <3>1, <3>2
    <2>4. {clicked, listening, wasListening, captureMode} \subseteq BOOLEAN
      BY DEF FrameInv
    <2>5. buttons \in [ButtonRows -> Binding] /\ analog \in AnalogBindings
      BY DEF BindingInv
    <2>6. captureResult \in Control \union {Unset} /\ padStates \subseteq Control
      BY DEF FrameInv
    <2> QED
      BY <2>1, <2>2, <2>3, <2>4, <2>5, <2>6 DEF EditorTypeOK
  <1>3. TypeOK /\ EditorTypeOK => LauncherTypeOK
    BY DEF LauncherTypeOK
  <1> QED
    BY <1>1, <1>2, <1>3, LauncherInvHolds, EditorInv, PTL

=============================================================================
