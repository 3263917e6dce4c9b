---------------------------- MODULE InputProofs ----------------------------
(***************************************************************************)
(* Theorems about the games' input, for every choice of controls, buttons  *)
(* and ring size.                                                          *)
(***************************************************************************)
EXTENDS GameInput, FiniteSetTheorems, TLAPS

(* Every set of numbers has a smallest.                                    *)
LEMMA Smallest ==
  ASSUME NEW S \in SUBSET Nat, S # {}
  PROVE  \E n \in S : \A m \in S : n <= m
  <1>1. IsWellFoundedOn(OpToRel(<, Nat), Nat)
    BY NatLessThanWellFounded
  <1>2. PICK n \in S : \A m \in S : ~(<<m, n>> \in OpToRel(<, Nat))
    BY <1>1, WFMin
  <1>3. \A m \in S : ~(m < n)
    BY <1>2 DEF OpToRel
  <1> QED
    BY <1>3

(* The numbers a set is shown to hold, one after another, are all of them. *)
LEMMA AllNumbers ==
  ASSUME NEW S \in SUBSET Nat, 0 \in S, \A n \in S : n + 1 \in S
  PROVE  S = Nat
  <1> SUFFICES ASSUME Nat \ S # {} PROVE FALSE
    OBVIOUS
  <1>1. PICK n \in Nat \ S : \A m \in Nat \ S : n <= m
    <2>1. Nat \ S \in SUBSET Nat
      OBVIOUS
    <2> QED
      BY <2>1, Smallest
  <1>2. n # 0 /\ n - 1 \in Nat /\ n - 1 < n
    BY <1>1
  <1>3. n - 1 \in S
    BY <1>1, <1>2
  <1> QED
    BY <1>1, <1>3

-----------------------------------------------------------------------------
(* What the game makes of what it is told. *)

Hearers == [half : Seq(Symbol), view : [Button -> BOOLEAN], owed : [Service -> Int]]

\* f[i] is what the first i symbols of q make of s.
IsTelling(f, s, q) ==
  f = [i \in 0..Len(q) |-> IF i = 0 THEN s ELSE Hear(f[i - 1], q[i])]

(* The values of HearAll's recursion exist, whatever the game is told. *)
LEMMA Telling ==
  ASSUME NEW s, NEW q \in Seq(Symbol)
  PROVE  \E f : /\ IsTelling(f, s, q)
                /\ HearAll(s, q) = f[Len(q)]
  <1> DEFINE Body(f, n) == [i \in 0..n |-> IF i = 0 THEN s ELSE Hear(f[i - 1], q[i])]
             Known == {n \in Nat : \E f : f = Body(f, n)}
  <1>1. 0 \in Known
    <2>1. [i \in 0..0 |-> s] = Body([i \in 0..0 |-> s], 0)
      OBVIOUS
    <2> QED
      BY <2>1
  <1>2. ASSUME NEW n \in Known PROVE n + 1 \in Known
    <2>1. PICK f : f = Body(f, n)
      OBVIOUS
    <2> DEFINE g == [i \in 0..n + 1 |-> IF i = n + 1 THEN Hear(f[n], q[n + 1]) ELSE f[i]]
    <2>2. g = Body(g, n + 1)
      <3>1. \A i \in 0..n + 1 : g[i] = IF i = 0 THEN s ELSE Hear(g[i - 1], q[i])
        <4> SUFFICES ASSUME NEW i \in 0..n + 1
                     PROVE  g[i] = IF i = 0 THEN s ELSE Hear(g[i - 1], q[i])
          OBVIOUS
        <4>1. CASE i = n + 1
          BY <4>1
        <4>2. CASE i # n + 1
          BY <2>1, <4>2
        <4> QED
          BY <4>1, <4>2
      <3> QED
        BY <3>1
    <2>3. n + 1 \in Nat
      OBVIOUS
    <2> QED
      BY <2>2, <2>3
  <1>3. Known = Nat
    <2> HIDE DEF Known
    <2>1. Known \subseteq Nat
      BY DEF Known
    <2> QED
      BY <1>1, <1>2, <2>1, AllNumbers
  <1>4. \E f : f = Body(f, Len(q))
    BY <1>3
  <1> DEFINE told == CHOOSE f : f = Body(f, Len(q))
  <1>5. told = Body(told, Len(q))
    BY <1>4
  <1>6. HearAll(s, q) = told[Len(q)]
    BY DEF HearAll
  <1> QED
    BY <1>5, <1>6 DEF IsTelling

(* What a step of it is. *)
LEMMA TellingStep ==
  ASSUME NEW s, NEW q \in Seq(Symbol), NEW f, IsTelling(f, s, q)
  PROVE  /\ f[0] = s
         /\ \A i \in Nat : i < Len(q) => f[i + 1] = Hear(f[i], q[i + 1])
  BY DEF IsTelling

(* Nothing told changes nothing; one symbol is heard.                       *)
LEMMA HearNothing ==
  ASSUME NEW s
  PROVE  HearAll(s, <<>>) = s
  <1>1. PICK f : IsTelling(f, s, <<>>) /\ HearAll(s, <<>>) = f[Len(<<>>)]
    BY Telling, <<>> \in Seq(Symbol)
  <1> QED
    BY <1>1, TellingStep, <<>> \in Seq(Symbol)

LEMMA HearJust ==
  ASSUME NEW s, NEW c \in Symbol
  PROVE  HearAll(s, <<c>>) = Hear(s, c)
  <1> DEFINE q == <<c>>
  <1>1. q \in Seq(Symbol) /\ Len(q) = 1 /\ q[1] = c
    OBVIOUS
  <1> HIDE DEF q
  <1>2. PICK f : IsTelling(f, s, q) /\ HearAll(s, q) = f[Len(q)]
    BY Telling, <1>1
  <1>3. f[0] = s /\ \A i \in Nat : i < Len(q) => f[i + 1] = Hear(f[i], q[i + 1])
    BY <1>1, <1>2 DEF IsTelling
  <1>4. f[0 + 1] = Hear(f[0], q[0 + 1])
    BY <1>1, <1>3
  <1>5. HearAll(s, q) = Hear(s, c)
    BY <1>1, <1>2, <1>3, <1>4
  <1> QED
    BY <1>5 DEF q

(* To hear q and then r is to hear one after the other. *)
LEMMA HearInTwo ==
  ASSUME NEW s, NEW q \in Seq(Symbol), NEW r \in Seq(Symbol)
  PROVE  HearAll(s, q \o r) = HearAll(HearAll(s, q), r)
  <1> DEFINE m == Len(q)
             k == Len(r)
  <1>0. /\ q \o r \in Seq(Symbol) /\ m \in Nat /\ k \in Nat /\ Len(q \o r) = m + k
        /\ \A i \in 1..m : (q \o r)[i] = q[i]
        /\ \A i \in 1..k : (q \o r)[m + i] = r[i]
    BY SMTT(30)
  <1>1. PICK f : IsTelling(f, s, q) /\ HearAll(s, q) = f[m]
    BY Telling
  <1>t. PICK t : t = HearAll(s, q)
    OBVIOUS
  <1>2. PICK g : IsTelling(g, t, r) /\ HearAll(t, r) = g[k]
    BY Telling
  <1>3. PICK h : IsTelling(h, s, q \o r) /\ HearAll(s, q \o r) = h[m + k]
    BY <1>0, Telling
  <1>f. f[0] = s /\ \A i \in Nat : i < m => f[i + 1] = Hear(f[i], q[i + 1])
    BY <1>1, TellingStep
  <1>g. g[0] = t /\ \A i \in Nat : i < k => g[i + 1] = Hear(g[i], r[i + 1])
    <2>1. IsTelling(g, t, r)
      BY <1>2
    <2> QED
      BY <2>1 DEF IsTelling
  <1>h. h[0] = s /\ \A i \in Nat : i < m + k => h[i + 1] = Hear(h[i], (q \o r)[i + 1])
    <2> DEFINE both == q \o r
    <2>1. both \in Seq(Symbol) /\ Len(both) = m + k /\ IsTelling(h, s, both)
      BY <1>0, <1>3
    <2> HIDE DEF both
    <2>2. h[0] = s /\ \A i \in Nat : i < Len(both) => h[i + 1] = Hear(h[i], both[i + 1])
      BY <2>1 DEF IsTelling
    <2> QED
      BY <2>1, <2>2 DEF both
  <1> HIDE DEF m, k
  <1> DEFINE First == {i \in Nat : i <= m => h[i] = f[i]}
             Second == {i \in Nat : i <= k => h[m + i] = g[i]}
  <1>4. First = Nat
    <2>1. 0 \in First
      BY <1>f, <1>h
    <2>2. ASSUME NEW i \in First PROVE i + 1 \in First
      <3>1. CASE i < m
        <4>3. i < m + k /\ i + 1 \in 1..m
          BY <1>0, <3>1
        <4>1. h[i + 1] = Hear(h[i], q[i + 1])
          BY <1>0, <1>h, <4>3
        <4>2. f[i + 1] = Hear(f[i], q[i + 1]) /\ h[i] = f[i]
          BY <1>f, <1>0, <3>1
        <4> QED
          BY <4>1, <4>2
      <3>2. CASE ~(i < m)
        BY <1>0, <3>2
      <3> QED
        BY <3>1, <3>2
    <2> HIDE DEF First
    <2>3. First \subseteq Nat
      BY DEF First
    <2> QED
      BY <2>1, <2>2, <2>3, AllNumbers
  <1>5. Second = Nat
    <2>1. 0 \in Second
      <3>1. h[m] = f[m]
        BY <1>0, <1>4
      <3> QED
        BY <1>0, <1>1, <1>t, <1>g, <3>1 DEF m
    <2>2. ASSUME NEW i \in Second PROVE i + 1 \in Second
      <3>1. CASE i < k
        <4>1. m + i \in Nat /\ m + i < m + k /\ i + 1 \in 1..k /\ m + i + 1 = m + (i + 1)
          BY <1>0, <3>1
        <4>2. h[m + i + 1] = Hear(h[m + i], r[i + 1])
          <5>1. h[(m + i) + 1] = Hear(h[m + i], (q \o r)[(m + i) + 1])
            BY <1>h, <4>1
          <5>2. (q \o r)[m + (i + 1)] = r[i + 1]
            BY <1>0, <4>1
          <5> QED
            BY <4>1, <5>1, <5>2
        <4>3. g[i + 1] = Hear(g[i], r[i + 1]) /\ h[m + i] = g[i]
          BY <1>g, <1>0, <3>1
        <4> QED
          BY <4>1, <4>2, <4>3
      <3>2. CASE ~(i < k)
        BY <1>0, <3>2
      <3> QED
        BY <3>1, <3>2
    <2> HIDE DEF Second
    <2>3. Second \subseteq Nat
      BY DEF Second
    <2> QED
      BY <2>1, <2>2, <2>3, AllNumbers
  <1> QED
    BY <1>0, <1>t, <1>2, <1>3, <1>5

Bump(s, b) == [half |-> s.half, view |-> s.view, owed |-> [s.owed EXCEPT ![b] = @ + 1]]

(* Hearing keeps the types.                                                 *)
LEMMA HearType ==
  ASSUME NEW s \in Hearers, NEW c \in Symbol
  PROVE  Hear(s, c) \in Hearers
  <1> DEFINE whole == Append(s.half, c)
             name == whole[2]
             fewer == [s.owed EXCEPT ![name] = @ - 1]
             other == [s.view EXCEPT ![name] = (whole[3] = "-")]
  <1>1. s.half \in Seq(Symbol) /\ s.view \in [Button -> BOOLEAN] /\ s.owed \in [Service -> Int]
    BY DEF Hearers
  <1>2. whole \in Seq(Symbol) /\ <<c>> \in Seq(Symbol) /\ <<>> \in Seq(Symbol)
    BY <1>1
  <1>3. \/ Hear(s, c) = s
        \/ Hear(s, c) = [s EXCEPT !.half = <<c>>]
        \/ Hear(s, c) = [s EXCEPT !.half = whole]
        \/ Hear(s, c) = [s EXCEPT !.half = <<>>]
        \/ name \in Service /\ Hear(s, c) = [half |-> <<>>, view |-> s.view, owed |-> fewer]
        \/ name \in Plain /\ Hear(s, c) = [half |-> <<>>, view |-> other, owed |-> s.owed]
    BY Zenon DEF Hear
  <1> HIDE DEF whole, name
  <1>4. \A h \in Seq(Symbol) : [s EXCEPT !.half = h] \in Hearers
    BY <1>1 DEF Hearers
  <1>5. name \in Service => fewer \in [Service -> Int]
    BY <1>1
  <1>6. name \in Plain => other \in [Button -> BOOLEAN]
    BY <1>1
  <1> HIDE DEF fewer, other
  <1>7. name \in Service => [half |-> <<>>, view |-> s.view, owed |-> fewer] \in Hearers
    BY <1>1, <1>2, <1>5 DEF Hearers
  <1>8. name \in Plain => [half |-> <<>>, view |-> other, owed |-> s.owed] \in Hearers
    BY <1>1, <1>2, <1>6 DEF Hearers
  <1> QED
    BY <1>2, <1>3, <1>4, <1>7, <1>8

LEMMA BumpType ==
  ASSUME NEW s \in Hearers, NEW b \in Service
  PROVE  Bump(s, b) \in Hearers
  <1>1. s.half \in Seq(Symbol) /\ s.view \in [Button -> BOOLEAN] /\ s.owed \in [Service -> Int]
    BY DEF Hearers
  <1>2. [s.owed EXCEPT ![b] = @ + 1] \in [Service -> Int]
    BY <1>1
  <1> QED
    BY <1>1, <1>2 DEF Bump, Hearers

(* A debt more stays a debt more.                                           *)
LEMMA HearBump ==
  ASSUME NEW s \in Hearers, NEW c \in Symbol, NEW b \in Service
  PROVE  /\ Bump(s, b) \in Hearers
         /\ Hear(Bump(s, b), c) = Bump(Hear(s, c), b)
  <1> DEFINE whole == Append(s.half, c)
             name == whole[2]
             more == [s.owed EXCEPT ![b] = @ + 1]
             t == Bump(s, b)
  <1>1. s.half \in Seq(Symbol) /\ s.view \in [Button -> BOOLEAN] /\ s.owed \in [Service -> Int]
        /\ s = [half |-> s.half, view |-> s.view, owed |-> s.owed]
    BY DEF Hearers
  <1>2. more \in [Service -> Int]
    BY <1>1
  <1>3. t = [half |-> s.half, view |-> s.view, owed |-> more] /\ t.half = s.half /\ t.view = s.view
        /\ t.owed = more
    BY DEF Bump
  <1>t. t \in Hearers
    BY <1>1, <1>2, <1>3 DEF Hearers
  <1> HIDE DEF t
  <1>4. CASE c = "("
    <2>1. Hear(s, c) = [s EXCEPT !.half = <<c>>] /\ Hear(t, c) = [t EXCEPT !.half = <<c>>]
      BY Zenon, <1>4 DEF Hear
    <2>2. Hear(s, c) = [half |-> <<c>>, view |-> s.view, owed |-> s.owed]
      BY <1>1, <2>1
    <2>3. Hear(t, c) = [half |-> <<c>>, view |-> s.view, owed |-> more]
      BY <1>3, <2>1
    <2> QED
      BY <2>2, <2>3, <1>t DEF Bump, t
  <1>5. CASE c # "(" /\ s.half = <<>>
    <2>1. Hear(s, c) = s /\ Hear(t, c) = t
      BY Zenon, <1>3, <1>5 DEF Hear
    <2> QED
      BY <2>1, <1>t DEF t
  <1>6. CASE c # "(" /\ s.half # <<>> /\ c # ")"
    <2>1. Hear(s, c) = [s EXCEPT !.half = whole] /\ Hear(t, c) = [t EXCEPT !.half = whole]
      BY Zenon, <1>3, <1>6 DEF Hear
    <2> HIDE DEF whole
    <2>2. Hear(s, c) = [half |-> whole, view |-> s.view, owed |-> s.owed]
      BY <1>1, <2>1
    <2>3. Hear(t, c) = [half |-> whole, view |-> s.view, owed |-> more]
      BY <1>3, <2>1
    <2> QED
      BY <2>2, <2>3, <1>t DEF Bump, t
  <1>7. CASE c = ")" /\ s.half # <<>>
    <2>0. c # "("
      BY <1>7
    <2>1. CASE Len(whole) = 3 /\ name \in Service
      <3>1. /\ Hear(s, c) = [half |-> <<>>, view |-> s.view, owed |-> [s.owed EXCEPT ![name] = @ - 1]]
            /\ Hear(t, c) = [half |-> <<>>, view |-> t.view, owed |-> [t.owed EXCEPT ![name] = @ - 1]]
        BY Zenon, <1>3, <1>7, <2>0, <2>1 DEF Hear
      <3> HIDE DEF whole, name
      <3>2. [more EXCEPT ![name] = @ - 1] = [[s.owed EXCEPT ![name] = @ - 1] EXCEPT ![b] = @ + 1]
        BY <1>1, <2>1
      <3> QED
        BY <1>3, <3>1, <3>2, <1>t DEF Bump, t
    <2>2. CASE ~(Len(whole) = 3 /\ name \in Service) /\ Len(whole) = 4 /\ name \in Plain
      <3> DEFINE other == [s.view EXCEPT ![name] = (whole[3] = "-")]
      <3>1. /\ Hear(s, c) = [half |-> <<>>, view |-> other, owed |-> s.owed]
            /\ Hear(t, c) = [half |-> <<>>, view |-> other, owed |-> t.owed]
        BY Zenon, <1>3, <1>7, <2>0, <2>2 DEF Hear
      <3> HIDE DEF whole, name, other
      <3> QED
        BY <1>3, <3>1, <1>t DEF Bump, t
    <2>3. CASE ~(Len(whole) = 3 /\ name \in Service) /\ ~(Len(whole) = 4 /\ name \in Plain)
      <3>1. Hear(s, c) = [s EXCEPT !.half = <<>>] /\ Hear(t, c) = [t EXCEPT !.half = <<>>]
        BY Zenon, <1>3, <1>7, <2>0, <2>3 DEF Hear
      <3>2. Hear(s, c) = [half |-> <<>>, view |-> s.view, owed |-> s.owed]
        BY <1>1, <3>1
      <3>3. Hear(t, c) = [half |-> <<>>, view |-> s.view, owed |-> more]
        BY <1>3, <3>1
      <3> QED
        BY <3>2, <3>3, <1>t DEF Bump, t
    <2> QED
      BY <2>1, <2>2, <2>3
  <1> QED
    BY <1>4, <1>5, <1>6, <1>7

(* So it is with all that is heard.                                         *)
LEMMA HearAllType ==
  ASSUME NEW s \in Hearers, NEW q \in Seq(Symbol), NEW f, IsTelling(f, s, q)
  PROVE  \A i \in 0..Len(q) : f[i] \in Hearers
  <1> DEFINE Typed == {i \in Nat : i <= Len(q) => f[i] \in Hearers}
  <1>1. f[0] = s /\ \A i \in Nat : i < Len(q) => f[i + 1] = Hear(f[i], q[i + 1])
    BY TellingStep
  <1>2. Len(q) \in Nat /\ \A i \in Nat : i < Len(q) => q[i + 1] \in Symbol
    OBVIOUS
  <1>3. 0 \in Typed
    BY <1>1
  <1>4. ASSUME NEW i \in Typed PROVE i + 1 \in Typed
    <2>1. CASE i < Len(q)
      <3>1. f[i + 1] = Hear(f[i], q[i + 1]) /\ f[i] \in Hearers /\ q[i + 1] \in Symbol
        BY <1>1, <1>2, <2>1
      <3> QED
        BY <3>1, HearType
    <2>2. CASE ~(i < Len(q))
      BY <1>2, <2>2
    <2> QED
      BY <2>1, <2>2
  <1>5. Typed = Nat
    <2> HIDE DEF Typed
    <2>1. Typed \subseteq Nat
      BY DEF Typed
    <2> QED
      BY <1>3, <1>4, <2>1, AllNumbers
  <1> QED
    BY <1>2, <1>5

LEMMA HearAllTyped ==
  ASSUME NEW s \in Hearers, NEW q \in Seq(Symbol)
  PROVE  HearAll(s, q) \in Hearers
  <1>1. PICK f : IsTelling(f, s, q) /\ HearAll(s, q) = f[Len(q)]
    BY Telling
  <1>2. \A i \in 0..Len(q) : f[i] \in Hearers
    BY <1>1, HearAllType
  <1> QED
    BY <1>1, <1>2

LEMMA HearAllBump ==
  ASSUME NEW s \in Hearers, NEW q \in Seq(Symbol), NEW b \in Service
  PROVE  HearAll(Bump(s, b), q) = Bump(HearAll(s, q), b)
  <1>1. PICK f : IsTelling(f, s, q) /\ HearAll(s, q) = f[Len(q)]
    BY Telling
  <1>2. PICK g : IsTelling(g, Bump(s, b), q) /\ HearAll(Bump(s, b), q) = g[Len(q)]
    BY Telling
  <1>f. f[0] = s /\ \A i \in Nat : i < Len(q) => f[i + 1] = Hear(f[i], q[i + 1])
    BY <1>1, TellingStep
  <1>g. g[0] = Bump(s, b) /\ \A i \in Nat : i < Len(q) => g[i + 1] = Hear(g[i], q[i + 1])
    BY <1>2, TellingStep
  <1>3. \A i \in 0..Len(q) : f[i] \in Hearers
    BY <1>1, HearAllType
  <1>4. Len(q) \in Nat /\ \A i \in Nat : i < Len(q) => q[i + 1] \in Symbol
    OBVIOUS
  <1> DEFINE Same == {i \in Nat : i <= Len(q) => g[i] = Bump(f[i], b)}
  <1>5. 0 \in Same
    BY <1>f, <1>g
  <1>6. ASSUME NEW i \in Same PROVE i + 1 \in Same
    <2>1. CASE i < Len(q)
      <3>1. f[i + 1] = Hear(f[i], q[i + 1]) /\ f[i] \in Hearers /\ q[i + 1] \in Symbol
        BY <1>f, <1>3, <1>4, <2>1
      <3>2. g[i + 1] = Hear(g[i], q[i + 1]) /\ g[i] = Bump(f[i], b)
        BY <1>g, <1>4, <2>1
      <3>3. Hear(Bump(f[i], b), q[i + 1]) = Bump(Hear(f[i], q[i + 1]), b)
        BY <3>1, HearBump
      <3> QED
        BY <3>1, <3>2, <3>3
    <2>2. CASE ~(i < Len(q))
      BY <1>4, <2>2
    <2> QED
      BY <2>1, <2>2
  <1>7. Same = Nat
    <2> HIDE DEF Same
    <2>1. Same \subseteq Nat
      BY DEF Same
    <2> QED
      BY <1>5, <1>6, <2>1, AllNumbers
  <1> QED
    BY <1>1, <1>2, <1>3, <1>4, <1>7

-----------------------------------------------------------------------------
(* The ring. *)

(* Sequences are the same if their elements are.                            *)
LEMMA Alike ==
  ASSUME NEW p \in Seq(Symbol), NEW q \in Seq(Symbol),
         Len(p) = Len(q), \A i \in 1..Len(q) : p[i] = q[i]
  PROVE  p = q
  OBVIOUS

(* Two sequences that are a third in two pieces.                            *)
LEMMA Joined ==
  ASSUME NEW a \in Seq(Symbol), NEW b \in Seq(Symbol), NEW q \in Seq(Symbol),
         Len(q) = Len(a) + Len(b),
         \A i \in 1..Len(a) : a[i] = q[i],
         \A i \in 1..Len(b) : b[i] = q[Len(a) + i]
  PROVE  a \o b = q
  <1>0. PICK p : p = a \o b
    OBVIOUS
  <1>1. /\ p \in Seq(Symbol) /\ Len(p) = Len(a) + Len(b)
        /\ \A i \in 1..Len(a) : p[i] = a[i]
        /\ \A i \in 1..Len(b) : p[Len(a) + i] = b[i]
    BY <1>0
  <1>2. ASSUME NEW i \in 1..Len(q) PROVE p[i] = q[i]
    <2>1. CASE i <= Len(a)
      BY <1>1, <2>1
    <2>2. CASE Len(a) < i
      <3>1. i - Len(a) \in 1..Len(b) /\ Len(a) + (i - Len(a)) = i
        BY <2>2
      <3> QED
        BY <1>1, <3>1
    <2> QED
      BY <2>1, <2>2
  <1>3. p = q
    BY <1>1, <1>2, Alike
  <1> QED
    BY <1>0, <1>3

Wrapped(a) == IF a < RingSize THEN a ELSE a - RingSize

(* Positions go round once.                                                 *)
LEMMA Round ==
  ASSUME NEW a \in Int, 0 <= a, a < 2 * RingSize
  PROVE  a % RingSize = Wrapped(a)
  BY SabinInputAssumption DEF Wrapped

\* Unread and InRing, of a ring r with positions w and p.
Between(w, p) == (w + RingSize - p) % RingSize
Content(r, w, p) == [i \in 1..Between(w, p) |-> r[(p + i - 1) % RingSize]]

(* How much is unread, and where.                                           *)
LEMMA ContentIs ==
  ASSUME NEW r, NEW w \in Slots, NEW p \in Slots
  PROVE  /\ Between(w, p) = IF p <= w THEN w - p ELSE w + RingSize - p
         /\ Between(w, p) \in Slots
         /\ Len(Content(r, w, p)) = Between(w, p)
         /\ \A i \in 1..Between(w, p) :
              Content(r, w, p)[i] = r[Wrapped(p + i - 1)]
  <1>1. RingSize \in Nat \ {0} /\ w \in 0..RingSize - 1 /\ p \in 0..RingSize - 1
    BY SabinInputAssumption DEF Slots
  <1>2. Between(w, p) = IF p <= w THEN w - p ELSE w + RingSize - p
    <2>1. 0 <= w + RingSize - p /\ w + RingSize - p < 2 * RingSize /\ w + RingSize - p \in Int
      BY <1>1
    <2> QED
      BY <1>1, <2>1, Round DEF Between, Wrapped
  <1>3. Between(w, p) \in 0..RingSize - 1
    BY <1>1, <1>2
  <1>4. Len(Content(r, w, p)) = Between(w, p)
    BY <1>3 DEF Content
  <1>5. ASSUME NEW i \in 1..Between(w, p)
        PROVE  Content(r, w, p)[i]
                 = r[Wrapped(p + i - 1)]
    <2>1. p + i - 1 \in Int /\ 0 <= p + i - 1 /\ p + i - 1 < 2 * RingSize
      BY <1>1, <1>3
    <2>2. (p + i - 1) % RingSize = Wrapped(p + i - 1)
      BY <1>1, <2>1 DEF Wrapped
    <2> QED
      BY <1>3, <2>2 DEF Content
  <1> QED
    BY <1>1, <1>2, <1>3, <1>4, <1>5 DEF Slots

(* A symbol written is the last unread one, while there is room.            *)
LEMMA WrittenLast ==
  ASSUME NEW r \in [Slots -> Symbol \union {"nul"}], NEW w \in Slots, NEW p \in Slots,
         NEW c \in Symbol, Content(r, w, p) \in Seq(Symbol), Between(w, p) # RingSize - 1
  PROVE  /\ (w + 1) % RingSize \in Slots
         /\ Content([r EXCEPT ![w] = c], (w + 1) % RingSize, p) = Content(r, w, p) \o <<c>>
  <1>v. PICK v : v = (w + 1) % RingSize
    OBVIOUS
  <1>r. PICK new : new = [r EXCEPT ![w] = c]
    OBVIOUS
  <1> DEFINE was == Content(r, w, p)
             is == Content(new, v, p)
             n == Between(w, p)
  <1>0. /\ RingSize \in Nat \ {0} /\ w \in 0..RingSize - 1 /\ p \in 0..RingSize - 1
        /\ DOMAIN r = 0..RingSize - 1
    BY SabinInputAssumption DEF Slots
  <1>1. v = IF w + 1 < RingSize THEN w + 1 ELSE 0
    <2>1. w + 1 \in Int /\ 0 <= w + 1 /\ w + 1 < 2 * RingSize
      BY <1>0
    <2>2. v = IF w + 1 < RingSize THEN w + 1 ELSE w + 1 - RingSize
      BY <1>0, <1>v, <2>1
    <2> QED
      BY <1>0, <2>2
  <1>2. v \in Slots
    BY <1>0, <1>1 DEF Slots
  <1>3. new = [i \in 0..RingSize - 1 |-> IF i = w THEN c ELSE r[i]]
    BY <1>0, <1>r
  <1> HIDE DEF was, is
  <1>o. /\ Between(w, p) = IF p <= w THEN w - p ELSE w + RingSize - p
        /\ Between(w, p) \in Slots /\ Len(was) = Between(w, p)
        /\ \A i \in 1..Between(w, p) :
             was[i] = r[Wrapped(p + i - 1)]
    BY ContentIs DEF was
  <1>n. /\ Between(v, p) = IF p <= v THEN v - p ELSE v + RingSize - p
        /\ Len(is) = Between(v, p)
        /\ \A i \in 1..Between(v, p) :
             is[i] = new[Wrapped(p + i - 1)]
    <2>1. Between(v, p) = IF p <= v THEN v - p ELSE v + RingSize - p
      BY <1>2, ContentIs
    <2>2. Len(Content(new, v, p)) = Between(v, p)
      <3>1. Between(v, p) \in Nat
        <4>1. Between(v, p) \in Slots
          BY <1>2, ContentIs
        <4> QED
          BY <1>0, <4>1 DEF Slots
      <3> QED
        BY <3>1 DEF Content
    <2>3. \A i \in 1..Between(v, p) : Content(new, v, p)[i] = new[Wrapped(p + i - 1)]
      BY <1>2, ContentIs
    <2> QED
      BY <2>1, <2>2, <2>3 DEF is
  <1>4. Between(v, p) = n + 1 /\ n \in Nat
    BY <1>0, <1>1, <1>o, <1>n DEF Slots
  <1>i. is = [i \in 1..Between(v, p) |-> new[(p + i - 1) % RingSize]]
    BY DEF is, Content
  <1> HIDE DEF n
  <1>5. \A i \in 1..n : is[i] = was[i]
    BY <1>0, <1>3, <1>4, <1>o, <1>n, SMTT(30) DEF n, Wrapped
  <1>6. is[n + 1] = c
    BY <1>0, <1>3, <1>4, <1>o, <1>n DEF n, Wrapped
  <1>7. is = was \o <<c>>
    <2>1. was \in Seq(Symbol) /\ Len(was) = n
      BY <1>o DEF was, n
    <2>2. is \in Seq(Symbol)
      <3>1. \A i \in 1..n + 1 : is[i] \in Symbol
        BY <1>4, <1>5, <1>6, <2>1
      <3>2. n + 1 \in Nat /\ DOMAIN is = 1..n + 1
        BY <1>4, <1>i
      <3>3. is = [i \in 1..n + 1 |-> is[i]]
        BY <1>4, <1>i
      <3> QED
        BY <3>1, <3>2, <3>3
    <2>3. Len(is) = n + 1
      BY <1>4, <1>n
    <2> QED
      BY <1>4, <1>5, <1>6, <2>1, <2>2, <2>3
  <1> QED
    BY <1>2, <1>7, <1>v, <1>r DEF is, was

(* What is read comes first, and what follows it stays, whatever becomes of *)
(* the slots that were read.                                                *)
LEMMA ReadFirst ==
  ASSUME NEW r \in [Slots -> Symbol \union {"nul"}], NEW w \in Slots, NEW p \in Slots,
         NEW n \in Nat, Content(r, w, p) \in Seq(Symbol), n <= Between(w, p)
  PROVE  LET v == (p + n) % RingSize
             new == [i \in Slots |-> IF (i + RingSize - p) % RingSize < n THEN "nul" ELSE r[i]]
         IN  /\ v \in Slots
             /\ new \in [Slots -> Symbol \union {"nul"}]
             /\ Content(new, w, v) \in Seq(Symbol)
             /\ SubSeq(Content(r, w, p), 1, n) \in Seq(Symbol)
             /\ SubSeq(Content(r, w, p), 1, n) \o Content(new, w, v) = Content(r, w, p)
  <1>v. PICK v : v = (p + n) % RingSize
    OBVIOUS
  <1>r. PICK new : new = [i \in Slots |-> IF (i + RingSize - p) % RingSize < n THEN "nul" ELSE r[i]]
    OBVIOUS
  <1> DEFINE was == Content(r, w, p)
             is == Content(new, w, v)
             m == Between(w, p)
             k == Between(w, v)
  <1>0. RingSize \in Nat \ {0} /\ w \in 0..RingSize - 1 /\ p \in 0..RingSize - 1
    BY SabinInputAssumption DEF Slots
  <1>m. m = (IF p <= w THEN w - p ELSE w + RingSize - p) /\ m \in Slots
    BY ContentIs
  <1>1. v = IF p + n < RingSize THEN p + n ELSE p + n - RingSize
    <2>1. p + n \in Int /\ 0 <= p + n /\ p + n < 2 * RingSize
      BY <1>0, <1>m
    <2> QED
      BY <1>0, <1>v, <2>1
  <1>2. v \in Slots
    BY <1>0, <1>1, <1>m DEF Slots
  <1>3. \A i \in Slots : new[i] \in Symbol \union {"nul"}
    BY <1>r
  <1>4. new \in [Slots -> Symbol \union {"nul"}]
    BY <1>3, <1>r
  <1>5. k = m - n /\ m \in Nat /\ k \in Nat
    <2>1. k = IF v <= w THEN w - v ELSE w + RingSize - v
      BY <1>2, ContentIs
    <2> QED
      BY <1>0, <1>1, <1>m, <2>1 DEF Slots
  <1>6. was \in Seq(Symbol) /\ Len(was) = m
    BY <1>5 DEF Content
  <1>7. \A i \in 1..m : was[i] = r[Wrapped(p + i - 1)]
    BY ContentIs
  <1>8. \A j \in 1..k : is[j] = was[n + j]
    <2> SUFFICES ASSUME NEW j \in 1..k PROVE is[j] = was[n + j]
      OBVIOUS
    <2>1. is[j] = new[Wrapped(v + j - 1)]
      BY <1>2, ContentIs
    <2>2. Wrapped(v + j - 1) = Wrapped(p + (n + j) - 1)
      BY <1>0, <1>1, <1>5, <1>m DEF Wrapped, Slots
    <2>3. n + j \in 1..m
      BY <1>5
    <2>4. was[n + j] = r[Wrapped(p + (n + j) - 1)]
      BY <1>7, <2>3
    <2> DEFINE i == Wrapped(p + (n + j) - 1)
    <2>5. i \in Slots
      BY <1>0, <1>5, <1>m, <2>3 DEF Wrapped, Slots
    <2>6. (i + RingSize - p) % RingSize = n + j - 1
      <3>1. n + j - 1 \in 0..RingSize - 1
        BY <1>0, <1>m, <2>3 DEF Slots
      <3>2. i + RingSize - p = n + j - 1 \/ i + RingSize - p = n + j - 1 + RingSize
        BY <1>0, <1>5, <1>m, <2>3 DEF Wrapped, Slots
      <3> HIDE DEF i
      <3>3. PICK y : y = n + j - 1
        OBVIOUS
      <3>4. y % RingSize = y
        BY <1>0, <3>1, <3>3
      <3>5. (y + RingSize) % RingSize = y
        BY <1>0, <3>1, <3>3
      <3> QED
        BY <3>2, <3>3, <3>4, <3>5
    <2>7. new[i] = r[i]
      BY <1>r, <2>5, <2>6
    <2> QED
      BY <2>1, <2>2, <2>4, <2>7
  <1> HIDE DEF was
  <1>9. is \in Seq(Symbol) /\ Len(is) = k
    <2>1. is = [j \in 1..k |-> is[j]]
      BY DEF Content
    <2>2. \A j \in 1..k : is[j] \in Symbol
      BY <1>5, <1>6, <1>8
    <2> HIDE DEF is, k
    <2> QED
      BY <1>5, <2>1, <2>2
  <1> HIDE DEF is, m, k
  <1>10. SubSeq(was, 1, n) \in Seq(Symbol) /\ Len(SubSeq(was, 1, n)) = n
         /\ \A i \in 1..n : SubSeq(was, 1, n)[i] = was[i]
    BY <1>5, <1>6
  <1>11. SubSeq(was, 1, n) \o is = was
    <2>1. PICK fst : fst = SubSeq(was, 1, n)
      OBVIOUS
    <2>2. fst \in Seq(Symbol) /\ Len(fst) = n /\ \A i \in 1..n : fst[i] = was[i]
      BY <1>10, <2>1
    <2>3. n + k = m /\ n \in Nat /\ k \in Nat /\ m \in Nat
      BY <1>5
    <2>4. Len(was) = Len(fst) + Len(is)
      BY <1>6, <1>9, <2>2, <2>3
    <2>5. \A i \in 1..Len(fst) : fst[i] = was[i]
      BY <2>2
    <2>6. \A i \in 1..Len(is) : is[i] = was[Len(fst) + i]
      BY <1>8, <1>9, <2>2
    <2>7. fst \o is = was
      BY <1>6, <1>9, <2>2, <2>4, <2>5, <2>6, Joined
    <2> QED
      BY <2>1, <2>7
  <1> QED
    BY <1>2, <1>4, <1>9, <1>10, <1>11, <1>v, <1>r DEF was, is

-----------------------------------------------------------------------------
(* The input thread and the game. *)

SabinTypes ==
  /\ held \in [Button -> BOOLEAN] /\ seen \in [Button -> BOOLEAN] /\ sent \in [Button -> BOOLEAN]
  /\ at \in 0..Len(Buttons) /\ sending \in Seq(Symbol)
  /\ writePos \in Slots /\ readPos \in Slots
  /\ ring \in [Slots -> Symbol \union {"nul"}] /\ InRing \in Seq(Symbol)
  /\ Game \in Hearers

\* Once it has heard everything, the game has no command half read and agrees
\* with what was sent.
Told(s, last) ==
  /\ s.half = <<>>
  /\ \A b \in Plain : s.view[b] = last[b]
  /\ \A b \in Service : s.owed[b] = 0

SabinInv == SabinTypes /\ (~lost => Told(HearAll(Game, InRing \o sending), sent))

LEMMA InRingIs == InRing = Content(ring, writePos, readPos) /\ Unread = Between(writePos, readPos)
  BY DEF InRing, Unread, Content, Between

LEMMA SabinInvInit == SabinInit => SabinInv
  <1> SUFFICES ASSUME SabinInit PROVE SabinInv
    OBVIOUS
  <1>1. RingSize \in Nat \ {0} /\ 0 \in Slots
    BY SabinInputAssumption DEF Slots
  <1>2. Up \in [Button -> BOOLEAN] /\ Service \subseteq Button
    BY SabinInputAssumption DEF Up
  <1>3. InRing = <<>>
    <2>1. Between(0, 0) = 0
      BY <1>1 DEF Between
    <2> QED
      BY <2>1, InRingIs DEF Content, SabinInit
  <1>4. Game = [half |-> <<>>, view |-> Up, owed |-> [b \in Service |-> 0]]
    BY DEF Game, SabinInit
  <1>5. <<>> \in Seq(Symbol) /\ [b \in Service |-> 0] \in [Service -> Int]
    OBVIOUS
  <1>6. Game \in Hearers
    BY <1>2, <1>4, <1>5 DEF Hearers
  <1>7. SabinTypes
    <2>1. ring \in [Slots -> Symbol \union {"nul"}]
      BY DEF SabinInit
    <2>2. at \in 0..Len(Buttons)
      BY SabinInputAssumption DEF SabinInit
    <2> QED
      BY <1>1, <1>2, <1>3, <1>5, <1>6, <2>1, <2>2 DEF SabinTypes, SabinInit
  <1>8. HearAll(Game, InRing \o sending) = Game
    <2>1. InRing \o sending = <<>>
      BY <1>3, <1>5 DEF SabinInit
    <2> QED
      BY <2>1, HearNothing
  <1>9. Told(Game, sent)
    BY <1>4 DEF Told, Plain, SabinInit, Up
  <1> QED
    BY <1>7, <1>8, <1>9 DEF SabinInv

(* What a command makes of a game that has heard all before it.             *)
LEMMA HearCommand ==
  ASSUME NEW s \in Hearers, s.half = <<>>, NEW b \in Button, seen \in [Button -> BOOLEAN]
  PROVE  /\ Command(b) \in Seq(Symbol)
         /\ b \in Service /\ seen[b] =>
              HearAll(s, Command(b)) = [half |-> <<>>, view |-> s.view, owed |-> [s.owed EXCEPT ![b] = @ - 1]]
         /\ b \in Service /\ ~seen[b] => HearAll(s, Command(b)) = s
         /\ b \in Plain =>
              HearAll(s, Command(b)) = [half |-> <<>>, view |-> [s.view EXCEPT ![b] = seen[b]], owed |-> s.owed]
  <1> DEFINE s1 == [half |-> <<"(">>, view |-> s.view, owed |-> s.owed]
             s2 == [half |-> <<"(", b>>, view |-> s.view, owed |-> s.owed]
             sign == IF seen[b] THEN "-" ELSE "+"
             s3 == [half |-> <<"(", b, sign>>, view |-> s.view, owed |-> s.owed]
  <1>0. /\ s = [half |-> <<>>, view |-> s.view, owed |-> s.owed]
        /\ s.view \in [Button -> BOOLEAN] /\ s.owed \in [Service -> Int]
    BY DEF Hearers
  <1>1. /\ b \in Symbol /\ sign \in Symbol /\ "(" \in Symbol /\ ")" \in Symbol
        /\ b # "(" /\ b # ")" /\ sign # "(" /\ sign # ")"
        /\ Plain = Button \ Service
    BY SabinInputAssumption DEF Symbol, Plain
  <1>2. Hear(s, "(") = s1
    <2>1. Hear(s, "(") = [s EXCEPT !.half = <<"(">>]
      BY DEF Hear
    <2> QED
      BY <1>0, <2>1
  <1>3. Hear(s1, b) = s2
    <2>1. Hear(s1, b) = [s1 EXCEPT !.half = Append(s1.half, b)]
      BY <1>1 DEF Hear
    <2> QED
      BY <2>1
  <1>4. Hear(s2, sign) = s3
    <2>1. Hear(s2, sign) = [s2 EXCEPT !.half = Append(s2.half, sign)]
      BY <1>1 DEF Hear
    <2> QED
      BY <2>1
  <1>5. b \in Service => Hear(s2, ")") = [half |-> <<>>, view |-> s.view, owed |-> [s.owed EXCEPT ![b] = @ - 1]]
    BY <1>1 DEF Hear
  <1>6. b \in Plain => Hear(s3, ")") = [half |-> <<>>, view |-> [s.view EXCEPT ![b] = seen[b]], owed |-> s.owed]
    <2> SUFFICES ASSUME b \in Plain
                 PROVE  Hear(s3, ")") = [half |-> <<>>, view |-> [s.view EXCEPT ![b] = seen[b]], owed |-> s.owed]
      OBVIOUS
    <2>1. seen[b] = (sign = "-")
      OBVIOUS
    <2> QED
      BY <1>1, <2>1 DEF Hear
  <1> DEFINE Just(c) == <<c>>
  <1>7. ASSUME NEW c \in Symbol, NEW x
        PROVE  Just(c) \in Seq(Symbol) /\ HearAll(x, Just(c)) = Hear(x, c)
    BY HearJust
  <1>8. \A q \in Seq(Symbol), r \in Seq(Symbol) : q \o r \in Seq(Symbol)
    OBVIOUS
  <1> HIDE DEF Just
  <1> DEFINE name == Just("(") \o Just(b)
             more == name \o Just(sign)
  <1>9. name \in Seq(Symbol) /\ HearAll(s, name) = s2
    <2>1. name \in Seq(Symbol) /\ HearAll(s, name) = HearAll(HearAll(s, Just("(")), Just(b))
      BY <1>1, <1>7, <1>8, HearInTwo
    <2> QED
      BY <1>1, <1>2, <1>3, <1>7, <2>1
  <1>10. name \o Just(")") \in Seq(Symbol) /\ HearAll(s, name \o Just(")")) = Hear(s2, ")")
    <2> HIDE DEF name, s2
    <2>1. HearAll(s, name \o Just(")")) = HearAll(s2, Just(")"))
      BY <1>1, <1>7, <1>9, HearInTwo
    <2> QED
      BY <1>1, <1>7, <1>8, <1>9, <2>1
  <1>11. more \in Seq(Symbol) /\ HearAll(s, more) = s3
    <2> HIDE DEF name, s2, s3, sign
    <2>1. more \in Seq(Symbol) /\ HearAll(s, more) = HearAll(s2, Just(sign))
      BY <1>1, <1>7, <1>8, <1>9, HearInTwo
    <2> QED
      BY <1>1, <1>4, <1>7, <2>1
  <1>12. more \o Just(")") \in Seq(Symbol) /\ HearAll(s, more \o Just(")")) = Hear(s3, ")")
    <2> HIDE DEF more, s3
    <2>1. HearAll(s, more \o Just(")")) = HearAll(s3, Just(")"))
      BY <1>1, <1>7, <1>11, HearInTwo
    <2> QED
      BY <1>1, <1>7, <1>8, <1>11, <2>1
  <1>13. CASE b \in Service /\ seen[b]
    <2>1. Command(b) = name \o Just(")")
      BY <1>13 DEF Command, Just
    <2> HIDE DEF name, more, s1, s2, s3
    <2> QED
      BY <1>1, <1>5, <1>10, <1>13, <2>1
  <1>14. CASE b \in Service /\ ~seen[b]
    <2>1. Command(b) = <<>>
      BY <1>14 DEF Command
    <2> QED
      BY <1>1, <1>14, <2>1, HearNothing
  <1>15. CASE b \notin Service
    <2>1. Command(b) = more \o Just(")")
      BY <1>15 DEF Command, Just
    <2> HIDE DEF name, more, s1, s2, s3
    <2> QED
      BY <1>1, <1>6, <1>12, <1>15, <2>1
  <1> QED
    BY <1>13, <1>14, <1>15

(* What does not touch the game, the ring or what is sent tells it nothing. *)
LEMMA ToldStays ==
  ASSUME SabinInv, UNCHANGED <<sent, sending, ringVars, half, view, owed, lost>>
  PROVE  /\ sending' \in Seq(Symbol) /\ writePos' \in Slots /\ readPos' \in Slots
         /\ ring' \in [Slots -> Symbol \union {"nul"}] /\ InRing' \in Seq(Symbol)
         /\ Game' \in Hearers
         /\ ~lost' => Told(HearAll(Game, InRing \o sending), sent)'
  <1>1. InRing' = InRing /\ Game' = Game
    BY DEF InRing, Unread, Game, ringVars
  <1>3. HearAll(Game, InRing \o sending)' = HearAll(Game, InRing \o sending)
    BY <1>1
  <1> QED
    BY <1>1, <1>3 DEF SabinInv, SabinTypes, ringVars, Told

LEMMA SabinInvStep == SabinInv /\ [SabinNext]_sabinVars => SabinInv'
  <1> SUFFICES ASSUME SabinInv, [SabinNext]_sabinVars PROVE SabinInv'
    OBVIOUS
  <1>t. SabinTypes
    BY DEF SabinInv
  <1>b. Len(Buttons) \in Nat \ {0} /\ \A i \in 1..Len(Buttons) : Buttons[i] \in Button
    BY SabinInputAssumption
  <1>1. ASSUME NEW b \in Button, ButtonChanges(b) PROVE SabinInv'
    <2>1. held' \in [Button -> BOOLEAN]
      BY <1>1, <1>t DEF ButtonChanges, SabinTypes
    <2> QED
      BY <1>1, <1>t, <2>1, ToldStays DEF ButtonChanges, SabinInv, SabinTypes
  <1>2. CASE InputThreadWakes
    BY <1>2, <1>t, <1>b, ToldStays DEF InputThreadWakes, SabinInv, SabinTypes
  <1>3. CASE NextButton
    BY <1>3, <1>t, <1>b, ToldStays DEF NextButton, SabinInv, SabinTypes
  <1>4. CASE PostUnread
    BY <1>4, <1>t, <1>b, ToldStays DEF PostUnread, SabinInv, SabinTypes
  <1>5. CASE ~lost /\ ProcessButton
    <2> DEFINE b == Buttons[at]
               s == HearAll(Game, InRing)
    <2>1. /\ at \in 1..Len(Buttons) /\ sending = <<>> /\ sent[b] # seen[b]
          /\ sent' = [sent EXCEPT ![b] = seen[b]]
          /\ sending' = Command(b)
          /\ owed' = IF b \in Service /\ seen[b] THEN [owed EXCEPT ![b] = @ + 1] ELSE owed
          /\ UNCHANGED <<held, seen, at, ringVars, posted, half, view, lost>>
      BY <1>5, <1>t, <1>b DEF ProcessButton, SabinTypes
    <2>2. b \in Button
      BY <1>b, <2>1
    <2> HIDE DEF b
    <2>3. InRing' = InRing
      BY <2>1 DEF InRing, Unread, ringVars
    <2>4. InRing \in Seq(Symbol) /\ InRing \o sending = InRing
      BY <1>t, <2>1 DEF SabinTypes
    <2>5. s \in Hearers /\ Told(s, sent)
      BY <1>5, <1>t, <2>4, HearAllTyped DEF SabinInv, SabinTypes
    <2>6. sent' \in [Button -> BOOLEAN] /\ seen \in [Button -> BOOLEAN]
      BY <1>t, <2>1, <2>2 DEF SabinTypes
    <2>7. /\ Game' = IF b \in Service /\ seen[b] THEN Bump(Game, b) ELSE Game
          /\ Game \in Hearers
      BY <1>t, <2>1 DEF Game, Bump, SabinTypes
    <2>8. Game' \in Hearers
      <3>1. CASE b \in Service /\ seen[b]
        <4>1. Game' = Bump(Game, b)
          BY <2>7, <3>1
        <4>2. Bump(Game, b) \in Hearers
          BY <2>7, <3>1, BumpType
        <4> QED
          BY <4>1, <4>2
      <3>2. CASE ~(b \in Service /\ seen[b])
        BY <2>7, <3>2
      <3> QED
        BY <3>1, <3>2
    <2> HIDE DEF s
    <2>9. /\ s.half = <<>> /\ s.view \in [Button -> BOOLEAN] /\ s.owed \in [Service -> Int]
          /\ \A c \in Plain : s.view[c] = sent[c]
          /\ \A c \in Service : s.owed[c] = 0
      BY <2>5 DEF Hearers, Told
    <2>10. Command(b) \in Seq(Symbol)
      BY <2>2, <2>5, <2>6, <2>9, HearCommand
    <2>11. Told(HearAll(HearAll(Game', InRing), Command(b)), sent')
      <3> DEFINE h == HearAll(HearAll(Game', InRing), Command(b))
      <3>1. CASE b \in Service /\ seen[b]
        <4>1. HearAll(Game', InRing) = Bump(s, b)
          BY <2>4, <2>7, <3>1, HearAllBump DEF s
        <4>2. Bump(s, b) \in Hearers
          BY <2>5, <3>1, BumpType
        <4>3. /\ Bump(s, b).half = <<>> /\ Bump(s, b).view = s.view
              /\ Bump(s, b).owed = [s.owed EXCEPT ![b] = @ + 1]
          BY <2>9 DEF Bump
        <4>4. h = [half |-> <<>>, view |-> s.view, owed |-> [[s.owed EXCEPT ![b] = @ + 1] EXCEPT ![b] = @ - 1]]
          <5>1. PICK u : u = Bump(s, b)
            OBVIOUS
          <5>2. u \in Hearers /\ u.half = <<>> /\ h = HearAll(u, Command(b))
            BY <4>1, <4>2, <4>3, <5>1
          <5> HIDE DEF h
          <5>3. h = [half |-> <<>>, view |-> u.view, owed |-> [u.owed EXCEPT ![b] = @ - 1]]
            BY <2>2, <2>6, <3>1, <5>2, HearCommand
          <5> QED
            BY <4>3, <5>1, <5>3
        <4>5. h.half = <<>> /\ h.view = s.view /\ \A c \in Service : h.owed[c] = 0
          BY <2>9, <4>4
        <4> HIDE DEF h
        <4>6. \A c \in Plain : sent'[c] = sent[c]
          BY <1>t, <2>1, <3>1 DEF Plain, SabinTypes
        <4> QED
          BY <2>9, <4>5, <4>6 DEF Told, h
      <3>2. CASE b \in Service /\ ~seen[b]
        <4>1. h = s
          BY <2>2, <2>5, <2>6, <2>7, <2>9, <3>2, HearCommand DEF s
        <4> HIDE DEF h
        <4>6. \A c \in Plain : sent'[c] = sent[c]
          BY <1>t, <2>1, <3>2 DEF Plain, SabinTypes
        <4> QED
          BY <2>9, <4>1, <4>6 DEF Told, h
      <3>3. CASE b \in Plain
        <4>1. h = [half |-> <<>>, view |-> [s.view EXCEPT ![b] = seen[b]], owed |-> s.owed]
          BY <2>2, <2>5, <2>6, <2>7, <2>9, <3>3, HearCommand DEF s, Plain
        <4>2. \A c \in Plain : h.view[c] = sent'[c]
          BY <1>t, <2>1, <2>9, <4>1 DEF Plain, SabinTypes
        <4>3. h.half = <<>> /\ h.owed = s.owed
          BY <4>1
        <4> HIDE DEF h
        <4> QED
          BY <2>9, <4>2, <4>3 DEF Told, h
      <3> QED
        BY <2>2, <3>1, <3>2, <3>3 DEF Plain
    <2>12. HearAll(Game, InRing \o sending)' = HearAll(HearAll(Game', InRing), Command(b))
      BY <2>1, <2>3, <2>4, <2>10, HearInTwo
    <2>13. SabinTypes'
      BY <1>t, <2>1, <2>3, <2>6, <2>8, <2>10 DEF SabinTypes, ringVars
    <2> QED
      BY <2>11, <2>12, <2>13 DEF SabinInv, Told
  <1>6. CASE ~lost /\ SendSymbol
    <2>1. CASE Full
      <3>1. sending' = <<>> /\ lost' = TRUE /\ UNCHANGED <<ringVars, held, seen, sent, at, half, view, owed>>
        BY <1>6, <2>1 DEF SendSymbol
      <3>2. InRing' = InRing /\ Game' = Game
        BY <3>1 DEF InRing, Unread, Game, ringVars
      <3> QED
        BY <1>t, <3>1, <3>2 DEF SabinInv, SabinTypes, ringVars
    <2>2. CASE ~Full
      <3>1. PICK c, more : c = Head(sending) /\ more = Tail(sending)
        OBVIOUS
      <3>2. /\ sending # <<>>
            /\ ring' = [ring EXCEPT ![writePos] = c]
            /\ writePos' = (writePos + 1) % RingSize
            /\ sending' = more
            /\ UNCHANGED <<readPos, lost, held, seen, sent, at, half, view, owed>>
        BY <1>6, <2>2, <3>1 DEF SendSymbol
      <3>3. /\ c \in Symbol /\ more \in Seq(Symbol) /\ <<c>> \in Seq(Symbol)
            /\ sending = <<c>> \o more
        BY <1>t, <3>1, <3>2 DEF SabinTypes
      <3>4. /\ ring \in [Slots -> Symbol \union {"nul"}] /\ writePos \in Slots /\ readPos \in Slots
            /\ InRing \in Seq(Symbol) /\ Game \in Hearers
            /\ InRing = Content(ring, writePos, readPos) /\ Between(writePos, readPos) # RingSize - 1
        BY <1>t, <2>2, InRingIs DEF SabinTypes, Full
      <3>5. /\ writePos' \in Slots
            /\ Content(ring', writePos', readPos) = InRing \o <<c>>
        BY <3>2, <3>3, <3>4, WrittenLast
      <3>6. InRing' = InRing \o <<c>>
        BY <3>2, <3>5, InRingIs DEF InRing, Unread, Content, Between
      <3>7. InRing' \in Seq(Symbol) /\ (InRing \o <<c>>) \o more = InRing \o (<<c>> \o more)
        BY <3>3, <3>4, <3>6
      <3>8. (InRing \o sending)' = InRing \o sending
        BY <3>2, <3>3, <3>6, <3>7
      <3>9. Game' = Game /\ sent' = sent
        BY <3>2 DEF Game
      <3>10. ring' \in [Slots -> Symbol \union {"nul"}]
        BY <3>2, <3>3, <3>4
      <3>11. SabinTypes'
        BY <1>t, <3>2, <3>3, <3>4, <3>5, <3>7, <3>9, <3>10 DEF SabinTypes
      <3> QED
        BY <1>6, <3>8, <3>9, <3>11 DEF SabinInv, Told
    <2> QED
      BY <2>1, <2>2
  <1>7. ASSUME ~lost, NEW n \in 1..RingSize - 1, GameReadsRing(n) PROVE SabinInv'
    <2> DEFINE first == SubSeq(InRing, 1, n)
               s == HearAll(Game, first)
    <2>1. /\ n <= Unread
          /\ half' = s.half /\ view' = s.view /\ owed' = s.owed
          /\ readPos' = (readPos + n) % RingSize
          /\ ring' = [i \in Slots |-> IF (i + RingSize - readPos) % RingSize < n THEN "nul" ELSE ring[i]]
          /\ UNCHANGED <<held, seen, sent, at, sending, writePos, lost>>
      BY <1>7 DEF GameReadsRing
    <2>2. /\ ring \in [Slots -> Symbol \union {"nul"}] /\ writePos \in Slots /\ readPos \in Slots
          /\ InRing \in Seq(Symbol) /\ Game \in Hearers /\ sending \in Seq(Symbol)
          /\ InRing = Content(ring, writePos, readPos) /\ n <= Between(writePos, readPos)
          /\ n \in Nat
      BY <1>t, <2>1, InRingIs DEF SabinTypes
    <2>3. /\ readPos' \in Slots /\ ring' \in [Slots -> Symbol \union {"nul"}]
          /\ Content(ring', writePos, readPos') \in Seq(Symbol)
          /\ first \in Seq(Symbol)
          /\ first \o Content(ring', writePos, readPos') = InRing
      BY <2>1, <2>2, ReadFirst
    <2>4. InRing' = Content(ring', writePos, readPos')
      BY <2>1 DEF InRing, Unread, Content, Between
    <2> HIDE DEF first
    <2>5. s \in Hearers
      BY <2>2, <2>3, HearAllTyped
    <2>6. Game' = s
      <3> HIDE DEF s
      <3> QED
        BY <2>1, <2>5 DEF Game, Hearers
    <2>7. InRing' \in Seq(Symbol) /\ InRing' \o sending \in Seq(Symbol)
          /\ (first \o InRing') \o sending = first \o (InRing' \o sending)
      BY <2>2, <2>3, <2>4
    <2>8. HearAll(Game, InRing \o sending) = HearAll(s, InRing' \o sending)
      <3>1. HearAll(Game, first \o (InRing' \o sending)) = HearAll(s, InRing' \o sending)
        BY <2>3, <2>7, HearInTwo
      <3> QED
        BY <2>3, <2>4, <2>7, <3>1
    <2>9. SabinTypes'
      <3> HIDE DEF s
      <3> QED
        BY <1>t, <2>1, <2>3, <2>5, <2>6, <2>7 DEF SabinTypes
    <2> QED
      BY <1>7, <2>1, <2>6, <2>8, <2>9 DEF SabinInv, Told
  <1>8. CASE UNCHANGED sabinVars
    BY <1>8, <1>t, ToldStays DEF sabinVars, SabinInv, SabinTypes
  <1> QED
    BY <1>1, <1>2, <1>3, <1>4, <1>5, <1>6, <1>7, <1>8 DEF SabinNext, InputThread, SabinGame

(* Steps of the other parts are none of Sabin's.                            *)
LEMMA SabinSteps == [GameInputNext]_inputVars => [SabinNext]_sabinVars
  BY DEF GameInputNext, PortsStep, TurntableStep, SabinStep, GoesQuiet, inputVars

(* Sabin's ring loses nothing, doubles nothing and keeps the order: whatever *)
(* the input thread and the game do, what the game knows, what is unread and *)
(* what is being sent add up to what was sent, for any buttons and any size  *)
(* of the ring (sabin_io_input.cpp: sendButton, processButton).              *)
THEOREM RingIsFaithful == GameInputSpec => []RingTellsAll
  <1>1. GameInputInit => SabinInv
    BY SabinInvInit DEF GameInputInit
  <1>2. SabinInv /\ [GameInputNext]_inputVars => SabinInv'
    BY SabinSteps, SabinInvStep
  <1>3. SabinInv => RingTellsAll
    BY DEF SabinInv, Told, RingTellsAll
  <1> QED
    BY <1>1, <1>2, <1>3, PTL DEF GameInputSpec

-----------------------------------------------------------------------------
(* The ports. *)

\* "coin" is followed by "note"; "mark" comes first, "note" after it.
InPlace(q) ==
  \A i \in 1..Len(q) :
    /\ q[i] = "coin" => i < Len(q) /\ q[i + 1] = "note"
    /\ q[i] = "note" => i = 1 \/ q[i - 1] \in {"coin", "mark"}
    /\ q[i] = "mark" => i = 1 /\ 1 < Len(q) /\ q[2] = "note"

\* So begins no script that has been started.
Whole(q) == q # <<>> => q[1] \notin {"note", "mark"}

Step == HidDevices \union Inputs \union {"note", "mark"}

\* The steps that are about the coin are there for a control that is.
Due(q) == \A i \in 1..Len(q) : q[i] \in {"coin", "note", "mark"} => "coin" \in Controls

LEMMA OneAfterAnother ==
  ASSUME NEW q \in Seq(Step), NEW r \in Seq(Step), InPlace(q), InPlace(r), Whole(q), Whole(r), Due(q), Due(r)
  PROVE  q \o r \in Seq(Step) /\ InPlace(q \o r) /\ Whole(q \o r) /\ Due(q \o r)
  <1>1. PICK both : both = q \o r
    OBVIOUS
  <1>2. /\ both \in Seq(Step) /\ Len(both) = Len(q) + Len(r)
        /\ Len(q) \in Nat /\ Len(r) \in Nat
        /\ \A i \in 1..Len(q) : both[i] = q[i]
        /\ \A i \in 1..Len(r) : both[Len(q) + i] = r[i]
    BY <1>1
  <1>3. ASSUME NEW i \in 1..Len(both)
        PROVE  \/ i \in 1..Len(q) /\ both[i] = q[i]
               \/ i - Len(q) \in 1..Len(r) /\ both[i] = r[i - Len(q)]
    BY <1>2
  <1>4. InPlace(both)
    <2> SUFFICES ASSUME NEW i \in 1..Len(both)
                 PROVE  /\ both[i] = "coin" => i < Len(both) /\ both[i + 1] = "note"
                        /\ both[i] = "note" => i = 1 \/ both[i - 1] \in {"coin", "mark"}
                        /\ both[i] = "mark" => i = 1 /\ 1 < Len(both) /\ both[2] = "note"
      BY DEF InPlace
    <2>1. CASE i \in 1..Len(q) /\ both[i] = q[i]
      <3>1. /\ q[i] = "coin" => i < Len(q) /\ q[i + 1] = "note"
            /\ q[i] = "note" => i = 1 \/ q[i - 1] \in {"coin", "mark"}
            /\ q[i] = "mark" => i = 1 /\ 1 < Len(q) /\ q[2] = "note"
        BY <2>1 DEF InPlace
      <3>2. i < Len(q) => i < Len(both) /\ both[i + 1] = q[i + 1]
        <4>1. i < Len(q) => i + 1 \in 1..Len(q)
          BY <1>2
        <4> QED
          BY <1>2, <2>1, <4>1
      <3>3. i # 1 => both[i - 1] = q[i - 1]
        <4>1. i # 1 => i - 1 \in 1..Len(q)
          BY <1>2, <2>1
        <4> QED
          BY <1>2, <4>1
      <3>4. 1 < Len(q) => 1 < Len(both) /\ both[2] = q[2]
        BY <1>2
      <3> QED
        BY <2>1, <3>1, <3>2, <3>3, <3>4
    <2>2. CASE i - Len(q) \in 1..Len(r) /\ both[i] = r[i - Len(q)]
      <3> DEFINE j == i - Len(q)
      <3>1. /\ r[j] = "coin" => j < Len(r) /\ r[j + 1] = "note"
            /\ r[j] = "note" => j = 1 \/ r[j - 1] \in {"coin", "mark"}
            /\ r[j] = "mark" => j = 1 /\ 1 < Len(r) /\ r[2] = "note"
        BY <2>2 DEF InPlace
      <3>2. r[j] = "note" => j # 1
        BY <1>2, <2>2 DEF Whole
      <3>3. r[j] # "mark"
        BY <1>2, <2>2, <3>1 DEF Whole
      <3>4. j + 1 <= Len(r) => both[i + 1] = r[j + 1]
        <4>1. j + 1 <= Len(r) => j + 1 \in 1..Len(r) /\ Len(q) + (j + 1) = i + 1
          BY <1>2, <2>2
        <4> HIDE DEF j
        <4> QED
          BY <1>2, <4>1
      <3>5. j # 1 => both[i - 1] = r[j - 1]
        <4>1. j # 1 => j - 1 \in 1..Len(r) /\ Len(q) + (j - 1) = i - 1
          BY <1>2, <2>2
        <4> HIDE DEF j
        <4> QED
          BY <1>2, <4>1
      <3> QED
        BY <1>2, <2>2, <3>1, <3>2, <3>3, <3>4, <3>5
    <2> QED
      BY <1>3, <2>1, <2>2
  <1>5. Whole(both)
    <2>1. CASE q = <<>>
      BY <1>1, <2>1
    <2>2. CASE q # <<>>
      BY <1>2, <2>2 DEF Whole
    <2> QED
      BY <2>1, <2>2
  <1>6. Due(both)
    BY <1>2, <1>3 DEF Due
  <1> QED
    BY <1>1, <1>2, <1>4, <1>5, <1>6

\* A part of a script.
Part(q) == q \in Seq(Step) /\ InPlace(q) /\ Whole(q) /\ Due(q)

LEMMA PartsFollow ==
  ASSUME NEW q, NEW r, Part(q), Part(r)
  PROVE  Part(q \o r)
  BY OneAfterAnother DEF Part

LEMMA StoresPart ==
  ASSUME NEW p \in Inputs \ {"coin"}
  PROVE  Part(StoresOf(<<p>>)) /\ Part(StoresOf(<<"coin", "note">>))
  <1>1. Part(<<>>)
    BY DEF Part, InPlace, Whole, Due
  <1>2. Part(<<p>>)
    <2>1. p \notin {"coin", "note", "mark"} /\ p \in Step
      BY DEF Inputs, DjPorts, DancerPorts, Step
    <2>2. <<p>> \in Seq(Step) /\ Len(<<p>>) = 1 /\ <<p>>[1] = p
      BY <2>1
    <2> QED
      BY <2>1, <2>2 DEF Part, InPlace, Whole, Due
  <1>3. "coin" \in Controls => Part(<<"coin", "note">>)
    <2>1. <<"coin", "note">> \in Seq(Step) /\ Len(<<"coin", "note">>) = 2
          /\ <<"coin", "note">>[1] = "coin" /\ <<"coin", "note">>[2] = "note"
      BY DEF Step, Inputs, DjPorts
    <2>2. PICK q : q = <<"coin", "note">>
      OBVIOUS
    <2>3. InPlace(q)
      BY <2>1, <2>2 DEF InPlace
    <2> QED
      BY <2>1, <2>2, <2>3 DEF Part, Whole, Due
  <1>4. StoresOf(<<p>>) \in {<<p>>, <<>>}
    BY DEF StoresOf
  <1>5. StoresOf(<<"coin", "note">>) = IF "coin" \in Controls THEN <<"coin", "note">> ELSE <<>>
    BY DEF StoresOf
  <1> QED
    BY <1>1, <1>2, <1>3, <1>4, <1>5

Bindings == source \in [Controls -> HidDevices \union {"keyboard"}] /\ Controls \subseteq Inputs

(* The devices that are bound are devices, each once.                       *)
LEMMA BoundPart ==
  ASSUME Bindings
  PROVE  BoundDevices \in Seq(HidDevices) /\ Part(BoundDevices)
  <1> DEFINE S == {source[c] : c \in Controls} \ {"keyboard"}
             n == Cardinality(S)
  <1>1. S \in SUBSET HidDevices
    BY DEF Bindings
  <1>2. IsFiniteSet(S)
    BY <1>1, FS_Subset, PortInputAssumption
  <1>3. n \in Nat /\ ExistsBijection(1..n, S)
    BY <1>2, FS_CardinalityType
  <1>4. \E f \in [1..n -> S] : IsInjective(f)
    <2>1. PICK f : f \in Bijection(1..n, S)
      BY <1>3 DEF ExistsBijection
    <2> QED
      BY <2>1 DEF Bijection, Injection, IsInjective
  <1>5. BoundDevices \in [1..n -> S]
    BY <1>4 DEF BoundDevices, SetToSeq
  <1> HIDE DEF n, S
  <1>6. BoundDevices \in Seq(HidDevices)
    BY <1>1, <1>3, <1>5
  <1>7. HidDevices \intersect {"coin", "note", "mark"} = {}
    BY PortInputAssumption DEF Inputs, DjPorts
  <1>8. \A i \in 1..Len(BoundDevices) : BoundDevices[i] \in HidDevices
    BY <1>6
  <1> HIDE DEF BoundDevices
  <1>9. BoundDevices \in Seq(Step)
    BY <1>6 DEF Step
  <1> QED
    BY <1>6, <1>7, <1>8, <1>9 DEF Part, InPlace, Whole, Due

LEMMA ScriptPart ==
  ASSUME Bindings
  PROVE  Part(Script) /\ Script \in Seq(ToSet(Script))
  <1>1. Part(BoundDevices)
    BY BoundPart
  <1>2. \A p \in Inputs \ {"coin"} : Part(StoresOf(<<p>>)) /\ Part(StoresOf(<<"coin", "note">>))
    BY StoresPart
  <1>3. Part(Script)
    <2>1. {"system", "p1", "p2", "pads1", "pads2", "sensors"} \subseteq Inputs \ {"coin"}
      BY DEF Inputs, DjPorts, DancerPorts
    <2> QED
      BY <1>1, <1>2, <2>1, PartsFollow DEF Script
  <1>4. Script \in Seq(ToSet(Script))
    BY <1>3 DEF Part, ToSet
  <1> QED
    BY <1>3, <1>4

-----------------------------------------------------------------------------
(* What is left of a script stays in order. *)

\* LookAtCoin puts "mark" in place of "coin".
Marked(q) == <<"mark">> \o Tail(q)

LEMMA RestInPlace ==
  ASSUME NEW q \in Seq(Step), InPlace(q), Due(q), q # <<>>
  PROVE  /\ Tail(q) \in Seq(Step) /\ InPlace(Tail(q)) /\ Due(Tail(q))
         /\ Head(q) \notin {"coin", "mark"} => Whole(Tail(q))
         /\ Head(q) \in {"coin", "mark"} => Tail(q) # <<>> /\ Head(Tail(q)) = "note"
         /\ Head(q) = "coin" =>
              /\ Marked(q) \in Seq(Step) /\ InPlace(Marked(q)) /\ Due(Marked(q))
              /\ Marked(q) # <<>> /\ Head(Marked(q)) = "mark"
  <1>1. PICK n \in Nat : n = Len(q) - 1 /\ Len(q) = n + 1
    OBVIOUS
  <1>2. PICK more : more = Tail(q)
    OBVIOUS
  <1>3. /\ more \in Seq(Step) /\ Len(more) = n /\ Head(q) = q[1]
        /\ \A i \in 1..n : more[i] = q[i + 1]
    BY <1>1, <1>2
  <1>4. \A i \in 1..n + 1 :
          /\ q[i] = "coin" => i < n + 1 /\ q[i + 1] = "note"
          /\ q[i] = "note" => i = 1 \/ q[i - 1] \in {"coin", "mark"}
          /\ q[i] = "mark" => i = 1 /\ 1 < n + 1 /\ q[2] = "note"
    BY <1>1 DEF InPlace
  <1>5. ASSUME NEW i \in 1..n
        PROVE  /\ more[i] = "coin" => i < n /\ more[i + 1] = "note"
               /\ more[i] = "note" => i = 1 \/ more[i - 1] \in {"coin", "mark"}
               /\ more[i] # "mark"
    <2>1. i + 1 \in 1..n + 1 /\ i + 1 # 1 /\ more[i] = q[i + 1]
      BY <1>3
    <2>2. i < n => more[i + 1] = q[(i + 1) + 1]
      BY <1>3
    <2>3. i # 1 => more[i - 1] = q[i]
      BY <1>3
    <2>4. /\ q[i + 1] = "coin" => i + 1 < n + 1 /\ q[(i + 1) + 1] = "note"
          /\ q[i + 1] = "note" => i + 1 = 1 \/ q[(i + 1) - 1] \in {"coin", "mark"}
          /\ q[i + 1] = "mark" => i + 1 = 1
      <3>1. PICK k \in 1..n + 1 : k = i + 1
        BY <2>1
      <3>2. /\ q[k] = "coin" => k < n + 1 /\ q[k + 1] = "note"
            /\ q[k] = "note" => k = 1 \/ q[k - 1] \in {"coin", "mark"}
            /\ q[k] = "mark" => k = 1
        BY Zenon, <1>4
      <3> QED
        BY <3>1, <3>2
    <2>5. (i + 1) - 1 = i
      OBVIOUS
    <2> QED
      BY <2>1, <2>2, <2>3, <2>4, <2>5
  <1>6. InPlace(more)
    BY <1>3, <1>5 DEF InPlace
  <1>7. Due(more)
    BY <1>1, <1>3 DEF Due
  <1>f. /\ q[1] = "coin" => 1 < n + 1 /\ q[2] = "note"
        /\ q[1] = "mark" => 1 < n + 1 /\ q[2] = "note"
        /\ n # 0 =>
             /\ q[2] = "note" => q[1] \in {"coin", "mark"}
             /\ q[2] # "mark"
             /\ more[1] = q[2]
    <2>1. 1 \in 1..n + 1 /\ 1 + 1 = 2 /\ 2 - 1 = 1
      OBVIOUS
    <2>2. /\ q[1] = "coin" => 1 < n + 1 /\ q[1 + 1] = "note"
          /\ q[1] = "mark" => 1 < n + 1 /\ q[2] = "note"
      BY Zenon, <1>4, <2>1
    <2>3. ASSUME n # 0
          PROVE  /\ q[2] = "note" => q[2 - 1] \in {"coin", "mark"}
                 /\ q[2] # "mark"
                 /\ more[1] = q[1 + 1]
      <3>1. 2 \in 1..n + 1 /\ 1 \in 1..n /\ 2 # 1
        BY <2>3
      <3>2. /\ q[2] = "note" => 2 = 1 \/ q[2 - 1] \in {"coin", "mark"}
            /\ q[2] = "mark" => 2 = 1
        BY Zenon, <1>4, <3>1
      <3> QED
        BY <1>3, <3>1, <3>2
    <2> QED
      BY <2>1, <2>2, <2>3
  <1>8. Head(q) \notin {"coin", "mark"} => Whole(more)
    <2>1. more # <<>> => n # 0
      BY <1>3
    <2> QED
      BY <1>3, <1>f, <2>1 DEF Whole
  <1>9. Head(q) \in {"coin", "mark"} => more # <<>> /\ Head(more) = "note"
    <2> SUFFICES ASSUME Head(q) \in {"coin", "mark"} PROVE more # <<>> /\ Head(more) = "note"
      OBVIOUS
    <2>1. n # 0 /\ more[1] = "note"
      BY <1>3, <1>f
    <2> QED
      BY <1>3, <2>1
  <1>10. ASSUME Head(q) = "coin"
         PROVE  /\ Marked(q) \in Seq(Step) /\ InPlace(Marked(q)) /\ Due(Marked(q))
                /\ Marked(q) # <<>> /\ Head(Marked(q)) = "mark"
    <2>1. PICK m : m = Marked(q)
      OBVIOUS
    <2>2. /\ m \in Seq(Step) /\ Len(m) = n + 1 /\ m[1] = "mark" /\ m # <<>> /\ Head(m) = "mark"
          /\ \A i \in 1..n : m[i + 1] = more[i]
      BY <1>2, <1>3, <2>1 DEF Marked, Step
    <2>3. more # <<>> /\ n # 0 /\ more[1] = "note"
      BY <1>3, <1>9, <1>10
    <2>4. InPlace(m)
      <3> SUFFICES ASSUME NEW i \in 1..n + 1
                   PROVE  /\ m[i] = "coin" => i < n + 1 /\ m[i + 1] = "note"
                          /\ m[i] = "note" => i = 1 \/ m[i - 1] \in {"coin", "mark"}
                          /\ m[i] = "mark" => i = 1 /\ 1 < n + 1 /\ m[2] = "note"
        BY <2>2 DEF InPlace
      <3>1. CASE i = 1
        <4>1. m[1 + 1] = more[1]
          BY <2>2, <2>3
        <4> QED
          BY <2>2, <2>3, <3>1, <4>1
      <3>2. CASE i # 1
        <4>1. PICK j \in 1..n : i = j + 1
          BY <3>2
        <4>2. m[i] = more[j] /\ (j # 1 => m[i - 1] = more[j - 1]) /\ (j = 1 => m[i - 1] = "mark")
          BY <2>2, <4>1
        <4>3. j < n => m[i + 1] = more[j + 1]
          BY <2>2, <4>1
        <4>4. /\ more[j] = "coin" => j < n /\ more[j + 1] = "note"
              /\ more[j] = "note" => j = 1 \/ more[j - 1] \in {"coin", "mark"}
              /\ more[j] # "mark"
          BY <1>5
        <4> QED
          BY <4>1, <4>2, <4>3, <4>4
      <3> QED
        BY <3>1, <3>2
    <2>5. Due(m)
      <3>1. "coin" \in Controls
        BY <1>1, <1>3, <1>10 DEF Due
      <3> QED
        BY <3>1 DEF Due
    <2> QED
      BY <2>1, <2>2, <2>4, <2>5
  <1> QED
    BY <1>2, <1>3, <1>6, <1>7, <1>8, <1>9, <1>10

-----------------------------------------------------------------------------
(* Types of the ports. *)

PortTypes ==
  /\ PortInputTypeOK
  /\ \A t \in Threads : todo[t] \in Seq(Step) /\ InPlace(todo[t]) /\ Due(todo[t])

LEMMA PortTypesInit == PortInputInit => PortTypes
  <1> SUFFICES ASSUME PortInputInit PROVE PortTypes
    OBVIOUS
  <1>1. PICK s \in Setups : connected = s.connected /\ source = s.source
    BY DEF PortInputInit
  <1>2. Bindings /\ connected \subseteq HidDevices
    BY <1>1, PortInputAssumption DEF Bindings, Controls, Inputs
  <1>3. NothingHeld \in [Controls -> BOOLEAN] /\ Threads = {"poll", "pump"}
    BY DEF NothingHeld, Threads
  <1>4. \A t \in Threads : todo[t] = <<>>
    BY DEF PortInputInit
  <1>5. todo \in [Threads -> Seq(ToSet(Script) \union {"mark"})]
    <2>1. <<>> \in Seq(ToSet(Script) \union {"mark"})
      OBVIOUS
    <2>2. todo = [t \in Threads |-> <<>>]
      BY DEF PortInputInit
    <2> QED
      BY <2>1, <2>2
  <1>6. /\ cache \in [Ports -> BOOLEAN]
        /\ snapshot \in [Threads -> [Controls -> BOOLEAN]]
        /\ coinHeld \in [Threads -> BOOLEAN]
    BY <1>3 DEF PortInputInit
  <1>7. /\ input \in [Controls -> BOOLEAN]
        /\ wasHeld \in BOOLEAN /\ pending \in BOOLEAN
        /\ callback \in {"none", "fn", "ready"} /\ alive \in BOOLEAN
        /\ presses \in 0..MaxPresses /\ coins \in Nat /\ rest \in BOOLEAN /\ due \in BOOLEAN
    <2>1. presses = 0 /\ coins = 0 /\ rest = TRUE /\ due = FALSE
      BY DEF PortInputInit
    <2>2. input = NothingHeld /\ wasHeld = FALSE /\ pending = FALSE
          /\ callback = "none" /\ alive = TRUE
      BY DEF PortInputInit
    <2>3. MaxPresses \in Nat
      BY PortInputAssumption
    <2>4. presses \in 0..MaxPresses /\ coins \in Nat
      BY <2>1, <2>3
    <2> QED
      BY <1>3, <2>1, <2>2, <2>4
  <1>8. PortInputTypeOK
    BY <1>2, <1>5, <1>6, <1>7 DEF PortInputTypeOK, Bindings
  <1>9. <<>> \in Seq(Step) /\ InPlace(<<>>) /\ Due(<<>>)
    BY DEF InPlace, Due
  <1> QED
    BY <1>4, <1>8, <1>9 DEF PortTypes

(* The controls keep their types.                                           *)
LEMMA SeesTyped ==
  ASSUME PortInputTypeOK, NEW new \in [Controls -> BOOLEAN], Sees(new)
  PROVE  /\ input' \in [Controls -> BOOLEAN] /\ presses' \in 0..MaxPresses
         /\ rest' \in BOOLEAN /\ due' \in BOOLEAN
  <1>1. presses \in Nat /\ rest \in BOOLEAN /\ due \in BOOLEAN /\ MaxPresses \in Nat
    BY PortInputAssumption DEF PortInputTypeOK
  <1>2. presses' \in Nat /\ presses' <= MaxPresses
    BY <1>1 DEF Sees
  <1>3. input' = new
    BY DEF Sees
  <1>4. rest' \in BOOLEAN /\ due' \in BOOLEAN
    BY <1>1 DEF Sees
  <1> QED
    BY <1>1, <1>2, <1>3, <1>4

(* A script begun, a step done, a coin to be marked: what is left to do     *)
(* keeps its form.                                                          *)
TodoTyped ==
  /\ todo \in [Threads -> Seq(ToSet(Script) \union {"mark"})]
  /\ \A t \in Threads : todo[t] \in Seq(Step) /\ InPlace(todo[t]) /\ Due(todo[t])

LEMMA TodoKept ==
  ASSUME PortTypes, NEW t \in Threads, UNCHANGED source,
         NEW q, todo' = [todo EXCEPT ![t] = q],
         q \in Seq(ToSet(Script) \union {"mark"}), q \in Seq(Step), InPlace(q), Due(q)
  PROVE  TodoTyped'
  <1>1. ToSet(Script)' = ToSet(Script)
    BY DEF Script, BoundDevices, StoresOf, Controls
  <1>2. \A x : Due(x)' <=> Due(x)
    BY DEF Due, Controls
  <1> QED
    BY <1>1, <1>2 DEF PortTypes, PortInputTypeOK, TodoTyped, Due, Controls

LEMMA TodoStays ==
  ASSUME PortTypes, UNCHANGED <<source, todo>>
  PROVE  TodoTyped'
  <1>1. ToSet(Script)' = ToSet(Script)
    BY DEF Script, BoundDevices, StoresOf, Controls
  <1> QED
    BY <1>1 DEF PortTypes, PortInputTypeOK, TodoTyped, Due, Controls

LEMMA BeginTyped ==
  ASSUME PortTypes, NEW t \in Threads, UNCHANGED source, Begin(t)
  PROVE  /\ TodoTyped' /\ snapshot' \in [Threads -> [Controls -> BOOLEAN]]
         /\ todo'[t] = Script /\ Part(Script)
  <1>1. Bindings
    BY DEF PortTypes, PortInputTypeOK, Bindings
  <1>2. Part(Script) /\ Script \in Seq(ToSet(Script))
    BY <1>1, ScriptPart
  <1>3. Script \in Seq(ToSet(Script) \union {"mark"})
    BY <1>2
  <1>4. TodoTyped'
    BY <1>2, <1>3, TodoKept DEF Begin, Part
  <1>5. NothingHeld \in [Controls -> BOOLEAN]
    BY DEF NothingHeld
  <1>6. snapshot' \in [Threads -> [Controls -> BOOLEAN]]
    BY <1>5 DEF Begin, PortTypes, PortInputTypeOK
  <1>7. todo'[t] = Script
    BY DEF Begin, PortTypes, PortInputTypeOK
  <1> QED
    BY <1>2, <1>4, <1>6, <1>7

LEMMA DoneTyped ==
  ASSUME PortTypes, NEW t \in Threads, UNCHANGED source, NEW step, Doing(t, step), Done(t)
  PROVE  TodoTyped'
  <1> DEFINE q == todo[t]
             W == ToSet(Script) \union {"mark"}
  <1>1. /\ q \in Seq(W) /\ q \in Seq(Step) /\ InPlace(q) /\ Due(q) /\ q # <<>>
        /\ todo' = [todo EXCEPT ![t] = Tail(q)]
    BY DEF PortTypes, PortInputTypeOK, Doing, Done
  <1> HIDE DEF q, W
  <1>2. Tail(q) \in Seq(W) /\ Tail(q) \in Seq(Step) /\ InPlace(Tail(q)) /\ Due(Tail(q))
    BY <1>1, RestInPlace
  <1> QED
    BY <1>1, <1>2, TodoKept DEF W

(* What a step of the two threads leaves alone.                             *)
LEMMA PortTypesStep == PortTypes /\ [PortInputNext]_portInputVars => PortTypes'
  <1> SUFFICES ASSUME PortTypes, [PortInputNext]_portInputVars PROVE PortTypes'
    OBVIOUS
  <1>t. /\ connected \subseteq HidDevices /\ Controls \subseteq Inputs
        /\ source \in [Controls -> HidDevices \union {"keyboard"}]
        /\ input \in [Controls -> BOOLEAN] /\ cache \in [Ports -> BOOLEAN]
        /\ wasHeld \in BOOLEAN /\ pending \in BOOLEAN
        /\ callback \in {"none", "fn", "ready"} /\ alive \in BOOLEAN
        /\ snapshot \in [Threads -> [Controls -> BOOLEAN]]
        /\ coinHeld \in [Threads -> BOOLEAN]
        /\ presses \in 0..MaxPresses /\ coins \in Nat
        /\ rest \in BOOLEAN /\ due \in BOOLEAN
    BY DEF PortTypes, PortInputTypeOK
  <1>p. PortInputTypeOK
    BY DEF PortTypes
  <1>s. UNCHANGED setup => UNCHANGED <<connected, source, Controls, Ports>>
    BY DEF setup, Controls, Ports
  <1>a. Threads = {"poll", "pump"}
    BY DEF Threads
  <1>1. ASSUME NEW c \in Controls, KeyChanges(c) PROVE PortTypes'
    <2>1. [input EXCEPT ![c] = ~@] \in [Controls -> BOOLEAN]
      BY <1>t
    <2>2. /\ Sees([input EXCEPT ![c] = ~@])
          /\ UNCHANGED <<setup, portVars, callback, alive, threadVars, coins>>
      BY <1>1 DEF KeyChanges
    <2>3. /\ input' \in [Controls -> BOOLEAN] /\ presses' \in 0..MaxPresses
          /\ rest' \in BOOLEAN /\ due' \in BOOLEAN
      BY <1>p, <2>1, <2>2, SeesTyped
    <2>4. TodoTyped'
      BY <2>2, TodoStays DEF setup, threadVars
    <2> QED
      BY <1>t, <1>s, <2>2, <2>3, <2>4
      DEF PortTypes, PortInputTypeOK, TodoTyped, portVars, threadVars
  <1>2. ASSUME NEW d \in connected, HidReport(d) PROVE PortTypes'
    <2>1. PICK new \in [Controls -> BOOLEAN] : Sees(new)
      BY <1>2 DEF HidReport
    <2>2. /\ IF callback = "ready" THEN Begin("pump") ELSE UNCHANGED <<todo, snapshot>>
          /\ alive' = (callback # "fn")
          /\ UNCHANGED <<setup, portVars, callback, coinHeld, coins>>
      BY <1>2 DEF HidReport
    <2>3. /\ input' \in [Controls -> BOOLEAN] /\ presses' \in 0..MaxPresses
          /\ rest' \in BOOLEAN /\ due' \in BOOLEAN
      BY <1>p, <2>1, SeesTyped
    <2>4. TodoTyped' /\ snapshot' \in [Threads -> [Controls -> BOOLEAN]]
      <3>1. CASE callback = "ready"
        BY <1>a, <2>2, <3>1, BeginTyped DEF setup
      <3>2. CASE callback # "ready"
        BY <1>t, <2>2, <3>2, TodoStays DEF setup
      <3> QED
        BY <3>1, <3>2
    <2>5. alive' \in BOOLEAN
      BY <2>2
    <2> QED
      BY <1>t, <1>s, <2>2, <2>3, <2>4, <2>5
      DEF PortTypes, PortInputTypeOK, TodoTyped, portVars
  <1>3. CASE SetCallback \/ SetCallbackData
    <2>1. /\ callback' \in {"none", "fn", "ready"}
          /\ UNCHANGED <<setup, controlVars, portVars, alive, threadVars, rest, due, coins>>
      BY <1>3 DEF SetCallback, SetCallbackData
    <2>2. TodoTyped'
      BY <2>1, TodoStays DEF setup, threadVars
    <2> QED
      BY <1>t, <1>s, <2>1, <2>2
      DEF PortTypes, PortInputTypeOK, TodoTyped, portVars, threadVars, controlVars
  <1>4. CASE PollWakes
    <2>1. /\ Begin("poll")
          /\ UNCHANGED <<setup, controlVars, portVars, callback, alive, coinHeld, rest, due, coins>>
      BY <1>4 DEF PollWakes
    <2>2. TodoTyped' /\ snapshot' \in [Threads -> [Controls -> BOOLEAN]]
      BY <1>a, <2>1, BeginTyped DEF setup
    <2> QED
      BY <1>t, <1>s, <2>1, <2>2
      DEF PortTypes, PortInputTypeOK, TodoTyped, portVars, controlVars
  <1>5. ASSUME NEW t \in Threads, UpdateStep(t) PROVE PortTypes'
    <2>1. ASSUME NEW d \in ToSet(BoundDevices), SnapshotDevice(t, d) PROVE PortTypes'
      <3>1. /\ snapshot' = [snapshot EXCEPT ![t] =
                              [c \in Controls |-> IF source[c] = d THEN input[c] ELSE @[c]]]
            /\ Doing(t, d) /\ Done(t)
            /\ UNCHANGED <<setup, controlVars, portVars, callback, alive, coinHeld, rest, due, coins>>
        BY <2>1 DEF SnapshotDevice
      <3>2. snapshot' \in [Threads -> [Controls -> BOOLEAN]]
        BY <1>t, <3>1
      <3>3. TodoTyped'
        BY <1>5, <3>1, DoneTyped DEF setup
      <3> QED
        BY <1>t, <1>s, <3>1, <3>2, <3>3
        DEF PortTypes, PortInputTypeOK, TodoTyped, portVars, controlVars
    <2>2. ASSUME NEW p \in Ports, StorePort(t, p) PROVE PortTypes'
      <3>1. /\ cache' = [cache EXCEPT ![p] = IsHeld(t, p)]
            /\ Doing(t, p) /\ Done(t)
            /\ UNCHANGED <<setup, controlVars, wasHeld, pending, callback, alive, snapshot, coinHeld,
                           rest, due, coins>>
        BY <2>2 DEF StorePort
      <3>2. IsHeld(t, p) \in BOOLEAN
        BY <1>t DEF IsHeld, Ports
      <3>3. cache' \in [Ports -> BOOLEAN]
        BY <1>t, <3>1, <3>2
      <3>4. TodoTyped'
        BY <1>5, <3>1, DoneTyped DEF setup
      <3> QED
        BY <1>t, <1>s, <3>1, <3>3, <3>4
        DEF PortTypes, PortInputTypeOK, TodoTyped, controlVars
    <2>3. CASE LookAtCoin(t)
      <3>1. /\ Doing(t, "coin")
            /\ coinHeld' = [coinHeld EXCEPT ![t] = IsHeld(t, "coin")]
            /\ todo' = [todo EXCEPT ![t] = IF IsHeld(t, "coin") /\ ~wasHeld
                                           THEN Marked(@) ELSE Tail(@)]
            /\ UNCHANGED <<setup, controlVars, portVars, callback, alive, snapshot, rest, due, coins>>
        BY <2>3 DEF LookAtCoin, Marked
      <3> DEFINE q == todo[t]
                 W == ToSet(Script) \union {"mark"}
      <3>2. /\ q \in Seq(W) /\ q \in Seq(Step) /\ InPlace(q) /\ Due(q) /\ q # <<>> /\ Head(q) = "coin"
            /\ todo' \in {[todo EXCEPT ![t] = Marked(q)], [todo EXCEPT ![t] = Tail(q)]}
        BY <1>5, <3>1 DEF PortTypes, PortInputTypeOK, Doing
      <3>3. "mark" \in W
        OBVIOUS
      <3> HIDE DEF q, W
      <3>4. /\ Tail(q) \in Seq(W) /\ Tail(q) \in Seq(Step) /\ InPlace(Tail(q)) /\ Due(Tail(q))
            /\ Marked(q) \in Seq(Step) /\ InPlace(Marked(q)) /\ Due(Marked(q))
        BY <3>2, RestInPlace
      <3>5. Marked(q) \in Seq(W)
        BY <3>3, <3>4 DEF Marked
      <3>6. TodoTyped'
        BY <1>5, <3>1, <3>2, <3>4, <3>5, TodoKept DEF W, setup
      <3>7. "coin" \in Controls
        <4>1. Len(q) \in Nat \ {0} /\ q[1] = "coin"
          BY <3>2
        <4> QED
          BY <3>2, <4>1 DEF Due
      <3>8. coinHeld' \in [Threads -> BOOLEAN]
        BY <1>t, <1>5, <3>1, <3>7 DEF IsHeld
      <3> QED
        BY <1>t, <1>s, <3>1, <3>6, <3>8
        DEF PortTypes, PortInputTypeOK, TodoTyped, portVars, controlVars
    <2>4. CASE MarkCoin(t)
      <3>1. /\ pending' = TRUE /\ due' = FALSE /\ Doing(t, "mark") /\ Done(t)
            /\ UNCHANGED <<setup, controlVars, rest, cache, wasHeld, callback, alive, snapshot, coinHeld, coins>>
        BY <2>4 DEF MarkCoin
      <3>2. TodoTyped'
        BY <1>5, <3>1, DoneTyped DEF setup
      <3> QED
        BY <1>t, <1>s, <3>1, <3>2 DEF PortTypes, PortInputTypeOK, TodoTyped, controlVars
    <2>5. CASE NoteCoin(t)
      <3>1. /\ wasHeld' = coinHeld[t] /\ rest' = ((rest \/ ~coinHeld[t]) /\ ~input["coin"])
            /\ Doing(t, "note") /\ Done(t)
            /\ UNCHANGED <<setup, controlVars, cache, pending, callback, alive, snapshot, coinHeld, due, coins>>
        BY <2>5 DEF NoteCoin
      <3>2. TodoTyped'
        BY <1>5, <3>1, DoneTyped DEF setup
      <3>3. wasHeld' \in BOOLEAN /\ rest' \in BOOLEAN
        BY <1>t, <1>5, <3>1
      <3> QED
        BY <1>t, <1>s, <3>1, <3>2, <3>3 DEF PortTypes, PortInputTypeOK, TodoTyped, controlVars
    <2> QED
      BY <1>5, <2>1, <2>2, <2>3, <2>4, <2>5 DEF UpdateStep
  <1>6. CASE ReadCoin
    <2>1. /\ pending' = FALSE /\ coins' = coins + 1
          /\ UNCHANGED <<setup, controlVars, cache, wasHeld, callback, alive, threadVars, rest, due>>
      BY <1>6 DEF ReadCoin
    <2>2. TodoTyped'
      BY <2>1, TodoStays DEF setup, threadVars
    <2>3. coins' \in Nat
      BY <1>t, <2>1
    <2> QED
      BY <1>t, <1>s, <2>1, <2>2, <2>3
      DEF PortTypes, PortInputTypeOK, TodoTyped, controlVars, threadVars
  <1>7. CASE UNCHANGED portInputVars
    <2>1. UNCHANGED <<setup, controlVars, portVars, callback, alive, threadVars, rest, due, coins>>
      BY <1>7 DEF portInputVars
    <2>2. TodoTyped'
      BY <2>1, TodoStays DEF setup, threadVars
    <2> QED
      BY <1>t, <1>s, <2>1, <2>2
      DEF PortTypes, PortInputTypeOK, TodoTyped, portVars, threadVars, controlVars
  <1> QED
    BY <1>a, <1>1, <1>2, <1>3, <1>4, <1>5, <1>6, <1>7 DEF PortInputNext, PollStep

-----------------------------------------------------------------------------
(* Coins. *)

Pend == IF pending THEN 1 ELSE 0

\* A press is there that no coin stands for.
Owing == coins + Pend < presses

\* What updatePortCache on the poll thread takes the coin button for: what it
\* has just looked at, until that is noted, and what was noted last.
TakenFor ==
  IF todo["poll"] # <<>> /\ Head(todo["poll"]) \in {"mark", "note"} THEN coinHeld["poll"] ELSE wasHeld

\* While the poll thread is alone: a coin marked but not yet pending is owed,
\* and so is one for a button that is down and taken to be up. The button of a
\* device nobody reports of is up.
CoinInv ==
  connected = {} =>
    /\ todo["pump"] = <<>>
    /\ coins + Pend <= presses
    /\ todo["poll"] # <<>> /\ Head(todo["poll"]) = "mark" => Owing /\ coinHeld["poll"]
    /\ "coin" \in Controls =>
         /\ source["coin"] # "keyboard" => ~input["coin"] /\ ~snapshot["poll"]["coin"]
         /\ input["coin"] /\ ~TakenFor => Owing

LEMMA CoinInvInit == PortInputInit => CoinInv
  BY DEF PortInputInit, CoinInv, Pend, TakenFor, NothingHeld, Threads

(* While the poll thread is between two updates, or in a part of one that   *)
(* has nothing to do with the coin button, only the button counts.          *)
LEMMA CoinInvStep == PortTypes /\ CoinInv /\ [PortInputNext]_portInputVars => CoinInv'
  <1> SUFFICES ASSUME PortTypes, CoinInv, [PortInputNext]_portInputVars, connected' = {} PROVE CoinInv'
    BY DEF CoinInv
  <1>t. /\ input \in [Controls -> BOOLEAN]
        /\ wasHeld \in BOOLEAN /\ pending \in BOOLEAN
        /\ snapshot \in [Threads -> [Controls -> BOOLEAN]]
        /\ coinHeld \in [Threads -> BOOLEAN]
        /\ presses \in Nat /\ coins \in Nat
        /\ DOMAIN todo = Threads /\ Threads = {"poll", "pump"}
        /\ todo["poll"] \in Seq(Step) /\ InPlace(todo["poll"]) /\ Due(todo["poll"])
    BY PortInputAssumption DEF PortTypes, PortInputTypeOK, Threads
  <1>c. UNCHANGED setup
    BY DEF PortInputNext, KeyChanges, HidReport, PollStep, SetCallback, SetCallbackData, PollWakes,
           UpdateStep, SnapshotDevice, StorePort, LookAtCoin, MarkCoin, NoteCoin, ReadCoin, portInputVars
  <1>i. /\ connected = {} /\ UNCHANGED <<source, Controls, Ports>>
        /\ todo["pump"] = <<>>
        /\ coins + Pend <= presses
        /\ todo["poll"] # <<>> /\ Head(todo["poll"]) = "mark" => Owing /\ coinHeld["poll"]
        /\ "coin" \in Controls =>
             /\ source["coin"] # "keyboard" => ~input["coin"] /\ ~snapshot["poll"]["coin"]
             /\ input["coin"] /\ ~TakenFor => Owing
    BY <1>c DEF CoinInv, setup, Controls, Ports
  <1>1. ASSUME NEW c \in Controls, KeyChanges(c) PROVE CoinInv'
    <2>1. /\ source[c] = "keyboard"
          /\ Sees([input EXCEPT ![c] = ~@])
          /\ UNCHANGED <<portVars, threadVars, coins>>
      BY <1>1 DEF KeyChanges
    <2>2. UNCHANGED <<todo, coinHeld, wasHeld, snapshot, TakenFor, Pend, coins>>
      BY <2>1 DEF portVars, threadVars, TakenFor, Pend
    <2>3. presses' \in Nat /\ presses <= presses' /\ (Owing => Owing')
      BY <1>t, <2>1, <2>2 DEF Sees, Owing, Pend
    <2>4. CASE c # "coin" \/ input["coin"]
      <3>1. "coin" \in Controls => input'["coin"] = input["coin"] \/ ~input'["coin"]
        BY <1>t, <2>1, <2>4 DEF Sees
      <3>2. "coin" \in Controls /\ source["coin"] # "keyboard" => input'["coin"] = input["coin"]
        BY <1>t, <2>1, <2>4 DEF Sees
      <3> QED
        BY <1>i, <1>t, <2>2, <2>3, <3>1, <3>2 DEF CoinInv, Pend
    <2>5. CASE c = "coin" /\ ~input["coin"]
      <3>1. presses' = presses + 1
        BY <1>t, <2>1, <2>5 DEF Sees
      <3>2. Owing'
        BY <1>i, <1>t, <2>2, <3>1 DEF Owing, Pend
      <3> QED
        BY <1>i, <1>t, <2>1, <2>2, <2>3, <2>5, <3>2 DEF CoinInv, Pend
    <2> QED
      BY <1>t, <2>4, <2>5
  <1>2. ASSUME NEW d \in connected, HidReport(d) PROVE CoinInv'
    BY <1>i
  <1>3. CASE SetCallback \/ SetCallbackData
    <2>1. UNCHANGED <<todo, coinHeld, wasHeld, snapshot, TakenFor, Pend, coins, presses, input, Owing>>
      BY <1>3 DEF SetCallback, SetCallbackData, portVars, threadVars, controlVars, TakenFor, Pend, Owing
    <2> QED
      BY <1>i, <2>1 DEF CoinInv
  <1>4. CASE PollWakes
    <2>1. /\ todo["poll"] = <<>> /\ Begin("poll")
          /\ UNCHANGED <<coinHeld, wasHeld, Pend, coins, presses, input, Owing>>
      BY <1>4 DEF PollWakes, portVars, controlVars, Pend, Owing
    <2>2. Part(Script) /\ todo'["poll"] = Script /\ todo'["pump"] = todo["pump"]
      BY <1>c, <1>t, <2>1, BeginTyped DEF setup, Begin
    <2>3. ~(todo'["poll"] # <<>> /\ Head(todo'["poll"]) \in {"mark", "note"})
      BY <2>2 DEF Part, Whole
    <2>4. TakenFor' = TakenFor
      BY <2>1, <2>3 DEF TakenFor
    <2>5. "coin" \in Controls => ~snapshot'["poll"]["coin"]
      BY <1>t, <2>1 DEF Begin, NothingHeld
    <2> QED
      BY <1>i, <2>1, <2>2, <2>3, <2>4, <2>5 DEF CoinInv
  <1>5. CASE UpdateStep("poll")
    <2>1. ASSUME NEW x, x \notin {"coin", "mark", "note"}, Doing("poll", x), Done("poll"),
                 UNCHANGED <<coinHeld, wasHeld, pending, coins, presses, input>>,
                 "coin" \in Controls /\ source["coin"] # "keyboard" => ~snapshot'["poll"]["coin"]
          PROVE  CoinInv'
      <3>1. /\ todo["poll"] # <<>> /\ Head(todo["poll"]) = x
            /\ todo'["poll"] = Tail(todo["poll"]) /\ todo'["pump"] = todo["pump"]
        BY <1>t, <2>1 DEF Doing, Done
      <3>2. Whole(Tail(todo["poll"])) /\ Tail(todo["poll"]) \in Seq(Step)
        BY <1>t, <2>1, <3>1, RestInPlace
      <3>3. ~(todo'["poll"] # <<>> /\ Head(todo'["poll"]) \in {"mark", "note"})
        BY <3>1, <3>2 DEF Whole
      <3>4. TakenFor' = TakenFor
        BY <2>1, <3>1, <3>3 DEF TakenFor
      <3>5. UNCHANGED <<Pend, Owing>>
        BY <2>1 DEF Pend, Owing
      <3> QED
        BY <1>i, <2>1, <3>1, <3>3, <3>4, <3>5 DEF CoinInv
    <2>2. ASSUME NEW d \in ToSet(BoundDevices), SnapshotDevice("poll", d) PROVE CoinInv'
      <3>1. d \notin {"coin", "mark", "note"}
        <4>1. BoundDevices \in Seq(HidDevices)
          BY BoundPart DEF PortTypes, PortInputTypeOK, Bindings
        <4>2. d \in HidDevices
          BY <4>1 DEF ToSet
        <4> QED
          BY <4>2, PortInputAssumption DEF Inputs, DjPorts
      <3>2. "coin" \in Controls /\ source["coin"] # "keyboard" => ~snapshot'["poll"]["coin"]
        BY <1>i, <1>t, <2>2 DEF SnapshotDevice
      <3> QED
        BY <2>1, <2>2, <3>1, <3>2 DEF SnapshotDevice, controlVars, portVars
    <2>3. ASSUME NEW p \in Ports, StorePort("poll", p) PROVE CoinInv'
      <3>1. p \notin {"coin", "mark", "note"}
        BY DEF PortTypes, PortInputTypeOK, Ports, Inputs, DjPorts, DancerPorts
      <3>2. "coin" \in Controls /\ source["coin"] # "keyboard" => ~snapshot'["poll"]["coin"]
        BY <1>i, <2>3 DEF StorePort
      <3> QED
        BY <2>1, <2>3, <3>1, <3>2 DEF StorePort, controlVars
    <2>4. CASE LookAtCoin("poll")
      <3>1. /\ Doing("poll", "coin")
            /\ coinHeld' = [coinHeld EXCEPT !["poll"] = IsHeld("poll", "coin")]
            /\ todo' = [todo EXCEPT !["poll"] = IF IsHeld("poll", "coin") /\ ~wasHeld
                                                THEN Marked(@) ELSE Tail(@)]
            /\ UNCHANGED <<wasHeld, pending, snapshot, coins, presses, input>>
        BY <2>4 DEF LookAtCoin, Marked, controlVars, portVars
      <3>2. todo["poll"] # <<>> /\ Head(todo["poll"]) = "coin" /\ "coin" \in Controls
        <4>1. todo["poll"] # <<>> /\ Head(todo["poll"]) = "coin"
          BY <3>1 DEF Doing
        <4>2. Len(todo["poll"]) \in Nat \ {0} /\ todo["poll"][1] = "coin"
          BY <1>t, <4>1
        <4> QED
          BY <1>t, <4>1, <4>2 DEF Due
      <3>3. IsHeld("poll", "coin") = input["coin"]
        BY <1>i, <1>t, <3>2 DEF IsHeld
      <3>4. TakenFor = wasHeld
        BY <3>2 DEF TakenFor
      <3>5. UNCHANGED <<Pend, Owing>> /\ todo'["pump"] = todo["pump"]
        BY <1>t, <3>1 DEF Pend, Owing
      <3>6. coinHeld'["poll"] = input["coin"]
        BY <1>t, <3>1, <3>3
      <3>7. CASE input["coin"] /\ ~wasHeld
        <4>1. todo'["poll"] = Marked(todo["poll"])
          BY <1>t, <3>1, <3>3, <3>7
        <4>2. todo'["poll"] # <<>> /\ Head(todo'["poll"]) = "mark"
          BY <1>t, <3>2, <4>1, RestInPlace
        <4>3. Owing
          BY <1>i, <3>2, <3>4, <3>7
        <4> QED
          BY <1>i, <3>1, <3>2, <3>5, <3>6, <3>7, <4>2, <4>3 DEF CoinInv
      <3>8. CASE ~(input["coin"] /\ ~wasHeld)
        <4>1. todo'["poll"] = Tail(todo["poll"])
          BY <1>t, <3>1, <3>3, <3>8
        <4>2. todo'["poll"] # <<>> /\ Head(todo'["poll"]) = "note"
          BY <1>t, <3>2, <4>1, RestInPlace
        <4>3. TakenFor' = input["coin"]
          BY <3>6, <4>2 DEF TakenFor
        <4> QED
          BY <1>i, <3>1, <3>2, <3>5, <4>2, <4>3 DEF CoinInv
      <3> QED
        BY <3>7, <3>8
    <2>5. CASE MarkCoin("poll")
      <3>1. /\ Doing("poll", "mark") /\ Done("poll") /\ pending' = TRUE
            /\ UNCHANGED <<coinHeld, wasHeld, snapshot, coins, presses, input>>
        BY <2>5 DEF MarkCoin, controlVars
      <3>2. /\ todo["poll"] # <<>> /\ Head(todo["poll"]) = "mark"
            /\ todo'["poll"] = Tail(todo["poll"]) /\ todo'["pump"] = todo["pump"]
        BY <1>t, <3>1 DEF Doing, Done
      <3>3. Owing /\ coinHeld["poll"]
        BY <1>i, <3>2
      <3>4. todo'["poll"] # <<>> /\ Head(todo'["poll"]) = "note"
        BY <1>t, <3>2, RestInPlace
      <3>5. TakenFor'
        BY <3>1, <3>3, <3>4 DEF TakenFor
      <3>6. coins' + Pend' <= presses'
        BY <1>t, <3>1, <3>3 DEF Pend, Owing
      <3> QED
        BY <1>i, <3>1, <3>2, <3>4, <3>5, <3>6 DEF CoinInv
    <2>6. CASE NoteCoin("poll")
      <3>1. /\ Doing("poll", "note") /\ Done("poll") /\ wasHeld' = coinHeld["poll"]
            /\ UNCHANGED <<coinHeld, pending, snapshot, coins, presses, input>>
        BY <2>6 DEF NoteCoin, controlVars
      <3>2. /\ todo["poll"] # <<>> /\ Head(todo["poll"]) = "note"
            /\ todo'["poll"] = Tail(todo["poll"]) /\ todo'["pump"] = todo["pump"]
        BY <1>t, <3>1 DEF Doing, Done
      <3>3. Whole(Tail(todo["poll"])) /\ Tail(todo["poll"]) \in Seq(Step)
        BY <1>t, <3>2, RestInPlace
      <3>4. ~(todo'["poll"] # <<>> /\ Head(todo'["poll"]) \in {"mark", "note"})
        BY <3>2, <3>3 DEF Whole
      <3>5. TakenFor' = TakenFor
        BY <3>1, <3>2, <3>4 DEF TakenFor
      <3>6. UNCHANGED <<Pend, Owing>>
        BY <3>1 DEF Pend, Owing
      <3> QED
        BY <1>i, <3>1, <3>2, <3>4, <3>5, <3>6 DEF CoinInv
    <2> QED
      BY <1>5, <2>2, <2>3, <2>4, <2>5, <2>6 DEF UpdateStep
  <1>6. CASE UpdateStep("pump")
    BY <1>6, <1>i DEF UpdateStep, SnapshotDevice, StorePort, LookAtCoin, MarkCoin, NoteCoin, Doing
  <1>7. CASE ReadCoin
    <2>1. /\ pending /\ pending' = FALSE /\ coins' = coins + 1
          /\ UNCHANGED <<todo, coinHeld, wasHeld, snapshot, TakenFor, presses, input>>
      BY <1>7 DEF ReadCoin, controlVars, threadVars, TakenFor
    <2>2. coins' + Pend' = coins + Pend /\ Owing' = Owing
      BY <1>t, <2>1 DEF Pend, Owing
    <2> QED
      BY <1>i, <2>1, <2>2 DEF CoinInv
  <1>8. CASE UNCHANGED portInputVars
    <2>1. UNCHANGED <<todo, coinHeld, wasHeld, snapshot, TakenFor, Pend, coins, presses, input, Owing>>
      BY <1>8 DEF portInputVars, portVars, threadVars, controlVars, TakenFor, Pend, Owing
    <2> QED
      BY <1>i, <2>1 DEF CoinInv
  <1> QED
    BY <1>1, <1>2, <1>3, <1>4, <1>5, <1>6, <1>7, <1>8 DEF PortInputNext, PollStep

LEMMA PortSteps == [GameInputNext]_inputVars => [PortInputNext]_portInputVars
  BY DEF GameInputNext, PortsStep, TurntableStep, SabinStep, GoesQuiet, inputVars

(* While the poll thread runs updatePortCache alone, no press of the coin   *)
(* button gives the game more than one coin, whatever the game, the player  *)
(* and the thread's own pace (ez2dj_io_input.cpp:120).                      *)
THEOREM CoinOncePerPress == GameInputSpec => []OneCoinPerPressAlone
  <1>1. GameInputInit => PortTypes /\ CoinInv
    BY PortTypesInit, CoinInvInit DEF GameInputInit
  <1>2. PortTypes /\ CoinInv /\ [GameInputNext]_inputVars => (PortTypes /\ CoinInv)'
    BY PortSteps, PortTypesStep, CoinInvStep
  <1>3. CoinInv => OneCoinPerPressAlone
    BY DEF CoinInv, OneCoinPerPressAlone, PollsAlone, OneCoinPerPress, Pend
  <1> QED
    BY <1>1, <1>2, <1>3, PTL DEF GameInputSpec

-----------------------------------------------------------------------------
(* What Sabin owes. *)

Read(s) == IF Len(s.half) < 2 THEN Len(s.half) ELSE 2

LEMMA ReadIs ==
  ASSUME NEW s \in Hearers
  PROVE  /\ s.owed \in [Service -> Int] /\ s.half \in Seq(Symbol)
         /\ Len(s.half) \in Nat /\ Read(s) \in Int
         /\ Read(s) >= 0 /\ Read(s) <= 2 /\ Read(s) <= Len(s.half)
         /\ Len(s.half) >= 2 => Read(s) = 2
         /\ Len(s.half) <= 2 => Read(s) = Len(s.half)
  <1>1. s.half \in Seq(Symbol) /\ s.owed \in [Service -> Int]
    BY DEF Hearers
  <1>2. PICK n : n = Len(s.half)
    OBVIOUS
  <1>3. n \in Nat
    BY <1>1, <1>2
  <1>4. CASE n < 2
    <2>1. Read(s) = n
      BY <1>2, <1>4 DEF Read
    <2> QED
      BY <1>1, <1>2, <1>3, <1>4, <2>1
  <1>5. CASE ~(n < 2)
    <2>1. Read(s) = 2
      BY <1>2, <1>5 DEF Read
    <2>2. n >= 2
      BY <1>3, <1>5
    <2>3. /\ Read(s) \in Int /\ Read(s) >= 0 /\ Read(s) <= 2 /\ Read(s) <= n
          /\ n <= 2 => Read(s) = n
      BY <1>3, <2>1, <2>2
    <2> QED
      BY <1>1, <1>2, <1>3, <2>1, <2>3
  <1> QED
    BY <1>4, <1>5

(* A symbol settles no debt by itself: three do.                            *)
LEMMA HearCosts ==
  ASSUME NEW s \in Hearers, NEW c \in Symbol, NEW b \in Service, NEW t, t = Hear(s, c)
  PROVE  /\ t.owed[b] <= s.owed[b]
         /\ 3 * s.owed[b] - Read(s) - 1 <= 3 * t.owed[b] - Read(t)
  <1> DEFINE whole == Append(s.half, c)
             name == whole[2]
             fewer == [s.owed EXCEPT ![name] = @ - 1]
  <1>t. t \in Hearers
    BY HearType
  <1>1. s.half \in Seq(Symbol) /\ s.owed \in [Service -> Int] /\ s.owed[b] \in Int
        /\ s = [half |-> s.half, view |-> s.view, owed |-> s.owed]
    BY DEF Hearers
  <1>2. whole \in Seq(Symbol) /\ Len(whole) = Len(s.half) + 1 /\ Len(s.half) \in Nat
        /\ Len(<<c>>) = 1 /\ Len(<<>>) = 0
    BY <1>1
  <1>n. s.half # <<>> => Len(s.half) > 0
    BY <1>1
  <1>r. /\ Read(s) \in Int /\ Read(s) >= 0 /\ Read(s) <= 2
        /\ Len(s.half) >= 2 => Read(s) = 2
        /\ Len(s.half) <= 2 => Read(s) = Len(s.half)
    BY ReadIs
  <1>q. /\ Read(t) \in Int /\ Read(t) >= 0 /\ Read(t) <= 2
        /\ Len(t.half) >= 2 => Read(t) = 2
        /\ Len(t.half) <= 2 => Read(t) = Len(t.half)
    BY <1>t, ReadIs
  <1>x. ASSUME t.owed = s.owed, Read(t) <= Read(s) + 1
        PROVE  /\ t.owed[b] <= s.owed[b]
               /\ 3 * s.owed[b] - Read(s) - 1 <= 3 * t.owed[b] - Read(t)
    BY <1>1, <1>q, <1>r, <1>x
  <1>3. CASE c = "("
    <2>1. t = [s EXCEPT !.half = <<c>>]
      BY Zenon, <1>3 DEF Hear
    <2>2. t.half = <<c>> /\ t.owed = s.owed
      BY <1>1, <2>1
    <2>3. Read(t) = 1
      BY <1>2, <1>q, <2>2
    <2> QED
      BY <1>r, <1>x, <2>2, <2>3
  <1>4. CASE c # "(" /\ s.half = <<>>
    <2>1. t = s
      BY Zenon, <1>4 DEF Hear
    <2> QED
      BY <1>r, <1>x, <2>1
  <1>5. CASE c # "(" /\ s.half # <<>> /\ c # ")"
    <2>1. t = [s EXCEPT !.half = whole]
      BY Zenon, <1>5 DEF Hear
    <2> HIDE DEF whole, name
    <2>2. t.half = whole /\ t.owed = s.owed
      BY <1>1, <2>1
    <2>3. Len(t.half) = Len(s.half) + 1
      BY <1>2, <2>2
    <2>4. Read(t) <= Read(s) + 1
      BY <1>2, <1>q, <1>r, <2>3
    <2> QED
      BY <1>x, <2>2, <2>4
  <1>6. CASE c = ")" /\ s.half # <<>>
    <2>0. c # "("
      BY <1>6
    <2>1. CASE Len(whole) = 3 /\ name \in Service
      <3>1. t = [half |-> <<>>, view |-> s.view, owed |-> fewer]
        BY Zenon, <1>6, <2>0, <2>1 DEF Hear
      <3> HIDE DEF whole, name
      <3>2. t.half = <<>> /\ t.owed = fewer
        BY <3>1
      <3>3. t.owed[b] = s.owed[b] - 1 \/ t.owed[b] = s.owed[b]
        BY <1>1, <2>1, <3>2
      <3>4. PICK m : m = Len(whole)
        OBVIOUS
      <3>5. PICK k : k = Len(s.half)
        OBVIOUS
      <3>6. m = k + 1 /\ m = 3 /\ k \in Nat
        BY <1>2, <2>1, <3>4, <3>5
      <3>7. k = 2
        BY <3>6
      <3>8. Read(s) = 2 /\ Read(t) = 0
        BY <1>2, <1>q, <1>r, <3>2, <3>5, <3>7
      <3> QED
        BY <1>1, <3>3, <3>8
    <2>2. CASE ~(Len(whole) = 3 /\ name \in Service) /\ Len(whole) = 4 /\ name \in Plain
      <3> DEFINE other == [s.view EXCEPT ![name] = (whole[3] = "-")]
      <3>1. t = [half |-> <<>>, view |-> other, owed |-> s.owed]
        BY Zenon, <1>6, <2>0, <2>2 DEF Hear
      <3> HIDE DEF whole, name, other
      <3>2. t.half = <<>> /\ t.owed = s.owed
        BY <3>1
      <3>3. Read(t) = 0
        BY <1>2, <1>q, <3>2
      <3> QED
        BY <1>r, <1>x, <3>2, <3>3
    <2>3. CASE ~(Len(whole) = 3 /\ name \in Service) /\ ~(Len(whole) = 4 /\ name \in Plain)
      <3>1. t = [s EXCEPT !.half = <<>>]
        BY Zenon, <1>6, <2>0, <2>3 DEF Hear
      <3> HIDE DEF whole, name
      <3>2. t.half = <<>> /\ t.owed = s.owed
        BY <1>1, <3>1
      <3>3. Read(t) = 0
        BY <1>2, <1>q, <3>2
      <3> QED
        BY <1>r, <1>x, <3>2, <3>3
    <2> QED
      BY <2>1, <2>2, <2>3
  <1> QED
    BY <1>3, <1>4, <1>5, <1>6

(* So a debt that the symbols q settle is no larger than they allow.        *)
LEMMA DebtIsHeard ==
  ASSUME NEW s \in Hearers, NEW q \in Seq(Symbol), NEW b \in Service,
         HearAll(s, q).owed[b] = 0
  PROVE  0 <= s.owed[b] /\ 3 * s.owed[b] <= Len(q) + 2
  <1>1. PICK f : IsTelling(f, s, q) /\ HearAll(s, q) = f[Len(q)]
    BY Telling
  <1>2. f[0] = s /\ \A i \in Nat : i < Len(q) => f[i + 1] = Hear(f[i], q[i + 1])
    BY <1>1, TellingStep
  <1>3. \A i \in 0..Len(q) : f[i] \in Hearers
    BY <1>1, HearAllType
  <1>4. Len(q) \in Nat /\ \A i \in Nat : i < Len(q) => q[i + 1] \in Symbol
    OBVIOUS
  <1>5. \A t \in Hearers : t.owed[b] \in Int /\ Read(t) \in Int /\ 0 <= Read(t) /\ Read(t) <= 2
    BY ReadIs
  <1> DEFINE Paid == {i \in Nat : i <= Len(q) =>
                        /\ f[i].owed[b] <= s.owed[b]
                        /\ 3 * s.owed[b] - Read(s) - i <= 3 * f[i].owed[b] - Read(f[i])}
  <1>6. 0 \in Paid
    BY <1>2, <1>5
  <1>7. ASSUME NEW i \in Paid PROVE i + 1 \in Paid
    <2>1. CASE i < Len(q)
      <3>1. PICK j : j = i + 1
        OBVIOUS
      <3>2. f[j] = Hear(f[i], q[j]) /\ f[i] \in Hearers /\ f[j] \in Hearers /\ q[j] \in Symbol
        BY <1>2, <1>3, <1>4, <2>1, <3>1
      <3>3. /\ f[j].owed[b] <= f[i].owed[b]
            /\ 3 * f[i].owed[b] - Read(f[i]) - 1 <= 3 * f[j].owed[b] - Read(f[j])
        BY <3>2, HearCosts
      <3>4. /\ f[i].owed[b] <= s.owed[b]
            /\ 3 * s.owed[b] - Read(s) - i <= 3 * f[i].owed[b] - Read(f[i])
        BY <1>4, <2>1
      <3>5. /\ s.owed[b] \in Int /\ f[i].owed[b] \in Int /\ f[j].owed[b] \in Int
            /\ Read(s) \in Int /\ Read(f[i]) \in Int /\ Read(f[j]) \in Int /\ i \in Nat /\ j = i + 1
        BY <1>5, <3>1, <3>2
      <3>6. /\ f[j].owed[b] <= s.owed[b]
            /\ 3 * s.owed[b] - Read(s) - j <= 3 * f[j].owed[b] - Read(f[j])
        <4>1. PICK o : o = s.owed[b]
          OBVIOUS
        <4>2. PICK o1 : o1 = f[i].owed[b]
          OBVIOUS
        <4>3. PICK o2 : o2 = f[j].owed[b]
          OBVIOUS
        <4>4. PICK r : r = Read(s)
          OBVIOUS
        <4>5. PICK r1 : r1 = Read(f[i])
          OBVIOUS
        <4>6. PICK r2 : r2 = Read(f[j])
          OBVIOUS
        <4>7. /\ o2 <= o1 /\ 3 * o1 - r1 - 1 <= 3 * o2 - r2
              /\ o1 <= o /\ 3 * o - r - i <= 3 * o1 - r1
          BY <3>3, <3>4, <4>1, <4>2, <4>3, <4>4, <4>5, <4>6
        <4>8. /\ o \in Int /\ o1 \in Int /\ o2 \in Int
              /\ r \in Int /\ r1 \in Int /\ r2 \in Int /\ i \in Nat /\ j = i + 1
          BY <3>5, <4>1, <4>2, <4>3, <4>4, <4>5, <4>6
        <4>9. o2 <= o /\ 3 * o - r - j <= 3 * o2 - r2
          BY <4>7, <4>8
        <4> QED
          BY <4>1, <4>3, <4>4, <4>6, <4>9
      <3> QED
        BY <3>1, <3>6
    <2>2. CASE ~(i < Len(q))
      BY <1>4, <2>2
    <2> QED
      BY <2>1, <2>2
  <1>8. Paid = Nat
    <2> HIDE DEF Paid
    <2>1. Paid \subseteq Nat
      BY DEF Paid
    <2> QED
      BY <1>6, <1>7, <2>1, AllNumbers
  <1>9. /\ f[Len(q)].owed[b] <= s.owed[b]
        /\ 3 * s.owed[b] - Read(s) - Len(q) <= 3 * f[Len(q)].owed[b] - Read(f[Len(q)])
    BY <1>4, <1>8
  <1>10. PICK e : e = f[Len(q)]
    OBVIOUS
  <1>11. e \in Hearers /\ e.owed[b] = 0
    BY <1>1, <1>3, <1>4, <1>10
  <1>12. /\ s.owed[b] \in Int /\ Read(s) \in Int /\ 0 <= Read(s) /\ Read(s) <= 2
         /\ Read(e) \in Int /\ 0 <= Read(e)
    BY <1>5, <1>11
  <1>13. e.owed[b] <= s.owed[b] /\ 3 * s.owed[b] - Read(s) - Len(q) <= 3 * e.owed[b] - Read(e)
    BY <1>9, <1>10
  <1> QED
    BY <1>4, <1>11, <1>12, <1>13

\* What the game is owed fits into the ring and one command.
SabinTyped ==
  /\ posted \in BOOLEAN /\ lost \in BOOLEAN
  /\ Len(sending) <= 4
  /\ lost => owed \in [Service -> 0..RingSize]

LEMMA OwedFits ==
  ASSUME SabinInv, ~lost, Len(sending) <= 4
  PROVE  owed \in [Service -> 0..RingSize]
  <1>1. /\ InRing \in Seq(Symbol) /\ sending \in Seq(Symbol) /\ Game \in Hearers
        /\ writePos \in Slots /\ readPos \in Slots
    BY DEF SabinInv, SabinTypes
  <1>2. RingSize \in Nat /\ RingSize > 1
    BY SabinInputAssumption
  <1>3. Unread \in 0..RingSize - 1
    BY <1>1, <1>2 DEF Unread, Slots
  <1>4. Len(InRing) = Unread
    BY <1>3 DEF InRing
  <1> DEFINE q == InRing \o sending
  <1>5. q \in Seq(Symbol) /\ Len(q) <= RingSize + 3
    <2>1. PICK r : r = InRing
      OBVIOUS
    <2>2. r \in Seq(Symbol) /\ Len(r) = Unread
      BY <1>1, <1>4, <2>1
    <2>3. (r \o sending) \in Seq(Symbol) /\ Len(r \o sending) = Unread + Len(sending)
      BY <1>1, <2>2
    <2> QED
      BY <1>1, <1>2, <1>3, <2>1, <2>3
  <1>6. Told(HearAll(Game, q), sent)
    BY DEF SabinInv
  <1>7. Game.owed = owed /\ owed \in [Service -> Int]
    BY <1>1 DEF Game, Hearers
  <1> HIDE DEF q
  <1>8. ASSUME NEW b \in Service PROVE owed[b] \in 0..RingSize
    <2>1. HearAll(Game, q).owed[b] = 0
      BY <1>6 DEF Told
    <2>2. 0 <= Game.owed[b] /\ 3 * Game.owed[b] <= Len(q) + 2
      BY <1>1, <1>5, <2>1, DebtIsHeard
    <2>3. Len(q) \in Nat /\ owed[b] \in Int
      BY <1>5, <1>7
    <2> QED
      BY <1>2, <1>5, <1>7, <2>2, <2>3
  <1> QED
    BY <1>7, <1>8

LEMMA SabinTypedInit == SabinInit => SabinTyped
  <1> SUFFICES ASSUME SabinInit PROVE SabinTyped
    OBVIOUS
  <1>1. sending = <<>> /\ posted = FALSE /\ lost = FALSE /\ owed = [b \in Service |-> 0]
    BY DEF SabinInit
  <1>2. 0 \in 0..RingSize
    BY SabinInputAssumption
  <1>3. Len(sending) <= 4
    BY <1>1
  <1> QED
    BY <1>1, <1>2, <1>3 DEF SabinTyped

LEMMA SabinTypedStep ==
  ASSUME SabinInv, SabinInv', SabinTyped, [SabinNext]_sabinVars
  PROVE  SabinTyped'
  <1>1. /\ posted \in BOOLEAN /\ lost \in BOOLEAN /\ Len(sending) <= 4
        /\ owed \in [Service -> 0..RingSize] /\ sending \in Seq(Symbol)
    BY OwedFits DEF SabinTyped, SabinInv, SabinTypes
  <1>2. posted' \in BOOLEAN /\ lost' \in BOOLEAN
    BY <1>1 DEF SabinNext, InputThread, SabinGame, ButtonChanges, InputThreadWakes, ProcessButton,
                SendSymbol, NextButton, PostUnread, GameReadsRing, sabinVars
  <1>3. Len(sending') <= 4
    <2>1. \A b : Len(Command(b)) <= 4
      <3>1. \A b : Len(<<"(", b, ")">>) <= 4 /\ Len(<<>>) <= 4
                   /\ Len(<<"(", b, "-", ")">>) <= 4 /\ Len(<<"(", b, "+", ")">>) <= 4
        OBVIOUS
      <3> QED
        BY <3>1 DEF Command
    <2>2. Len(<<>>) <= 4 /\ (sending # <<>> => Len(Tail(sending)) <= 4)
      BY <1>1
    <2>3. \/ sending' = sending \/ sending' = <<>> \/ sending' = Command(Buttons[at])
          \/ sending # <<>> /\ sending' = Tail(sending)
      BY DEF SabinNext, InputThread, SabinGame, ButtonChanges, InputThreadWakes, ProcessButton,
             SendSymbol, NextButton, PostUnread, GameReadsRing, sabinVars
    <2> QED
      BY <1>1, <2>1, <2>2, <2>3
  <1>4. lost' => owed' = owed
    BY DEF SabinNext, InputThread, SabinGame, ButtonChanges, InputThreadWakes, ProcessButton,
           SendSymbol, NextButton, PostUnread, GameReadsRing, sabinVars
  <1> QED
    BY <1>1, <1>2, <1>3, <1>4 DEF SabinTyped

LEMMA SabinTypesHold == SabinInv /\ SabinTyped => SabinTypeOK
  <1> SUFFICES ASSUME SabinInv, SabinTyped PROVE SabinTypeOK
    OBVIOUS
  <1>1. view \in [Button -> BOOLEAN]
    BY DEF SabinInv, SabinTypes, Hearers, Game
  <1>2. owed \in [Service -> 0..RingSize]
    BY OwedFits DEF SabinTyped
  <1> QED
    BY <1>1, <1>2 DEF SabinInv, SabinTypes, SabinTyped, SabinTypeOK

-----------------------------------------------------------------------------
(* The turntable. *)

\* The types of the turntable, and that the axis is some fraction.
TurntableTypes ==
  /\ wiring \in Wirings
  /\ mousePos \in Int /\ vttPos \in Int /\ axisRange \in Int \X Int
  /\ axisSeen \in Int \X Int /\ axisSeen[1] \in 0..axisSeen[2] /\ axisSeen[2] > 0
  /\ keys \subseteq Keys /\ vttAt \in Keys
  /\ ttPort \in 0..255
  /\ reading \in [TTThreads -> SUBSET {"base", "vtt", "store"}]
  /\ found \in [TTThreads -> [base : 0..256, vtt : 0..255]]
  /\ turned \in Int /\ reports \in 0..MaxReports

(* A fraction of 255 is at most 255.                                        *)
LEMMA EightBits ==
  ASSUME NEW n \in Int, NEW m \in Int, 0 <= n, n <= m, m > 0
  PROVE  (n * 255) \div m \in 0..255
  <1>1. PICK q : q = (n * 255) \div m
    OBVIOUS
  <1>2. q \in Int /\ m * q <= n * 255 /\ n * 255 < m * q + m
    BY <1>1
  <1>3. q >= 0
    BY <1>2
  <1>4. q <= 255
    <2>1. SUFFICES ASSUME q >= 256 PROVE FALSE
      BY <1>2
    <2>2. m * q >= m * 256
      BY <1>2, <2>1
    <2> QED
      BY <1>2, <2>2
  <1> QED
    BY <1>1, <1>2, <1>3, <1>4

LEMMA PositionIs ==
  ASSUME NEW p \in Int
  PROVE  Position(p) \in 0..255
  <1>1. Quotient(p, TT_INTERNAL_MULTIPLIER) \in Int
    BY DEF Quotient, TT_INTERNAL_MULTIPLIER
  <1>2. PICK q : q = Quotient(p, TT_INTERNAL_MULTIPLIER)
    OBVIOUS
  <1>3. q % 256 \in 0..255
    BY <1>1, <1>2
  <1> QED
    BY <1>2, <1>3 DEF Position

LEMMA BaseIs ==
  ASSUME TurntableTypes
  PROVE  Base \in 0..256
  <1>1. wiring.kind \in {"unset", "mouse", "axis"} /\ wiring.reverse \in BOOLEAN
    BY TurntableAssumption DEF TurntableTypes
  <1>2. Position(mousePos) \in 0..255
    BY PositionIs DEF TurntableTypes
  <1>3. CASE wiring.kind = "unset"
    <2>1. Base = Position(mousePos)
      BY Zenon, <1>3 DEF Base
    <2> QED
      BY <1>2, <2>1
  <1>4. CASE wiring.kind = "mouse"
    <2>1. Base = IF wiring.reverse THEN 256 - Position(mousePos) ELSE Position(mousePos)
      BY Zenon, <1>4, "mouse" # "unset", "mouse" # "axis" DEF Base
    <2>2. 256 - Position(mousePos) \in 0..256 /\ Position(mousePos) \in 0..256
      BY <1>2
    <2> QED
      BY <1>1, <2>1, <2>2
  <1>5. CASE wiring.kind = "axis"
    <2>1. Base = AxisPosition(IF wiring.reverse THEN <<axisSeen[2] - axisSeen[1], axisSeen[2]>>
                                                ELSE axisSeen)
      BY Zenon, <1>5, "axis" # "unset", "axis" # "mouse" DEF Base
    <2>2. /\ axisSeen[1] \in Int /\ axisSeen[2] \in Int
          /\ 0 <= axisSeen[1] /\ axisSeen[1] <= axisSeen[2] /\ axisSeen[2] > 0
      BY DEF TurntableTypes
    <2>3. PICK n : n = axisSeen[1]
      OBVIOUS
    <2>4. PICK m : m = axisSeen[2]
      OBVIOUS
    <2>5. /\ n \in Int /\ m \in Int /\ 0 <= n /\ n <= m /\ m > 0
          /\ m - n \in Int /\ 0 <= m - n /\ m - n <= m
      BY <2>2, <2>3, <2>4
    <2>6. AxisPosition(axisSeen) \in 0..255
      BY <2>3, <2>4, <2>5, EightBits DEF AxisPosition
    <2>7. AxisPosition(<<m - n, m>>) \in 0..255
      <3>1. PICK k : k = m - n
        OBVIOUS
      <3>2. AxisPosition(<<k, m>>) \in 0..255
        BY <2>5, <3>1, EightBits DEF AxisPosition
      <3> QED
        BY <3>1, <3>2
    <2>8. Base = AxisPosition(axisSeen) \/ Base = AxisPosition(<<m - n, m>>)
      BY <2>1, <2>3, <2>4
    <2> QED
      BY <2>6, <2>7, <2>8
  <1> QED
    BY <1>1, <1>3, <1>4, <1>5

LEMMA TurntableInitTyped == TurntableInit => TurntableTypes
  <1> SUFFICES ASSUME TurntableInit PROVE TurntableTypes
    OBVIOUS
  <1>1. /\ wiring \in Wirings /\ mousePos = Centre /\ vttPos = Centre /\ axisSeen = <<1, 2>>
        /\ axisRange = AxisRange /\ keys = {} /\ vttAt = "plus" /\ ttPort = TT_CENTER
        /\ turned = 0 /\ reports = 0
    BY DEF TurntableInit
  <1>2. Centre \in Int /\ TT_CENTER \in 0..255 /\ AxisRange \in Int \X Int /\ 0 \in 0..MaxReports
    BY TurntableAssumption DEF Centre, TT_CENTER, TT_INTERNAL_MULTIPLIER
  <1>3. reading \in [TTThreads -> SUBSET {"base", "vtt", "store"}]
    BY DEF TurntableInit
  <1>4. found \in [TTThreads -> [base : 0..256, vtt : 0..255]]
    BY DEF TurntableInit, NothingFound
  <1>5. axisSeen \in Int \X Int /\ axisSeen[1] \in 0..axisSeen[2] /\ axisSeen[2] > 0
    BY <1>1
  <1> QED
    BY <1>1, <1>2, <1>3, <1>4, <1>5 DEF TurntableTypes, Keys

LEMMA BeginsTyped ==
  ASSUME TurntableTypes, NEW t \in TTThreads, Begins(t)
  PROVE  reading' \in [TTThreads -> SUBSET {"base", "vtt", "store"}]
  BY DEF TurntableTypes, Begins

LEMMA ReadsTyped ==
  ASSUME TurntableTypes, NEW t \in TTThreads, NEW what \in {"base", "vtt"}, NEW value,
         what = "base" => value \in 0..256, what = "vtt" => value \in 0..255,
         Reads(t, what, value)
  PROVE  TurntableTypes'
  <1>1. reading' \in [TTThreads -> SUBSET {"base", "vtt", "store"}]
    BY DEF TurntableTypes, Reads
  <1>2. found[t] \in [base : 0..256, vtt : 0..255]
    BY DEF TurntableTypes
  <1>3. [found[t] EXCEPT ![what] = value] \in [base : 0..256, vtt : 0..255]
    <2>1. CASE what = "base"
      <3>1. value \in 0..256
        BY <2>1
      <3>2. [found[t] EXCEPT ![what] = value] = [base |-> value, vtt |-> found[t].vtt]
        BY <1>2, <2>1
      <3> QED
        BY <1>2, <3>1, <3>2
    <2>2. CASE what = "vtt"
      <3>1. value \in 0..255
        BY <2>2
      <3>2. [found[t] EXCEPT ![what] = value] = [base |-> found[t].base, vtt |-> value]
        BY <1>2, <2>2
      <3> QED
        BY <1>2, <3>1, <3>2
    <2> QED
      BY <2>1, <2>2
  <1>4. found' \in [TTThreads -> [base : 0..256, vtt : 0..255]]
    <2>1. PICK new : new = [found[t] EXCEPT ![what] = value]
      OBVIOUS
    <2>2. found' = [found EXCEPT ![t] = new]
      BY <2>1 DEF Reads
    <2> QED
      BY <1>3, <2>1, <2>2 DEF TurntableTypes
  <1>5. UNCHANGED <<wiring, mousePos, vttPos, axisSeen, axisRange, keys, vttAt, ttPort, turned, reports>>
    BY DEF Reads, positionVars
  <1> QED
    BY <1>1, <1>4, <1>5 DEF TurntableTypes

LEMMA TurntableStepTyped == TurntableTypes /\ [TurntableNext]_ttVars => TurntableTypes'
  <1> SUFFICES ASSUME TurntableTypes, [TurntableNext]_ttVars PROVE TurntableTypes'
    OBVIOUS
  <1>t. /\ wiring \in Wirings
        /\ mousePos \in Int /\ vttPos \in Int /\ axisRange \in Int \X Int
        /\ axisSeen \in Int \X Int /\ axisSeen[1] \in 0..axisSeen[2] /\ axisSeen[2] > 0
        /\ keys \subseteq Keys /\ vttAt \in Keys
        /\ ttPort \in 0..255
        /\ reading \in [TTThreads -> SUBSET {"base", "vtt", "store"}]
        /\ found \in [TTThreads -> [base : 0..256, vtt : 0..255]]
        /\ turned \in Int /\ reports \in 0..MaxReports
    BY DEF TurntableTypes
  <1>w. /\ wiring.sensitivity \in 1..20 /\ wiring.step \in 1..20 /\ wiring.reverse \in BOOLEAN
        /\ MouseCounts \subseteq Int /\ AxisValues \subseteq Int /\ MaxReports \in Nat
    BY <1>t, TurntableAssumption
  <1>h. "poll" \in TTThreads /\ "pump" \in TTThreads
    BY DEF TTThreads
  <1>1. ASSUME NEW k \in Keys, KeyMoves(k) PROVE TurntableTypes'
    <2>1. keys' \subseteq Keys
      BY <1>1, <1>t DEF KeyMoves
    <2>2. UNCHANGED <<wiring, mousePos, vttPos, axisSeen, axisRange, vttAt, ttPort, reading, found,
                      turned, reports>>
      BY <1>1 DEF KeyMoves, positionVars, updateVars
    <2> QED
      BY <1>t, <2>1, <2>2 DEF TurntableTypes
  <1>2. ASSUME NEW counts \in MouseCounts, MouseReport(counts) PROVE TurntableTypes'
    <2> DEFINE scaled == Quotient(counts * wiring.sensitivity, 5)
    <2>1. counts \in Int /\ counts * wiring.sensitivity \in Int
      BY <1>w
    <2>2. scaled \in Int
      <3>1. PICK c : c = counts * wiring.sensitivity
        OBVIOUS
      <3>2. Quotient(c, 5) \in Int
        BY <2>1, <3>1 DEF Quotient
      <3> QED
        BY <3>1, <3>2
    <2> HIDE DEF scaled
    <2>3. mousePos' = mousePos + scaled /\ reports < MaxReports /\ reports' = reports + 1
      BY <1>2 DEF MouseReport, scaled
    <2>4. turned' = turned + (IF wiring.reverse THEN -counts ELSE counts) * wiring.sensitivity
      BY <1>2 DEF MouseReport
    <2>5. turned' \in Int
      <3>1. PICK c : c = IF wiring.reverse THEN -counts ELSE counts
        OBVIOUS
      <3>2. c \in Int
        BY <1>w, <2>1, <3>1
      <3>3. turned' = turned + c * wiring.sensitivity
        BY <2>4, <3>1
      <3> QED
        BY <1>t, <1>w, <3>2, <3>3
    <2>6. reading' \in [TTThreads -> SUBSET {"base", "vtt", "store"}]
      BY <1>2, <1>h, <1>t, BeginsTyped DEF MouseReport
    <2>7. UNCHANGED <<wiring, vttPos, axisSeen, axisRange, keys, vttAt, ttPort, found>>
      BY <1>2 DEF MouseReport
    <2>8. mousePos' \in Int /\ reports' \in 0..MaxReports
      BY <1>t, <1>w, <2>2, <2>3
    <2> QED
      BY <1>t, <2>5, <2>6, <2>7, <2>8 DEF TurntableTypes
  <1>3. ASSUME NEW raw \in AxisValues, AxisReport(raw) PROVE TurntableTypes'
    <2>1. PICK lo : lo = IF raw < axisRange[1] THEN raw ELSE axisRange[1]
      OBVIOUS
    <2>2. PICK hi : hi = IF raw > axisRange[2] THEN raw ELSE axisRange[2]
      OBVIOUS
    <2>3. raw \in Int /\ lo \in Int /\ hi \in Int /\ lo <= raw /\ raw <= hi
      <3>1. raw \in Int /\ axisRange[1] \in Int /\ axisRange[2] \in Int
        BY <1>t, <1>w
      <3> QED
        BY <2>1, <2>2, <3>1
    <2>4. axisRange' = <<lo, hi>> /\ axisSeen' = IF hi > lo THEN <<raw - lo, hi - lo>> ELSE <<1, 2>>
      BY <1>3, <2>1, <2>2 DEF AxisReport
    <2>5. axisRange' \in Int \X Int
      BY <2>3, <2>4
    <2>6. axisSeen' \in Int \X Int /\ axisSeen'[1] \in 0..axisSeen'[2] /\ axisSeen'[2] > 0
      BY <2>3, <2>4
    <2>7. reading' \in [TTThreads -> SUBSET {"base", "vtt", "store"}]
      BY <1>3, <1>h, BeginsTyped DEF AxisReport
    <2>8. UNCHANGED <<wiring, mousePos, vttPos, keys, vttAt, ttPort, found, turned, reports>>
      BY <1>3 DEF AxisReport
    <2> QED
      BY <1>t, <2>5, <2>6, <2>7, <2>8 DEF TurntableTypes
  <1>4. ASSUME NEW k \in Keys, VttKey(k) PROVE TurntableTypes'
    <2>1. PICK by : by = IF k = "plus" THEN wiring.step ELSE -wiring.step
      OBVIOUS
    <2>2. by \in Int
      BY <1>w, <2>1
    <2>3. (vttPos' = vttPos + by /\ turned' = turned + 5 * by) \/ UNCHANGED <<vttPos, turned>>
      BY <1>4, <2>1 DEF VttKey
    <2>4. vttPos' \in Int /\ turned' \in Int
      BY <1>t, <2>2, <2>3
    <2>5. vttAt' \in Keys
      <3>1. vttAt' = CHOOSE other \in Keys : other # k
        BY <1>4 DEF VttKey
      <3>2. \E other \in Keys : other # k
        BY DEF Keys
      <3> QED
        BY <3>1, <3>2
    <2>6. UNCHANGED <<wiring, mousePos, axisSeen, axisRange, keys, ttPort, reading, found, reports>>
      BY <1>4 DEF VttKey, updateVars
    <2> QED
      BY <1>t, <2>4, <2>5, <2>6 DEF TurntableTypes
  <1>5. CASE TTPollWakes
    <2>1. reading' \in [TTThreads -> SUBSET {"base", "vtt", "store"}]
      BY <1>5, <1>h, BeginsTyped DEF TTPollWakes
    <2>2. UNCHANGED <<wiring, mousePos, vttPos, axisSeen, axisRange, keys, vttAt, ttPort, found, turned, reports>>
      BY <1>5 DEF TTPollWakes, positionVars
    <2> QED
      BY <1>t, <2>1, <2>2 DEF TurntableTypes
  <1>6. ASSUME NEW t \in TTThreads, TTUpdate(t) PROVE TurntableTypes'
    <2>1. CASE ReadsBase(t)
      BY <2>1, BaseIs, ReadsTyped DEF ReadsBase
    <2>2. CASE ReadsVtt(t)
      <3>1. Position(vttPos) \in 0..255
        BY <1>t, PositionIs
      <3> QED
        BY <2>2, <3>1, ReadsTyped DEF ReadsVtt
    <2>3. CASE Stores(t)
      <3>1. PICK sum : sum = found[t].base + found[t].vtt - TT_CENTER
        OBVIOUS
      <3>2. sum \in Int
        BY <1>t, <3>1 DEF TT_CENTER
      <3>3. ttPort' = sum % 256
        BY <2>3, <3>1 DEF Stores
      <3>4. ttPort' \in 0..255
        BY <3>2, <3>3
      <3>5. reading' \in [TTThreads -> SUBSET {"base", "vtt", "store"}]
        BY <1>t, <2>3 DEF Stores
      <3>6. NothingFound \in [base : 0..256, vtt : 0..255]
        BY DEF NothingFound
      <3>7. found' \in [TTThreads -> [base : 0..256, vtt : 0..255]]
        BY <1>t, <2>3, <3>6 DEF Stores
      <3>8. UNCHANGED <<wiring, mousePos, vttPos, axisSeen, axisRange, keys, vttAt, turned, reports>>
        BY <2>3 DEF Stores, positionVars
      <3> QED
        BY <1>t, <3>4, <3>5, <3>7, <3>8 DEF TurntableTypes
    <2> QED
      BY <1>6, <2>1, <2>2, <2>3 DEF TTUpdate
  <1>7. CASE UNCHANGED ttVars
    BY <1>7, <1>t DEF ttVars, positionVars, updateVars, TurntableTypes
  <1> QED
    BY <1>1, <1>2, <1>3, <1>4, <1>5, <1>6, <1>7, <1>h DEF TurntableNext, VttThread, TTPoll, TTPump

(* Steps of the other parts are none of the turntable's.                    *)
LEMMA TurntableSteps == [GameInputNext]_inputVars => [TurntableNext]_ttVars
  BY DEF GameInputNext, PortsStep, TurntableStep, SabinStep, GoesQuiet, inputVars

(* Every part of the input keeps its types: the port of a turntable holds   *)
(* eight bits whatever was turned and reported, the scripts stay scripts,   *)
(* and Sabin owes no more than the ring holds (updatePortCache,             *)
(* getPositionSnapshot, sendButton).                                        *)
THEOREM InputTypes == GameInputSpec => []GameInputTypeOK
  <1> DEFINE Types == /\ PortTypes /\ TurntableTypes /\ SabinInv /\ SabinTyped
                      /\ part \in {"ports", "turntable", "sabin"} /\ quiet \in BOOLEAN
  <1>1. GameInputInit => Types
    BY PortTypesInit, TurntableInitTyped, SabinInvInit, SabinTypedInit DEF GameInputInit
  <1>2. Types /\ [GameInputNext]_inputVars => Types'
    <2> SUFFICES ASSUME Types, [GameInputNext]_inputVars PROVE Types'
      OBVIOUS
    <2>1. PortTypes' /\ TurntableTypes' /\ SabinInv'
      BY PortSteps, PortTypesStep, TurntableSteps, TurntableStepTyped, SabinSteps, SabinInvStep
    <2>2. SabinTyped'
      BY <2>1, SabinSteps, SabinTypedStep
    <2>3. part' \in {"ports", "turntable", "sabin"} /\ quiet' \in BOOLEAN
      BY DEF GameInputNext, GoesQuiet, inputVars
    <2> QED
      BY <2>1, <2>2, <2>3
  <1>3. Types => GameInputTypeOK
    BY SabinTypesHold DEF GameInputTypeOK, PortTypes, TurntableTypes, TurntableTypeOK
  <1> QED
    BY <1>1, <1>2, <1>3, PTL DEF GameInputSpec

=============================================================================
