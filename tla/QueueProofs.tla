---------------------------- MODULE QueueProofs ----------------------------
(***************************************************************************)
(* The linked stacks of queue.c implement the channel of CommandChannel,   *)
(* for any number of clients and commands and whatever the interleaving of *)
(* the compare-and-swap loops.                                             *)
(*                                                                         *)
(* The invariant has two halves.  LinkInv says that each head or tail      *)
(* pointer starts a chain: links that lead through distinct commands to    *)
(* NULL (to the tail that was read, while the exhaust is pushed).  The     *)
(* other half is the channel's own ownership invariant, read through the   *)
(* refinement mapping: it keeps the chains apart, so that a step which     *)
(* writes the links of one queue leaves the others as they were.  A        *)
(* recycled tail (the same command read twice, another chain below it) is  *)
(* harmless for a reason the invariant shows: a compare-and-swap that      *)
(* finds the tail it read takes, or is linked to, what the tail leads to   *)
(* now.                                                                    *)
(***************************************************************************)
EXTENDS LockFreeQueue, FiniteSetTheorems, TLAPS

C == INSTANCE CommandChannelProofs WITH
  pool <- Pool, intake <- Intake, chamber <- Chamber, exhaust <- Exhaust, render <- Render

\* No command comes twice.
Distinct(s) == \A i, j \in 1..Len(s) : s[i] = s[j] => i = j

\* The commands of a sequence.
Items(s) == {s[i] : i \in 1..Len(s)}

\* From h the links lead through the commands of s, in that order, to end.
Leads(links, h, s, end) ==
  /\ s \in Seq(Commands) /\ Distinct(s)
  /\ h = IF s = <<>> THEN end ELSE s[1]
  /\ \A i \in 1..Len(s) : links[s[i]] = IF i < Len(s) THEN s[i + 1] ELSE end

\* The commands met from h form such a chain, down to NULL.
Linked(links, h) == Leads(links, h, ChainTo(links, h, NULL), NULL)

(* Every set of numbers has a smallest. *)
LEMMA Smallest ==
  ASSUME NEW S \in SUBSET Nat, S # {}
  PROVE  \E n \in S : \A m \in S : n <= m
  <1>1. IsWellFoundedOn(OpToRel(<, Nat), Nat)
    BY NatLessThanWellFounded
  <1>2. PICK n \in S : \A m \in S : ~(<<m, n>> \in OpToRel(<, Nat))
    BY <1>1, WFMin
  <1>3. \A m \in S : ~(m < n)
    BY <1>2 DEF OpToRel
  <1> QED
    BY <1>3

\* As many numbers as the last of them.
LEMMA CountOf ==
  ASSUME NEW n \in Nat
  PROVE  Cardinality(1..n) = n
  <1>1. 1 \in Int /\ n \in Int
    OBVIOUS
  <1>2. Cardinality(1..n) = IF 1 > n THEN 0 ELSE n - 1 + 1
    BY <1>1, FS_Interval
  <1> QED
    BY <1>2

(* No chain is longer than there are commands. *)
LEMMA ChainFits ==
  ASSUME NEW s \in Seq(Commands), Distinct(s)
  PROVE  Cardinality(Commands) \in Nat /\ Len(s) <= Cardinality(Commands)
  <1>1. IsFiniteSet(Commands)
    BY QueueAssumption
  <1>2. s \in Injection(1..Len(s), Commands)
    BY DEF Distinct, Injection, IsInjective
  <1>3. Cardinality(1..Len(s)) <= Cardinality(Commands)
    BY <1>1, <1>2, FS_Injection
  <1>4. Len(s) \in Nat /\ Cardinality(1..Len(s)) = Len(s)
    BY CountOf
  <1>5. Cardinality(Commands) \in Nat
    BY <1>1, FS_CardinalityType
  <1> QED
    BY <1>3, <1>4, <1>5

(* Following the links that lead along a sequence meets that sequence. *)
LEMMA Walk ==
  ASSUME NEW links, NEW h, NEW s, NEW end, NEW stop, Leads(links, h, s, end),
         s = <<>> => end = NULL,
         \/ stop = NULL /\ end = NULL
         \/ s # <<>> /\ stop = s[Len(s)]
  PROVE  ChainTo(links, h, stop) = s
  <1> DEFINE most == Cardinality(Commands)
             Body(f) == [n \in 1..most |->
                           IF n = 1 THEN h
                           ELSE IF f[n - 1] \in {stop, NULL} THEN NULL ELSE links[f[n - 1]]]
  <1>1. /\ s \in Seq(Commands) /\ Len(s) \in Nat /\ most \in Nat /\ Len(s) <= most
        /\ \A i \in 1..Len(s) : s[i] \in Commands /\ s[i] # NULL
    BY ChainFits, QueueAssumption DEF Leads
  <1>2. h = IF s = <<>> THEN NULL ELSE s[1]
    BY DEF Leads
  <1>3. PICK all : all = [n \in 1..most |-> IF n <= Len(s) THEN s[n] ELSE NULL]
    OBVIOUS
  <1> HIDE DEF most
  <1>4. ASSUME NEW n \in 1..most
        PROVE  all[n] = IF n = 1 THEN h
                        ELSE IF all[n - 1] \in {stop, NULL} THEN NULL ELSE links[all[n - 1]]
    <2>1. CASE n = 1
      <3>1. s = <<>> <=> Len(s) = 0
        BY <1>1
      <3> QED
        BY <1>1, <1>2, <1>3, <2>1, <3>1
    <2>2. CASE n # 1 /\ n <= Len(s)
      <3>1. n - 1 \in 1..Len(s) /\ n - 1 \in 1..most /\ n - 1 < Len(s) /\ n - 1 + 1 = n
        BY <1>1, <2>2
      <3>2. all[n] = s[n] /\ all[n - 1] = s[n - 1]
        BY <1>1, <1>3, <2>2, <3>1
      <3>3. links[s[n - 1]] = s[n]
        BY <3>1 DEF Leads
      <3>4. s[n - 1] # NULL
        BY <1>1, <3>1
      <3>5. s[n - 1] # stop
        <4>1. CASE stop = NULL
          BY <3>4, <4>1
        <4>2. CASE s # <<>> /\ stop = s[Len(s)]
          <5>1. Len(s) \in 1..Len(s)
            BY <1>1, <3>1
          <5> QED
            BY <3>1, <4>2, <5>1 DEF Leads, Distinct
        <4> QED
          BY <4>1, <4>2
      <3> QED
        BY <2>2, <3>2, <3>3, <3>4, <3>5
    <2>3. CASE n # 1 /\ n = Len(s) + 1
      <3>1. n - 1 \in 1..Len(s) /\ n - 1 \in 1..most /\ n - 1 = Len(s) /\ ~(n <= Len(s))
        BY <1>1, <2>3
      <3>2. all[n] = NULL /\ all[n - 1] = s[n - 1]
        BY <1>1, <1>3, <3>1
      <3>3. links[s[n - 1]] = end
        BY <3>1 DEF Leads
      <3> QED
        BY <2>3, <3>1, <3>2, <3>3
    <2>4. CASE n # 1 /\ Len(s) + 1 < n
      <3>1. n - 1 \in 1..most /\ ~(n - 1 <= Len(s)) /\ ~(n <= Len(s))
        BY <1>1, <2>4
      <3>2. all[n] = NULL /\ all[n - 1] = NULL
        BY <1>1, <1>3, <3>1
      <3> QED
        BY <2>4, <3>2
    <2> QED
      BY <1>1, <2>1, <2>2, <2>3, <2>4
  <1>5. all = Body(all)
    BY <1>3, <1>4
  <1>6. PICK met : met = Body(met) /\ ChainTo(links, h, stop) =
          [n \in 1..Cardinality({m \in 1..most : met[m] # NULL}) |-> met[n]]
    <2>1. PICK met : met = CHOOSE f : f = Body(f)
      OBVIOUS
    <2>2. met = Body(met)
      BY <1>5, <2>1
    <2>3. ChainTo(links, h, stop) = [n \in 1..Cardinality({m \in 1..most : met[m] # NULL}) |-> met[n]]
      BY <2>1 DEF ChainTo, most
    <2> QED
      BY <2>2, <2>3
  <1>7. \A n \in 1..most : met[n] = all[n]
    <2> DEFINE Differ == {n \in 1..most : met[n] # all[n]}
    <2> SUFFICES ASSUME Differ # {} PROVE FALSE
      OBVIOUS
    <2>1. PICK n \in Differ : \A m \in Differ : n <= m
      <3>1. Differ \in SUBSET Nat
        BY <1>1
      <3> QED
        BY <3>1, Smallest
    <2>2. CASE n = 1
      BY <1>4, <1>6, <2>1, <2>2
    <2>3. CASE n # 1
      <3>1. n - 1 \in 1..most /\ ~(n <= n - 1) /\ n \in 1..most
        BY <1>1, <2>1, <2>3
      <3>2. met[n - 1] = all[n - 1]
        BY <2>1, <3>1
      <3>3. met[n] = IF met[n - 1] \in {stop, NULL} THEN NULL ELSE links[met[n - 1]]
        BY <1>6, <2>3, <3>1
      <3> QED
        BY <1>4, <2>1, <2>3, <3>1, <3>2, <3>3
    <2> QED
      BY <2>2, <2>3
  <1>8. {m \in 1..most : met[m] # NULL} = 1..Len(s)
    BY <1>1, <1>3, <1>7
  <1>9. Cardinality(1..Len(s)) = Len(s)
    BY <1>1, CountOf
  <1>10. ChainTo(links, h, stop) = [n \in 1..Len(s) |-> met[n]]
    BY <1>6, <1>8, <1>9
  <1>11. \A n \in 1..Len(s) : met[n] = s[n]
    BY <1>1, <1>3, <1>7
  <1> QED
    BY <1>1, <1>10, <1>11

\* A chain down to NULL is what following its links meets.
LEMMA LinkedBy ==
  ASSUME NEW links, NEW h, NEW s, Leads(links, h, s, NULL)
  PROVE  ChainTo(links, h, NULL) = s /\ Linked(links, h)
  BY Walk DEF Linked

-----------------------------------------------------------------------------
(* Sequences, forwards and backwards. *)

\* Two sequences with the same items are one.
LEMMA SameSequence ==
  ASSUME NEW S, NEW p \in Seq(S), NEW q \in Seq(S),
         Len(p) = Len(q), \A i \in 1..Len(q) : p[i] = q[i]
  PROVE  p = q
  OBVIOUS

\* What Reverse returns.
LEMMA Backwards ==
  ASSUME NEW S, NEW s \in Seq(S)
  PROVE  /\ Reverse(s) \in Seq(S) /\ Len(Reverse(s)) = Len(s)
         /\ \A i \in 1..Len(s) : /\ Len(s) - i + 1 \in 1..Len(s)
                                /\ Reverse(s)[i] = s[Len(s) - i + 1]
         /\ Reverse(s) = <<>> <=> s = <<>>
  BY DEF Reverse

\* Reversing a queue twice gives it back.
LEMMA ReverseTwice ==
  ASSUME NEW S, NEW s \in Seq(S)
  PROVE  Reverse(Reverse(s)) = s
  <1>1. PICK r : r = Reverse(s)
    OBVIOUS
  <1>2. PICK n : n = Len(s) /\ n \in Nat
    OBVIOUS
  <1>3. /\ r \in Seq(S) /\ Len(r) = n
        /\ \A i \in 1..n : n - i + 1 \in 1..n /\ r[i] = s[n - i + 1]
    BY <1>1, <1>2, Backwards
  <1>4. PICK t : t = Reverse(r)
    OBVIOUS
  <1>5. /\ t \in Seq(S) /\ Len(t) = n
        /\ \A i \in 1..n : t[i] = r[n - i + 1]
    BY <1>3, <1>4, Backwards
  <1>6. \A i \in 1..n : t[i] = s[i]
    <2> SUFFICES ASSUME NEW i \in 1..n PROVE t[i] = s[i]
      OBVIOUS
    <2>1. n - i + 1 \in 1..n /\ n - (n - i + 1) + 1 = i
      BY <1>2
    <2> QED
      BY <1>3, <1>5, <2>1
  <1>7. t = s
    BY <1>2, <1>5, <1>6, SameSequence
  <1> QED
    BY <1>1, <1>4, <1>7

\* A queue of commands holds commands.
LEMMA ItemsIn ==
  ASSUME NEW q \in Seq(Commands)
  PROVE  Items(q) \subseteq Commands
  BY DEF Items

\* Reversing a queue keeps its commands, each once.
LEMMA ReverseKeeps ==
  ASSUME NEW s \in Seq(Commands)
  PROVE  /\ Items(Reverse(s)) = Items(s)
         /\ Distinct(s) => Distinct(Reverse(s))
  <1>1. PICK r : r = Reverse(s)
    OBVIOUS
  <1>2. PICK n : n = Len(s) /\ n \in Nat
    OBVIOUS
  <1>3. /\ r \in Seq(Commands) /\ Len(r) = n
        /\ \A i \in 1..n : n - i + 1 \in 1..n /\ r[i] = s[n - i + 1]
    BY <1>1, <1>2, Backwards
  <1>4. \A i \in 1..n : s[i] = r[n - i + 1]
    <2> SUFFICES ASSUME NEW i \in 1..n PROVE s[i] = r[n - i + 1]
      OBVIOUS
    <2>1. n - i + 1 \in 1..n /\ n - (n - i + 1) + 1 = i
      BY <1>2
    <2> QED
      BY <1>3, <2>1
  <1>5. {r[i] : i \in 1..n} = {s[i] : i \in 1..n}
    <2>1. ASSUME NEW i \in 1..n PROVE r[i] \in {s[j] : j \in 1..n}
      BY <1>3
    <2>2. ASSUME NEW i \in 1..n PROVE s[i] \in {r[j] : j \in 1..n}
      BY <1>3, <1>4
    <2> QED
      BY <2>1, <2>2
  <1>6. ASSUME \A i, j \in 1..n : s[i] = s[j] => i = j,
               NEW i \in 1..n, NEW j \in 1..n, r[i] = r[j]
        PROVE  i = j
    <2>1. PICK a, b : a = n - i + 1 /\ b = n - j + 1
      OBVIOUS
    <2>2. a \in 1..n /\ b \in 1..n /\ r[i] = s[a] /\ r[j] = s[b]
      BY <1>3, <2>1
    <2>3. a = b
      BY <1>6, <2>2
    <2> QED
      BY <1>2, <2>1, <2>3
  <1>7. Items(r) = Items(s)
    <2>1. Items(r) = {r[i] : i \in 1..n} /\ Items(s) = {s[i] : i \in 1..n}
      BY <1>2, <1>3 DEF Items
    <2> QED
      BY <1>5, <2>1
  <1>8. Distinct(s) => Distinct(r)
    <2>1. Distinct(s) => \A i, j \in 1..n : s[i] = s[j] => i = j
      BY <1>2 DEF Distinct
    <2>2. (\A i, j \in 1..n : r[i] = r[j] => i = j) => Distinct(r)
      BY <1>3 DEF Distinct
    <2> QED
      BY <1>6, <2>1, <2>2
  <1> QED
    BY <1>1, <1>7, <1>8

\* What a concatenation holds, piece by piece.
LEMMA InTwoPieces ==
  ASSUME NEW S, NEW a \in Seq(S), NEW b \in Seq(S), NEW m, NEW k, NEW t,
         m = Len(a), k = Len(b), t = a \o b
  PROVE  /\ m \in Nat /\ k \in Nat /\ t \in Seq(S) /\ Len(t) = m + k
         /\ \A i \in 1..m : t[i] = a[i]
         /\ \A i \in 1..k : t[m + i] = b[i]
  OBVIOUS

\* A sequence that consists of two pieces is their concatenation.
LEMMA TwoPieces ==
  ASSUME NEW S, NEW a \in Seq(S), NEW b \in Seq(S), NEW t \in Seq(S),
         Len(t) = Len(a) + Len(b),
         \A i \in 1..Len(a) : t[i] = a[i],
         \A i \in 1..Len(b) : t[Len(a) + i] = b[i]
  PROVE  t = a \o b
  <1>0. PICK u : u = a \o b
    OBVIOUS
  <1>1. /\ u \in Seq(S) /\ Len(u) = Len(a) + Len(b)
        /\ \A i \in 1..Len(a) : u[i] = a[i]
        /\ \A i \in 1..Len(b) : u[Len(a) + i] = b[i]
    BY <1>0
  <1>2. ASSUME NEW i \in 1..Len(u) PROVE t[i] = u[i]
    <2>1. CASE i <= Len(a)
      BY <1>1, <2>1
    <2>2. CASE Len(a) < i
      <3>1. i - Len(a) \in 1..Len(b) /\ Len(a) + (i - Len(a)) = i
        BY <1>1, <2>2
      <3> QED
        BY <1>1, <3>1
    <2> QED
      BY <1>1, <2>1, <2>2
  <1>3. t = u
    BY <1>1, <1>2, SameSequence
  <1> QED
    BY <1>0, <1>3

\* The reverse of two queues, one after the other.
LEMMA ReverseConcat ==
  ASSUME NEW S, NEW a \in Seq(S), NEW b \in Seq(S)
  PROVE  Reverse(a \o b) = Reverse(b) \o Reverse(a)
  <1>1. PICK m, k, ab : m = Len(a) /\ k = Len(b) /\ ab = a \o b
    OBVIOUS
  <1>2. m \in Nat /\ k \in Nat /\ ab \in Seq(S) /\ Len(ab) = m + k
    BY <1>1, InTwoPieces
  <1>p. /\ \A i \in 1..m : ab[i] = a[i]
        /\ \A i \in 1..k : ab[m + i] = b[i]
    BY <1>1, InTwoPieces
  <1>3. PICK ra, rb, r : ra = Reverse(a) /\ rb = Reverse(b) /\ r = Reverse(ab)
    OBVIOUS
  <1>4. ra \in Seq(S) /\ Len(ra) = m /\ rb \in Seq(S) /\ Len(rb) = k
    BY <1>1, <1>3, Backwards
  <1>5. r \in Seq(S) /\ Len(r) = m + k
    BY <1>2, <1>3, Backwards
  <1>6. \A i \in 1..m : ra[i] = a[m - i + 1]
    BY <1>1, <1>3, Backwards
  <1>7. \A i \in 1..k : rb[i] = b[k - i + 1]
    BY <1>1, <1>3, Backwards
  <1>n. PICK n : n = m + k
    OBVIOUS
  <1>8. \A i \in 1..n : r[i] = ab[n - i + 1]
    <2>1. n = Len(ab)
      BY <1>2, <1>n
    <2>2. \A i \in 1..Len(ab) : r[i] = ab[Len(ab) - i + 1]
      BY <1>2, <1>3, Backwards
    <2> QED
      BY <2>1, <2>2
  <1>9. \A i \in 1..k : r[i] = rb[i]
    <2> SUFFICES ASSUME NEW i \in 1..k PROVE r[i] = rb[i]
      OBVIOUS
    <2>1. i \in 1..n /\ k - i + 1 \in 1..k /\ n - i + 1 = m + (k - i + 1)
      BY <1>2, <1>n
    <2>2. r[i] = ab[m + (k - i + 1)]
      BY <1>8, <2>1
    <2>3. ab[m + (k - i + 1)] = b[k - i + 1]
      BY <1>p, <2>1
    <2> QED
      BY <1>7, <2>2, <2>3
  <1>10. \A i \in 1..m : r[k + i] = ra[i]
    <2> SUFFICES ASSUME NEW i \in 1..m PROVE r[k + i] = ra[i]
      OBVIOUS
    <2>1. k + i \in 1..n /\ m - i + 1 \in 1..m /\ n - (k + i) + 1 = m - i + 1
      BY <1>2, <1>n
    <2>2. r[k + i] = ab[m - i + 1]
      BY <1>8, <2>1
    <2>3. ab[m - i + 1] = a[m - i + 1]
      BY <1>p, <2>1
    <2> QED
      BY <1>6, <2>2, <2>3
  <1>11. r = rb \o ra
    <2>1. Len(r) = Len(rb) + Len(ra)
      BY <1>2, <1>4, <1>5
    <2>2. \A i \in 1..Len(rb) : r[i] = rb[i]
      BY <1>4, <1>9
    <2>3. \A i \in 1..Len(ra) : r[Len(rb) + i] = ra[i]
      BY <1>4, <1>10
    <2>4. r \in Seq(S) /\ rb \in Seq(S) /\ ra \in Seq(S)
      BY <1>4, <1>5
    <2> QED
      BY <2>1, <2>2, <2>3, <2>4, TwoPieces
  <1> QED
    BY <1>1, <1>3, <1>11

\* What is pushed on a stack is last in its queue.
LEMMA ReversePush ==
  ASSUME NEW S, NEW s \in Seq(S), NEW c \in S
  PROVE  Reverse(<<c>> \o s) = Append(Reverse(s), c)
  <1>1. PICK one : one = <<c>>
    OBVIOUS
  <1>2. one \in Seq(S) /\ Reverse(one) = one
    BY <1>1 DEF Reverse
  <1>3. Reverse(one \o s) = Reverse(s) \o one
    BY <1>2, ReverseConcat
  <1>4. PICK r : r = Reverse(s) /\ r \in Seq(S)
    BY Backwards
  <1>5. r \o one = Append(r, c)
    BY <1>1, <1>4
  <1> QED
    BY <1>1, <1>3, <1>4, <1>5

-----------------------------------------------------------------------------
(* What each change of the links does to a chain. *)

\* No command at all.
LEMMA EmptyChain ==
  ASSUME NEW links, NEW end
  PROVE  Leads(links, end, <<>>, end)
  BY DEF Leads, Distinct

\* Links outside a chain may change.
LEMMA ChainKept ==
  ASSUME NEW links, NEW relinked, NEW h, NEW s, NEW end, Leads(links, h, s, end),
         \A i \in Items(s) : relinked[i] = links[i]
  PROVE  Leads(relinked, h, s, end)
  BY DEF Leads, Items

\* queue_shared_push.
LEMMA ChainPushed ==
  ASSUME NEW links, NEW relinked, NEW h, NEW s, NEW end, Leads(links, h, s, end),
         NEW c \in Commands, c \notin Items(s), relinked[c] = h,
         \A i \in Items(s) : relinked[i] = links[i]
  PROVE  Leads(relinked, c, <<c>> \o s, end)
  <1>1. PICK t : t = <<c>> \o s
    OBVIOUS
  <1>2. s \in Seq(Commands) /\ \A i \in 1..Len(s) : s[i] \in Items(s)
    BY DEF Leads, Items
  <1>3. PICK n : n = Len(s) /\ n \in Nat
    BY <1>2
  <1>4. t \in Seq(Commands) /\ Len(t) = n + 1 /\ t # <<>> /\ t[1] = c
    BY <1>1, <1>2, <1>3
  <1>5. \A i \in 1..n : t[i + 1] = s[i]
    BY <1>1, <1>2, <1>3
  <1>6. \A i \in 1..(n + 1) : i # 1 => i - 1 \in 1..n /\ t[i] = s[i - 1]
    <2> SUFFICES ASSUME NEW i \in 1..(n + 1), i # 1
                 PROVE  i - 1 \in 1..n /\ t[i] = s[i - 1]
      OBVIOUS
    <2>1. i - 1 \in 1..n /\ (i - 1) + 1 = i
      BY <1>3
    <2> QED
      BY <1>5, <2>1
  <1>7. Distinct(t)
    <2> SUFFICES ASSUME NEW i \in 1..(n + 1), NEW j \in 1..(n + 1), t[i] = t[j]
                 PROVE  i = j
      BY <1>4 DEF Distinct
    <2>1. CASE i # 1 /\ j # 1
      <3>1. s[i - 1] = s[j - 1] /\ i - 1 \in 1..n /\ j - 1 \in 1..n
        BY <1>6, <2>1
      <3>2. i - 1 = j - 1
        BY <1>3, <3>1 DEF Leads, Distinct
      <3> QED
        BY <1>3, <3>2
    <2>2. CASE i # 1 /\ j = 1
      BY <1>2, <1>3, <1>4, <1>6, <2>2
    <2>3. CASE i = 1 /\ j # 1
      BY <1>2, <1>3, <1>4, <1>6, <2>3
    <2> QED
      BY <2>1, <2>2, <2>3
  <1>8. ASSUME NEW i \in 1..(n + 1)
        PROVE  relinked[t[i]] = IF i < n + 1 THEN t[i + 1] ELSE end
    <2>1. CASE i = 1
      <3>1. h = IF n = 0 THEN end ELSE s[1]
        BY <1>3 DEF Leads
      <3>2. n # 0 => t[1 + 1] = s[1]
        BY <1>3, <1>5
      <3> QED
        BY <1>3, <1>4, <2>1, <3>1, <3>2
    <2>2. CASE i # 1
      <3>1. PICK k : k = i - 1 /\ k \in 1..n /\ t[i] = s[k]
        BY <1>6, <2>2
      <3>2. relinked[s[k]] = links[s[k]]
        BY <1>2, <1>3, <3>1
      <3>3. links[s[k]] = IF k < n THEN s[k + 1] ELSE end
        BY <1>3, <3>1 DEF Leads
      <3>4. k < n => t[i + 1] = s[k + 1]
        <4>1. k < n => k + 1 \in 1..n /\ (k + 1) + 1 = i + 1
          BY <1>3, <3>1
        <4> QED
          BY <1>5, <4>1
      <3>5. k < n <=> i < n + 1
        BY <1>3, <3>1
      <3>6. t[i] = s[k]
        BY <3>1
      <3> QED
        BY <3>2, <3>3, <3>4, <3>5, <3>6
    <2> QED
      BY <2>1, <2>2
  <1>9. Leads(relinked, c, t, end)
    BY <1>4, <1>7, <1>8 DEF Leads
  <1> QED
    BY <1>1, <1>9

\* queue_private_pop.
LEMMA ChainPopped ==
  ASSUME NEW links, NEW relinked, NEW h, NEW s, NEW end, Leads(links, h, s, end), s # <<>>,
         \A i \in Items(s) : i # h => relinked[i] = links[i]
  PROVE  Leads(relinked, links[h], Tail(s), end) /\ h = Head(s)
  <1>1. PICK t : t = Tail(s)
    OBVIOUS
  <1>2. /\ s \in Seq(Commands) /\ Distinct(s) /\ \A i \in 1..Len(s) : s[i] \in Items(s)
        /\ h = s[1]
    BY DEF Leads, Items
  <1>3. PICK n : Len(s) = n + 1 /\ n \in Nat
    <2>1. Len(s) - 1 \in Nat /\ Len(s) = (Len(s) - 1) + 1
      BY <1>2
    <2> QED
      BY <2>1
  <1>4. t \in Seq(Commands) /\ Len(t) = n
    BY <1>1, <1>2, <1>3
  <1>5. \A i \in 1..n : t[i] = s[i + 1] /\ i + 1 \in 1..(n + 1)
    BY <1>1, <1>2, <1>3
  <1>6. Distinct(t)
    <2> SUFFICES ASSUME NEW i \in 1..n, NEW j \in 1..n, t[i] = t[j]
                 PROVE  i = j
      BY <1>4 DEF Distinct
    <2>1. i + 1 = j + 1
      BY <1>2, <1>3, <1>5 DEF Distinct
    <2> QED
      BY <1>3, <2>1
  <1>7. ASSUME NEW i \in 1..n
        PROVE  relinked[t[i]] = IF i < n THEN t[i + 1] ELSE end
    <2>1. t[i] = s[i + 1] /\ i + 1 \in 1..(n + 1) /\ i + 1 # 1 /\ 1 \in 1..(n + 1)
      BY <1>3, <1>5
    <2>2. s[i + 1] # h
      BY <1>2, <1>3, <2>1 DEF Distinct
    <2>3. relinked[s[i + 1]] = links[s[i + 1]]
      BY <1>2, <1>3, <2>1, <2>2
    <2>4. links[s[i + 1]] = IF i + 1 < n + 1 THEN s[i + 1 + 1] ELSE end
      BY <1>3, <2>1 DEF Leads
    <2>5. i < n => i + 1 \in 1..n
      BY <1>3
    <2>6. i < n => t[i + 1] = s[i + 1 + 1]
      BY <1>5, <2>5
    <2>7. i + 1 < n + 1 <=> i < n
      BY <1>3
    <2> QED
      BY <2>1, <2>3, <2>4, <2>6, <2>7
  <1>8. links[h] = IF t = <<>> THEN end ELSE t[1]
    <2>1. links[s[1]] = IF 1 < n + 1 THEN s[1 + 1] ELSE end
      BY <1>3 DEF Leads
    <2>2. t = <<>> <=> n = 0
      BY <1>4
    <2>3. n # 0 => t[1] = s[1 + 1]
      BY <1>3, <1>5
    <2>4. 1 < n + 1 <=> n # 0
      BY <1>3
    <2> QED
      BY <1>2, <2>1, <2>2, <2>3, <2>4
  <1>9. Leads(relinked, links[h], t, end)
    BY <1>4, <1>6, <1>7, <1>8 DEF Leads
  <1>10. h = Head(s)
    BY <1>2
  <1> QED
    BY <1>1, <1>9, <1>10

\* qitem_chain_reverse; what was the head is linked to e.
\* qitem_chain_reverse, its last command linked to e.
LEMMA ChainReversed ==
  ASSUME NEW links, NEW relinked, NEW h, NEW s, NEW end, NEW e, Leads(links, h, s, end), s # <<>>,
         \A k \in 1..Len(s) : relinked[s[k]] = IF k = 1 THEN e ELSE s[k - 1]
  PROVE  Leads(relinked, s[Len(s)], Reverse(s), e)
  <1>1. PICK r : r = Reverse(s)
    OBVIOUS
  <1>2. s \in Seq(Commands) /\ Distinct(s)
    BY DEF Leads
  <1>3. PICK n : n = Len(s) /\ n \in Nat /\ n # 0
    BY <1>2
  <1>4. r \in Seq(Commands) /\ Len(r) = n /\ Distinct(r) /\ r # <<>>
    BY <1>1, <1>2, <1>3, Backwards, ReverseKeeps
  <1>5. \A i \in 1..n : n - i + 1 \in 1..n /\ r[i] = s[n - i + 1]
    BY <1>1, <1>2, <1>3, Backwards
  <1>6. ASSUME NEW i \in 1..n
        PROVE  relinked[r[i]] = IF i < n THEN r[i + 1] ELSE e
    <2>1. PICK k : k = n - i + 1 /\ k \in 1..n /\ r[i] = s[k]
      BY <1>5
    <2>k. k \in 1..n /\ r[i] = s[k]
      BY <2>1
    <2>2. relinked[s[k]] = IF k = 1 THEN e ELSE s[k - 1]
      BY <1>3, <2>k
    <2>3. k = 1 <=> ~(i < n)
      BY <1>3, <2>1
    <2>4. i < n => i + 1 \in 1..n /\ n - (i + 1) + 1 = k - 1
      BY <1>3, <2>1
    <2>5. i < n => r[i + 1] = s[k - 1]
      BY <1>5, <2>4
    <2> QED
      BY <2>k, <2>2, <2>3, <2>5
  <1>7. s[Len(s)] = r[1]
    <2>1. 1 \in 1..n /\ n - 1 + 1 = n
      BY <1>3
    <2>2. r[1] = s[n]
      BY <1>5, <2>1
    <2> QED
      BY <1>3, <2>2
  <1>8. Leads(relinked, s[Len(s)], r, e)
    BY <1>4, <1>6, <1>7 DEF Leads
  <1> QED
    BY <1>1, <1>8

\* The link of the last command is written again.
\* The last command of a chain is linked to e.
LEMMA ChainRelinked ==
  ASSUME NEW links, NEW relinked, NEW h, NEW s, NEW end, NEW e, Leads(links, h, s, end), s # <<>>,
         relinked[s[Len(s)]] = e,
         \A i \in Items(s) : i # s[Len(s)] => relinked[i] = links[i]
  PROVE  Leads(relinked, h, s, e)
  <1>1. s \in Seq(Commands) /\ Distinct(s) /\ \A i \in 1..Len(s) : s[i] \in Items(s)
    BY DEF Leads, Items
  <1>2. PICK n : n = Len(s) /\ n \in Nat /\ n # 0
    BY <1>1
  <1>3. ASSUME NEW i \in 1..n
        PROVE  relinked[s[i]] = IF i < n THEN s[i + 1] ELSE e
    <2>1. CASE i < n
      <3>1. n \in 1..n /\ i # n
        BY <1>2, <2>1
      <3>2. s[i] # s[n]
        BY <1>1, <1>2, <3>1 DEF Distinct
      <3>3. relinked[s[i]] = links[s[i]]
        BY <1>1, <1>2, <3>2
      <3>4. links[s[i]] = s[i + 1]
        BY <1>2, <2>1 DEF Leads
      <3> QED
        BY <2>1, <3>3, <3>4
    <2>2. CASE ~(i < n)
      <3>1. i = n
        BY <1>2, <2>2
      <3> QED
        BY <1>2, <2>2, <3>1
    <2> QED
      BY <2>1, <2>2
  <1> QED
    BY <1>1, <1>2, <1>3 DEF Leads

\* One chain ends where another begins.
\* A chain that leads to the head of another.
LEMMA ChainsJoined ==
  ASSUME NEW links, NEW h, NEW a, NEW g, NEW b, NEW end,
         Leads(links, h, a, g), Leads(links, g, b, end), a # <<>>, Items(a) \cap Items(b) = {}
  PROVE  Leads(links, h, a \o b, end)
  <1>1. PICK t : t = a \o b
    OBVIOUS
  <1>2. /\ a \in Seq(Commands) /\ Distinct(a) /\ \A i \in 1..Len(a) : a[i] \in Items(a)
        /\ b \in Seq(Commands) /\ Distinct(b) /\ \A i \in 1..Len(b) : b[i] \in Items(b)
    BY DEF Leads, Items
  <1>a. PICK m : m = Len(a) /\ m \in Nat /\ m # 0
    BY <1>2
  <1>b. PICK k : k = Len(b) /\ k \in Nat
    BY <1>2
  <1>3. m = Len(a) /\ k = Len(b) /\ m \in Nat /\ k \in Nat /\ m # 0
    BY <1>a, <1>b
  <1>4. t \in Seq(Commands) /\ Len(t) = m + k
    BY <1>1, <1>2, <1>3
  <1>5. /\ \A i \in 1..m : t[i] = a[i]
        /\ \A i \in 1..k : t[m + i] = b[i]
    BY <1>1, <1>2, <1>3, InTwoPieces
  <1>6. ASSUME NEW i \in 1..(m + k)
        PROVE  \/ i \in 1..m /\ t[i] = a[i] /\ t[i] \in Items(a)
               \/ i - m \in 1..k /\ t[i] = b[i - m] /\ t[i] \in Items(b)
    <2>1. CASE i <= m
      BY <1>2, <1>3, <1>5, <2>1
    <2>2. CASE m < i
      <3>1. i - m \in 1..k /\ m + (i - m) = i
        BY <1>3, <2>2
      <3> QED
        BY <1>2, <1>3, <1>5, <3>1
    <2> QED
      BY <1>3, <2>1, <2>2
  <1>7. Distinct(t)
    <2> SUFFICES ASSUME NEW i \in 1..(m + k), NEW j \in 1..(m + k), t[i] = t[j]
                 PROVE  i = j
      BY <1>4 DEF Distinct
    <2>1. CASE i \in 1..m /\ t[i] = a[i] /\ j \in 1..m /\ t[j] = a[j]
      BY <1>2, <1>3, <2>1 DEF Distinct
    <2>2. CASE i - m \in 1..k /\ t[i] = b[i - m] /\ j - m \in 1..k /\ t[j] = b[j - m]
      <3>1. i - m = j - m
        BY <1>2, <1>3, <2>2 DEF Distinct
      <3> QED
        BY <1>3, <3>1
    <2> QED
      BY <1>6, <2>1, <2>2
  <1>8. ASSUME NEW i \in 1..(m + k)
        PROVE  links[t[i]] = IF i < m + k THEN t[i + 1] ELSE end
    <2>1. CASE i < m
      <3>1. links[a[i]] = a[i + 1] /\ i \in 1..m /\ i + 1 \in 1..m
        BY <1>3, <2>1 DEF Leads
      <3>2. i < m + k
        BY <1>3, <2>1
      <3> QED
        BY <1>5, <3>1, <3>2
    <2>2. CASE i = m
      <3>1. links[a[m]] = g /\ m \in 1..m
        BY <1>3 DEF Leads
      <3>2. g = IF k = 0 THEN end ELSE b[1]
        BY <1>3 DEF Leads
      <3>3. k # 0 => t[m + 1] = b[1]
        BY <1>3, <1>5
      <3>4. i < m + k <=> k # 0
        BY <1>3, <2>2
      <3> QED
        BY <1>5, <2>2, <3>1, <3>2, <3>3, <3>4
    <2>3. CASE m < i
      <3>1. PICK j : j = i - m /\ j \in 1..k /\ m + j = i
        BY <1>3, <2>3
      <3>2. links[b[j]] = IF j < k THEN b[j + 1] ELSE end
        BY <1>3, <3>1 DEF Leads
      <3>3. t[m + j] = b[j]
        BY <1>5, <3>1
      <3>4. j < k => j + 1 \in 1..k /\ m + (j + 1) = i + 1
        BY <1>3, <3>1
      <3>5. j < k => t[i + 1] = b[j + 1]
        BY <1>5, <3>4
      <3>6. i < m + k <=> j < k
        BY <1>3, <3>1
      <3>7. t[i] = b[j]
        BY <3>1, <3>3
      <3> QED
        BY <3>2, <3>5, <3>6, <3>7
    <2> QED
      BY <1>3, <2>1, <2>2, <2>3
  <1>9. h = t[1] /\ t # <<>>
    BY <1>2, <1>3, <1>4, <1>5 DEF Leads
  <1>10. Leads(links, h, t, end)
    BY <1>4, <1>7, <1>8, <1>9 DEF Leads
  <1> QED
    BY <1>1, <1>10

-----------------------------------------------------------------------------
(* The inductive invariant. *)

\* Each queue is a chain.
IntakeLinked == Linked(next, tail["intake"])

ExhaustLinked == Linked(next, tail["exhaust"])

PoolLinked(c) ==
  Linked(next, IF allocPc[c] = "reverse" THEN allocTail[c] ELSE poolHead[c])

\* While the exhaust is pushed the chamber hangs, reversed, between revHead
\* and the tail that was read.
ChamberHangs ==
  LET back == ChainTo(next, revHead, chamberHead)
  IN  /\ Leads(next, revHead, back, renderTail)
      /\ back # <<>> /\ back[Len(back)] = chamberHead

ChamberLinked ==
  /\ renderPc = "reverse" => Linked(next, renderTail)
  /\ renderPc = "exhaust" => ChamberHangs
  /\ renderPc \notin {"reverse", "exhaust"} => Linked(next, chamberHead)

\* Only a client that exists is in the middle of an operation.
OpenShape(c) == allocPc[c] # "ready" \/ submitPc[c] # "ready" => c \in open

\* The private pool is refilled only when it is empty.
AllocShape(c) == allocPc[c] \in {"spill", "reverse"} => poolHead[c] = NULL

\* A command that is being pushed is linked to the tail that was read.
SubmitShape(c) ==
  submitPc[c] = "push" => submitCmd[c] \in held[c] /\ next[submitCmd[c]] = submitTail[c]

\* The chamber is empty between batches (queue.c:115, "assert(qp->head == NULL)").
RenderShape == renderPc \in {"wait", "intake", "reverse", "gone"} => chamberHead = NULL

LinkInv ==
  /\ TypeOK /\ IntakeLinked /\ ExhaustLinked /\ ChamberLinked /\ RenderShape
  /\ \A c \in Clients : PoolLinked(c) /\ OpenShape(c) /\ AllocShape(c) /\ SubmitShape(c)
  /\ HeldAreUnqueued

QueueInv == LinkInv /\ C!ChannelInv

-----------------------------------------------------------------------------
(* The queues that the links stand for. *)

\* A stack of shared commands, read as a queue.
LEMMA StackRead ==
  ASSUME NEW links, NEW h, NEW q \in Seq(Commands), Leads(links, h, Reverse(q), NULL)
  PROVE  Reverse(ChainTo(links, h, NULL)) = q /\ Linked(links, h)
  <1>1. ChainTo(links, h, NULL) = Reverse(q) /\ Linked(links, h)
    BY LinkedBy
  <1> QED
    BY <1>1, ReverseTwice

\* The other way round: the queue a linked stack stands for.
LEMMA StackStands ==
  ASSUME NEW links, NEW h, Linked(links, h)
  PROVE  /\ Reverse(ChainTo(links, h, NULL)) \in Seq(Commands)
         /\ Leads(links, h, Reverse(Reverse(ChainTo(links, h, NULL))), NULL)
  <1>1. PICK s : s = ChainTo(links, h, NULL)
    OBVIOUS
  <1>2. Leads(links, h, s, NULL) /\ s \in Seq(Commands)
    BY <1>1 DEF Linked, Leads
  <1>3. Reverse(s) \in Seq(Commands) /\ Reverse(Reverse(s)) = s
    BY <1>2, Backwards, ReverseTwice
  <1> QED
    BY <1>1, <1>2, <1>3

\* The shared queues and their chains.
LEMMA Standing ==
  ASSUME LinkInv
  PROVE  /\ Intake \in Seq(Commands) /\ Leads(next, tail["intake"], Reverse(Intake), NULL)
         /\ Exhaust \in Seq(Commands) /\ Leads(next, tail["exhaust"], Reverse(Exhaust), NULL)
  BY StackStands DEF LinkInv, IntakeLinked, ExhaustLinked, Intake, Exhaust, Chain

\* A private pool and its chain, or the stack that is about to become one.
LEMMA PoolStanding ==
  ASSUME LinkInv, NEW c \in Clients
  PROVE  /\ Pool[c] \in Seq(Commands)
         /\ allocPc[c] = "reverse" => Leads(next, allocTail[c], Reverse(Pool[c]), NULL)
         /\ allocPc[c] # "reverse" => Leads(next, poolHead[c], Pool[c], NULL)
  <1>1. CASE allocPc[c] = "reverse"
    <2>1. Linked(next, allocTail[c]) /\ Pool[c] = Reverse(ChainTo(next, allocTail[c], NULL))
      BY <1>1 DEF LinkInv, PoolLinked, Pool, Chain
    <2> QED
      BY <1>1, <2>1, StackStands
  <1>2. CASE allocPc[c] # "reverse"
    <2>1. Linked(next, poolHead[c]) /\ Pool[c] = ChainTo(next, poolHead[c], NULL)
      BY <1>2 DEF LinkInv, PoolLinked, Pool, Chain
    <2> QED
      BY <1>2, <2>1 DEF Linked, Leads
  <1> QED
    BY <1>1, <1>2

\* The chamber: a stack just taken, a list, or a list being given back.
LEMMA ChamberStanding ==
  ASSUME LinkInv
  PROVE  /\ Chamber \in Seq(Commands)
         /\ renderPc = "reverse" => Leads(next, renderTail, Reverse(Chamber), NULL)
         /\ renderPc = "exhaust" =>
              /\ Leads(next, revHead, Reverse(Chamber), renderTail)
              /\ Reverse(Chamber) # <<>> /\ Reverse(Chamber)[Len(Reverse(Chamber))] = chamberHead
         /\ renderPc \notin {"reverse", "exhaust"} => Leads(next, chamberHead, Chamber, NULL)
  <1>1. CASE renderPc = "reverse"
    <2>1. Linked(next, renderTail) /\ Chamber = Reverse(ChainTo(next, renderTail, NULL))
      BY <1>1 DEF LinkInv, ChamberLinked, Chamber, Chain
    <2> QED
      BY <1>1, <2>1, StackStands
  <1>2. CASE renderPc = "exhaust"
    <2>1. PICK back : back = ChainTo(next, revHead, chamberHead)
      OBVIOUS
    <2>2. /\ Leads(next, revHead, back, renderTail) /\ back \in Seq(Commands)
          /\ back # <<>> /\ back[Len(back)] = chamberHead
      BY <1>2, <2>1 DEF LinkInv, ChamberLinked, ChamberHangs, Leads
    <2>3. Chamber = Reverse(back)
      BY <1>2, <2>1 DEF Chamber
    <2>4. Reverse(back) \in Seq(Commands) /\ Reverse(Reverse(back)) = back
      BY <2>2, Backwards, ReverseTwice
    <2> QED
      BY <1>2, <2>2, <2>3, <2>4
  <1>3. CASE renderPc \notin {"reverse", "exhaust"}
    <2>1. Linked(next, chamberHead) /\ Chamber = ChainTo(next, chamberHead, NULL)
      BY <1>3 DEF LinkInv, ChamberLinked, Chamber, Chain
    <2> QED
      BY <1>3, <2>1 DEF Linked, Leads
  <1> QED
    BY <1>1, <1>2, <1>3

(* What the places own is apart. *)
LEMMA Apart ==
  ASSUME C!ChannelInv
  PROVE  /\ Items(Intake) \cap Items(Chamber) = {} /\ Items(Intake) \cap Items(Exhaust) = {}
         /\ Items(Chamber) \cap Items(Exhaust) = {}
         /\ free \subseteq Commands
         /\ free \cap (Items(Intake) \union Items(Chamber) \union Items(Exhaust)) = {}
         /\ \A c \in Clients :
              /\ held[c] \subseteq Commands
              /\ (held[c] \union Items(Pool[c]))
                   \cap (free \union Items(Intake) \union Items(Chamber) \union Items(Exhaust)) = {}
              /\ held[c] \cap Items(Pool[c]) = {}
              /\ \A d \in Clients : c # d =>
                   (held[c] \union Items(Pool[c])) \cap (held[d] \union Items(Pool[d])) = {}
  <1>1. \A q : C!Items(q) = Items(q)
    BY DEF C!Items, Items
  <1> QED
    BY <1>1 DEF C!ChannelInv, C!ChannelTypeOK, C!OwnedOnce, C!SharedPlacesDisjoint,
       C!ClientPlacesDisjoint, C!Owned, C!Shared

-----------------------------------------------------------------------------
(* A step that writes only the links of T leaves alone the queues that     *)
(* hold no command of T and whose ends it does not move.                   *)
Elsewhere(T) == \A i \in Commands \ T : next'[i] = next[i]

\* The intake is left alone.
LEMMA IntakeKept ==
  ASSUME LinkInv, NEW T, Elsewhere(T), T \cap Items(Intake) = {}, tail'["intake"] = tail["intake"]
  PROVE  Intake' = Intake /\ IntakeLinked'
  <1>1. Intake \in Seq(Commands) /\ Leads(next, tail["intake"], Reverse(Intake), NULL)
    BY Standing
  <1>2. Items(Reverse(Intake)) = Items(Intake) /\ Items(Intake) \subseteq Commands
    BY <1>1, ReverseKeeps, ItemsIn
  <1>3. Leads(next', tail["intake"], Reverse(Intake), NULL)
    BY <1>1, <1>2, ChainKept DEF Elsewhere
  <1>4. Reverse(ChainTo(next', tail["intake"], NULL)) = Intake /\ Linked(next', tail["intake"])
    BY <1>1, <1>3, StackRead
  <1> QED
    BY <1>4 DEF Intake, IntakeLinked, Chain

\* The exhaust is left alone.
LEMMA ExhaustKept ==
  ASSUME LinkInv, NEW T, Elsewhere(T), T \cap Items(Exhaust) = {}, tail'["exhaust"] = tail["exhaust"]
  PROVE  Exhaust' = Exhaust /\ ExhaustLinked'
  <1>1. Exhaust \in Seq(Commands) /\ Leads(next, tail["exhaust"], Reverse(Exhaust), NULL)
    BY Standing
  <1>2. Items(Reverse(Exhaust)) = Items(Exhaust) /\ Items(Exhaust) \subseteq Commands
    BY <1>1, ReverseKeeps, ItemsIn
  <1>3. Leads(next', tail["exhaust"], Reverse(Exhaust), NULL)
    BY <1>1, <1>2, ChainKept DEF Elsewhere
  <1>4. Reverse(ChainTo(next', tail["exhaust"], NULL)) = Exhaust /\ Linked(next', tail["exhaust"])
    BY <1>1, <1>3, StackRead
  <1> QED
    BY <1>4 DEF Exhaust, ExhaustLinked, Chain

\* A pool is left alone.
LEMMA PoolKept ==
  ASSUME LinkInv, NEW T, Elsewhere(T), NEW c \in Clients, T \cap Items(Pool[c]) = {},
         allocPc'[c] = "reverse" <=> allocPc[c] = "reverse",
         allocPc[c] = "reverse" => allocTail'[c] = allocTail[c],
         allocPc[c] # "reverse" => poolHead'[c] = poolHead[c]
  PROVE  Pool'[c] = Pool[c] /\ PoolLinked(c)'
  <1>0. Pool[c] \in Seq(Commands)
    BY PoolStanding
  <1>t. Items(Pool[c]) \subseteq Commands
    BY <1>0, ItemsIn
  <1>1. CASE allocPc[c] = "reverse"
    <2>1. Leads(next, allocTail[c], Reverse(Pool[c]), NULL)
      BY <1>1, PoolStanding
    <2>2. Items(Reverse(Pool[c])) = Items(Pool[c])
      BY <1>0, ReverseKeeps
    <2>3. Leads(next', allocTail[c], Reverse(Pool[c]), NULL)
      BY <1>t, <2>1, <2>2, ChainKept DEF Elsewhere
    <2>4. Reverse(ChainTo(next', allocTail[c], NULL)) = Pool[c] /\ Linked(next', allocTail[c])
      BY <1>0, <2>3, StackRead
    <2> QED
      BY <1>1, <2>4 DEF Pool, PoolLinked, Chain
  <1>2. CASE allocPc[c] # "reverse"
    <2>1. Leads(next', poolHead[c], Pool[c], NULL)
      BY <1>t, <1>2, PoolStanding, ChainKept DEF Elsewhere
    <2>2. ChainTo(next', poolHead[c], NULL) = Pool[c] /\ Linked(next', poolHead[c])
      BY <2>1, LinkedBy
    <2> QED
      BY <1>2, <2>2 DEF Pool, PoolLinked, Chain
  <1> QED
    BY <1>1, <1>2

\* The chamber is left alone.
LEMMA ChamberKept ==
  ASSUME LinkInv, NEW T, Elsewhere(T), T \cap Items(Chamber) = {}, UNCHANGED renderVars
  PROVE  Chamber' = Chamber /\ ChamberLinked' /\ Render' = Render
  <1>0. Chamber \in Seq(Commands)
    BY ChamberStanding
  <1>t. Items(Chamber) \subseteq Commands /\ Items(Reverse(Chamber)) = Items(Chamber)
    BY <1>0, ReverseKeeps, ItemsIn
  <1>u. /\ chamberHead' = chamberHead /\ renderPc' = renderPc
        /\ renderTail' = renderTail /\ revHead' = revHead
    BY DEF renderVars
  <1>r. Render' = Render
    BY <1>u DEF Render
  <1>1. CASE renderPc = "reverse"
    <2>1. Leads(next', renderTail, Reverse(Chamber), NULL)
      BY <1>t, <1>1, ChamberStanding, ChainKept DEF Elsewhere
    <2>2. Reverse(ChainTo(next', renderTail, NULL)) = Chamber /\ Linked(next', renderTail)
      BY <1>0, <2>1, StackRead
    <2> QED
      BY <1>u, <1>r, <1>1, <2>2 DEF Chamber, ChamberLinked, Chain
  <1>2. CASE renderPc = "exhaust"
    <2>1. PICK back : back = Reverse(Chamber)
      OBVIOUS
    <2>2. /\ Leads(next, revHead, back, renderTail)
          /\ back # <<>> /\ back[Len(back)] = chamberHead
      BY <1>2, <2>1, ChamberStanding
    <2>3. Leads(next', revHead, back, renderTail)
      BY <1>t, <2>1, <2>2, ChainKept DEF Elsewhere
    <2>4. ChainTo(next', revHead, chamberHead) = back
      BY <2>2, <2>3, Walk
    <2>5. Reverse(back) = Chamber
      BY <1>0, <2>1, ReverseTwice
    <2>6. Chamber' = Chamber
      BY <1>u, <1>2, <2>4, <2>5 DEF Chamber
    <2>7. ChamberHangs'
      BY <1>u, <2>2, <2>3, <2>4 DEF ChamberHangs
    <2> QED
      BY <1>u, <1>r, <1>2, <2>6, <2>7 DEF ChamberLinked
  <1>3. CASE renderPc \notin {"reverse", "exhaust"}
    <2>1. Leads(next', chamberHead, Chamber, NULL)
      BY <1>t, <1>3, ChamberStanding, ChainKept DEF Elsewhere
    <2>2. ChainTo(next', chamberHead, NULL) = Chamber /\ Linked(next', chamberHead)
      BY <2>1, LinkedBy
    <2>3. Chamber' = Chamber
      BY <1>u, <1>3, <2>2 DEF Chamber, Chain
    <2> QED
      BY <1>u, <1>r, <1>3, <2>2, <2>3 DEF ChamberLinked
  <1> QED
    BY <1>1, <1>2, <1>3

-----------------------------------------------------------------------------
(* Several queues at once. *)

\* The shared queues and the chamber are left alone.
LEMMA SharedKept ==
  ASSUME LinkInv, NEW T, Elsewhere(T), T \cap Items(Intake) = {}, T \cap Items(Exhaust) = {},
         T \cap Items(Chamber) = {}, UNCHANGED <<tail, renderVars>>
  PROVE  /\ UNCHANGED <<Intake, Exhaust, Chamber, Render>>
         /\ IntakeLinked' /\ ExhaustLinked' /\ ChamberLinked' /\ RenderShape'
  <1>1. Intake' = Intake /\ IntakeLinked'
    BY IntakeKept
  <1>2. Exhaust' = Exhaust /\ ExhaustLinked'
    BY ExhaustKept
  <1>3. Chamber' = Chamber /\ ChamberLinked' /\ Render' = Render
    BY ChamberKept
  <1>4. RenderShape'
    BY DEF LinkInv, RenderShape, renderVars
  <1> QED
    BY <1>1, <1>2, <1>3, <1>4

\* Some of the pools are left alone.
LEMMA PoolsKept ==
  ASSUME LinkInv, NEW T, Elsewhere(T), NEW D \in SUBSET Clients,
         \A d \in D : /\ T \cap Items(Pool[d]) = {}
                     /\ allocPc'[d] = allocPc[d] /\ allocTail'[d] = allocTail[d]
                     /\ poolHead'[d] = poolHead[d]
  PROVE  \A d \in D : Pool'[d] = Pool[d] /\ PoolLinked(d)'
  <1> SUFFICES ASSUME NEW d \in D PROVE Pool'[d] = Pool[d] /\ PoolLinked(d)'
    OBVIOUS
  <1>1. d \in Clients
    OBVIOUS
  <1> QED
    BY <1>1, PoolKept

\* No pool changes.
LEMMA PoolSame ==
  ASSUME \A c \in Clients : Pool'[c] = Pool[c]
  PROVE  Pool' = Pool
  BY DEF Pool

\* One pool changes.
LEMMA PoolBut ==
  ASSUME NEW c \in Clients, NEW q, Pool'[c] = q,
         \A d \in Clients \ {c} : Pool'[d] = Pool[d]
  PROVE  Pool' = [Pool EXCEPT ![c] = q]
  BY DEF Pool

\* qitem_chain_reverse, on the model's own terms.
LEMMA Reversing ==
  ASSUME TypeOK, NEW h, NEW s, Leads(next, h, s, NULL)
  PROVE  /\ ReversedLinks(h) \in [Commands -> Pointer]
         /\ ReversedHead(h) = IF s = <<>> THEN NULL ELSE s[Len(s)]
         /\ \A i \in Commands : i \notin Items(s) => ReversedLinks(h)[i] = next[i]
         /\ \A k \in 1..Len(s) : ReversedLinks(h)[s[k]] = IF k = 1 THEN NULL ELSE s[k - 1]
         /\ Leads(ReversedLinks(h), ReversedHead(h), Reverse(s), NULL)
  <1>1. Chain(h) = s
    BY LinkedBy DEF Chain
  <1>2. s \in Seq(Commands) /\ Distinct(s) /\ h = (IF s = <<>> THEN NULL ELSE s[1])
    BY DEF Leads
  <1>3. PICK n : n = Len(s) /\ n \in Nat /\ DOMAIN s = 1..n
    BY <1>2
  <1>4. \A k \in 1..n : s[k] \in Commands
    BY <1>2, <1>3
  <1>5. PICK R : R = ReversedLinks(h)
    OBVIOUS
  <1>6. R = [i \in Commands |->
               IF \E k \in 1..n : s[k] = i
               THEN LET k == CHOOSE k \in 1..n : s[k] = i
                    IN  IF k = 1 THEN NULL ELSE s[k - 1]
               ELSE next[i]]
    BY <1>1, <1>3, <1>5 DEF ReversedLinks
  <1>7. \A k \in 1..n : R[s[k]] = IF k = 1 THEN NULL ELSE s[k - 1]
    <2> SUFFICES ASSUME NEW k \in 1..n
                 PROVE  R[s[k]] = IF k = 1 THEN NULL ELSE s[k - 1]
      OBVIOUS
    <2>1. PICK j : j = CHOOSE m \in 1..n : s[m] = s[k]
      OBVIOUS
    <2>2. j \in 1..n /\ s[j] = s[k]
      BY <2>1
    <2>3. j = k
      BY <1>2, <1>3, <2>2 DEF Distinct
    <2>4. R[s[k]] = IF j = 1 THEN NULL ELSE s[j - 1]
      BY <1>4, <1>6, <2>1
    <2> QED
      BY <2>3, <2>4
  <1>8. \A i \in Commands : i \notin Items(s) => R[i] = next[i]
    BY <1>3, <1>6 DEF Items
  <1>9. R \in [Commands -> Pointer]
    <2>1. ASSUME NEW i \in Commands PROVE R[i] \in Pointer
      <3>1. CASE i \in Items(s)
        <4>1. PICK k \in 1..n : i = s[k]
          BY <1>3, <3>1 DEF Items
        <4>2. k # 1 => k - 1 \in 1..n
          BY <1>3
        <4> QED
          BY <1>4, <1>7, <4>1, <4>2 DEF Pointer
      <3>2. CASE i \notin Items(s)
        BY <1>8, <3>2 DEF TypeOK
      <3> QED
        BY <3>1, <3>2
    <2> QED
      BY <1>6, <2>1
  <1>10. ReversedHead(h) = IF s = <<>> THEN NULL ELSE s[Len(s)]
    <2>1. s # <<>> => s[1] # NULL
      BY <1>2, QueueAssumption
    <2> QED
      BY <1>1, <1>2, <2>1 DEF ReversedHead, Last
  <1>11. Leads(R, ReversedHead(h), Reverse(s), NULL)
    <2>1. CASE s = <<>>
      <3>1. Reverse(s) = <<>>
        BY <1>2, <2>1, Backwards
      <3> QED
        BY <1>10, <2>1, <3>1, EmptyChain
    <2>2. CASE s # <<>>
      <3>1. \A k \in 1..Len(s) : R[s[k]] = IF k = 1 THEN NULL ELSE s[k - 1]
        BY <1>3, <1>7
      <3>2. Leads(R, s[Len(s)], Reverse(s), NULL)
        BY <2>2, <3>1, ChainReversed
      <3> QED
        BY <1>10, <2>2, <3>2
    <2> QED
      BY <2>1, <2>2
  <1> QED
    BY <1>3, <1>5, <1>7, <1>8, <1>9, <1>10, <1>11

-----------------------------------------------------------------------------
(* The steps: each keeps the links and is a step of the channel, or none.  *)

\* What a client holds is not touched.
LEMMA HeldKept ==
  ASSUME LinkInv, NEW T, Elsewhere(T), UNCHANGED <<held, submitPc, submitCmd, submitTail>>,
         \A c \in Clients : T \cap held[c] = {} /\ held[c] \subseteq Commands
  PROVE  HeldAreUnqueued' /\ \A c \in Clients : SubmitShape(c)'
  <1>1. HeldAreUnqueued'
    <2> SUFFICES ASSUME NEW c \in Clients, NEW cmd \in held[c]
                 PROVE  next'[cmd] = cmd \/ (submitPc[c] = "push" /\ submitCmd[c] = cmd)
      BY DEF HeldAreUnqueued
    <2>1. next'[cmd] = next[cmd]
      BY DEF Elsewhere
    <2> QED
      BY <2>1 DEF LinkInv, HeldAreUnqueued
  <1>2. ASSUME NEW c \in Clients PROVE SubmitShape(c)'
    BY DEF LinkInv, SubmitShape, Elsewhere
  <1> QED
    BY <1>1, <1>2

\* Nothing is linked anew.
LEMMA NoLinkWritten ==
  ASSUME QueueInv, next' = next
  PROVE  /\ Elsewhere({})
         /\ \A c \in Clients : {} \cap held[c] = {} /\ held[c] \subseteq Commands
         /\ \A c \in Clients : {} \cap Items(Pool[c]) = {}
         /\ {} \cap Items(Intake) = {} /\ {} \cap Items(Exhaust) = {} /\ {} \cap Items(Chamber) = {}
  BY Apart DEF QueueInv, Elsewhere

\* A new client has nothing.
LEMMA OpenClientStep ==
  ASSUME QueueInv, NEW c \in Clients, OpenClient(c)
  PROVE  LinkInv' /\ [C!Next]_C!channelVars
  <1> USE DEF OpenClient, clientVars
  <1>1. LinkInv /\ next' = next
    BY DEF QueueInv
  <1>2. /\ UNCHANGED <<Intake, Exhaust, Chamber, Render>>
        /\ IntakeLinked' /\ ExhaustLinked' /\ ChamberLinked' /\ RenderShape'
    BY <1>1, NoLinkWritten, SharedKept
  <1>3. \A d \in Clients : Pool'[d] = Pool[d] /\ PoolLinked(d)'
    BY <1>1, NoLinkWritten, PoolsKept
  <1>4. HeldAreUnqueued' /\ \A d \in Clients : SubmitShape(d)'
    BY <1>1, NoLinkWritten, HeldKept
  <1>5. TypeOK'
    BY <1>1 DEF LinkInv, TypeOK, renderVars
  <1>6. ASSUME NEW d \in Clients PROVE OpenShape(d)' /\ AllocShape(d)'
    BY <1>1 DEF LinkInv, OpenShape, AllocShape
  <1>7. LinkInv'
    BY <1>2, <1>3, <1>4, <1>5, <1>6 DEF LinkInv
  <1>8. Pool' = Pool
    BY <1>3, PoolSame
  <1>9. C!OpenClient(c)
    BY <1>2, <1>8 DEF C!OpenClient
  <1> QED
    BY <1>7, <1>9 DEF C!Next, C!ClientStep

\* Only pointers are read.
LEMMA AllocBeginStep ==
  ASSUME QueueInv, NEW c \in Clients, AllocBegin(c)
  PROVE  LinkInv' /\ [C!Next]_C!channelVars
  <1>1. LinkInv /\ next' = next /\ TypeOK
    BY DEF QueueInv, LinkInv, AllocBegin
  <1>2. /\ UNCHANGED <<Intake, Exhaust, Chamber, Render>>
        /\ IntakeLinked' /\ ExhaustLinked' /\ ChamberLinked' /\ RenderShape'
    BY <1>1, NoLinkWritten, SharedKept DEF AllocBegin
  <1>3. ASSUME NEW d \in Clients PROVE Pool'[d] = Pool[d] /\ PoolLinked(d)'
    <2>1. allocPc'[d] = "reverse" <=> allocPc[d] = "reverse"
      BY <1>1 DEF AllocBegin, TypeOK
    <2>2. allocPc[d] = "reverse" => allocTail'[d] = allocTail[d]
      BY <1>1 DEF AllocBegin, TypeOK
    <2>3. poolHead'[d] = poolHead[d]
      BY DEF AllocBegin
    <2> QED
      BY <1>1, <2>1, <2>2, <2>3, NoLinkWritten, PoolKept
  <1>4. HeldAreUnqueued' /\ \A d \in Clients : SubmitShape(d)'
    BY <1>1, NoLinkWritten, HeldKept DEF AllocBegin
  <1>5. TypeOK'
    <2>1. /\ allocPc' \in [Clients -> {"ready", "take", "spill", "reverse"}]
          /\ allocTail' \in [Clients -> Pointer]
      BY <1>1 DEF AllocBegin, TypeOK
    <2>2. UNCHANGED <<next, tail, poolHead, submitPc, submitTail, submitCmd, renderVars>>
      BY DEF AllocBegin
    <2> QED
      BY <1>1, <2>1, <2>2 DEF TypeOK, renderVars
  <1>6. ASSUME NEW d \in Clients PROVE OpenShape(d)' /\ AllocShape(d)'
    BY <1>1 DEF LinkInv, TypeOK, OpenShape, AllocShape, AllocBegin
  <1>7. LinkInv'
    BY <1>2, <1>3, <1>4, <1>5, <1>6 DEF LinkInv
  <1>8. Pool' = Pool
    BY <1>3, PoolSame
  <1>9. UNCHANGED C!channelVars
    BY <1>2, <1>8 DEF C!channelVars, AllocBegin
  <1> QED
    BY <1>7, <1>9

\* The compare-and-swap gives the client the whole exhaust; a lost one nothing.
LEMMA AllocSpillStep ==
  ASSUME QueueInv, NEW c \in Clients, AllocSpill(c)
  PROVE  LinkInv' /\ [C!Next]_C!channelVars
  <1>1. LinkInv /\ next' = next /\ TypeOK
    BY DEF QueueInv, LinkInv, AllocSpill
  <1>a. c \in open /\ poolHead[c] = NULL /\ allocPc[c] = "spill"
    BY <1>1 DEF LinkInv, OpenShape, AllocShape, AllocSpill
  <1>2. /\ Intake' = Intake /\ IntakeLinked'
        /\ Chamber' = Chamber /\ ChamberLinked' /\ Render' = Render /\ RenderShape'
    <2>1. tail'["intake"] = tail["intake"]
      BY <1>1 DEF AllocSpill, TypeOK
    <2>2. Intake' = Intake /\ IntakeLinked'
      BY <1>1, <2>1, NoLinkWritten, IntakeKept
    <2>3. Chamber' = Chamber /\ ChamberLinked' /\ Render' = Render
      BY <1>1, NoLinkWritten, ChamberKept DEF AllocSpill
    <2>4. RenderShape'
      BY <1>1 DEF LinkInv, RenderShape, AllocSpill, renderVars
    <2> QED
      BY <2>2, <2>3, <2>4
  <1>3. ASSUME NEW d \in Clients \ {c} PROVE Pool'[d] = Pool[d] /\ PoolLinked(d)'
    <2>1. allocPc'[d] = allocPc[d] /\ allocTail'[d] = allocTail[d] /\ poolHead'[d] = poolHead[d]
      BY <1>1 DEF AllocSpill, TypeOK
    <2> QED
      BY <1>1, <2>1, NoLinkWritten, PoolKept
  <1>4. HeldAreUnqueued' /\ \A d \in Clients : SubmitShape(d)'
    BY <1>1, NoLinkWritten, HeldKept DEF AllocSpill
  <1>5. TypeOK'
    <2>1. /\ allocPc' \in [Clients -> {"ready", "take", "spill", "reverse"}]
          /\ allocTail' \in [Clients -> Pointer]
          /\ tail' \in [{"intake", "exhaust"} -> Pointer]
      BY <1>1 DEF AllocSpill, TypeOK, Pointer
    <2>2. UNCHANGED <<next, poolHead, submitPc, submitTail, submitCmd, renderVars>>
      BY DEF AllocSpill
    <2> QED
      BY <1>1, <2>1, <2>2 DEF TypeOK, renderVars
  <1>6. ASSUME NEW d \in Clients PROVE OpenShape(d)' /\ AllocShape(d)'
    BY <1>1 DEF LinkInv, TypeOK, OpenShape, AllocShape, AllocSpill
  <1>7. CASE tail["exhaust"] = allocTail[c]
    <2>1. allocPc'[c] = "reverse" /\ allocTail'[c] = tail["exhaust"] /\ tail'["exhaust"] = NULL
      BY <1>1, <1>7 DEF AllocSpill, TypeOK
    <2>2. Exhaust \in Seq(Commands) /\ Leads(next', allocTail'[c], Reverse(Exhaust), NULL)
      BY <1>1, <2>1, Standing
    <2>3. Reverse(ChainTo(next', allocTail'[c], NULL)) = Exhaust /\ Linked(next', allocTail'[c])
      BY <2>2, StackRead
    <2>4. Pool'[c] = Exhaust /\ PoolLinked(c)'
      BY <2>1, <2>3 DEF Pool, PoolLinked, Chain
    <2>5. Exhaust' = <<>> /\ ExhaustLinked'
      <3>1. Leads(next', NULL, <<>>, NULL) /\ Reverse(<<>>) = <<>>
        BY EmptyChain DEF Reverse
      <3>2. ChainTo(next', NULL, NULL) = <<>> /\ Linked(next', NULL)
        BY <3>1, LinkedBy
      <3> QED
        BY <2>1, <3>1, <3>2 DEF Exhaust, ExhaustLinked, Chain
    <2>6. Pool[c] = <<>>
      <3>1. Leads(next, NULL, Pool[c], NULL)
        BY <1>1, <1>a, PoolStanding
      <3> QED
        BY <3>1, QueueAssumption DEF Leads
    <2>7. Pool' = [Pool EXCEPT ![c] = Exhaust]
      BY <1>3, <2>4, PoolBut
    <2>8. C!SpillExhaust(c)
      BY <1>a, <1>2, <2>5, <2>6, <2>7 DEF C!SpillExhaust, AllocSpill
    <2>9. LinkInv'
      BY <1>2, <1>3, <1>4, <1>5, <1>6, <2>4, <2>5 DEF LinkInv
    <2> QED
      BY <2>8, <2>9 DEF C!Next, C!ClientStep
  <1>8. CASE tail["exhaust"] # allocTail[c]
    <2>1. tail' = tail /\ allocPc' = allocPc /\ poolHead' = poolHead
      BY <1>8 DEF AllocSpill
    <2>2. Exhaust' = Exhaust /\ ExhaustLinked'
      BY <1>1, <2>1, NoLinkWritten, ExhaustKept
    <2>3. Pool'[c] = Pool[c] /\ PoolLinked(c)'
      BY <1>1, <1>a, <2>1, NoLinkWritten, PoolKept
    <2>4. Pool' = Pool
      BY <1>3, <2>3, PoolSame
    <2>5. LinkInv'
      BY <1>2, <1>3, <1>4, <1>5, <1>6, <2>2, <2>3 DEF LinkInv
    <2>6. UNCHANGED C!channelVars
      BY <1>2, <2>2, <2>4 DEF C!channelVars, AllocSpill
    <2> QED
      BY <2>5, <2>6
  <1> QED
    BY <1>7, <1>8

\* The stack that was taken becomes the pool, oldest command first: the pool
\* does not notice.
LEMMA AllocReverseStep ==
  ASSUME QueueInv, NEW c \in Clients, AllocReverse(c)
  PROVE  LinkInv' /\ [C!Next]_C!channelVars
  <1>1. LinkInv /\ TypeOK /\ allocPc[c] = "reverse"
    BY DEF QueueInv, LinkInv, AllocReverse
  <1>2. PICK q : q = Pool[c]
    OBVIOUS
  <1>3. /\ q \in Seq(Commands) /\ Leads(next, allocTail[c], Reverse(q), NULL)
        /\ Reverse(q) \in Seq(Commands) /\ Reverse(Reverse(q)) = q
        /\ Items(Reverse(q)) = Items(q)
    BY <1>1, <1>2, PoolStanding, Backwards, ReverseTwice, ReverseKeeps
  <1>4. /\ next' \in [Commands -> Pointer]
        /\ \A i \in Commands : i \notin Items(q) => next'[i] = next[i]
        /\ Leads(next', ReversedHead(allocTail[c]), q, NULL)
    BY <1>1, <1>3, Reversing DEF AllocReverse
  <1>5. Elsewhere(Items(q))
    BY <1>4 DEF Elsewhere
  <1>6. /\ Items(q) \cap Items(Intake) = {} /\ Items(q) \cap Items(Exhaust) = {}
        /\ Items(q) \cap Items(Chamber) = {}
        /\ \A d \in Clients : Items(q) \cap held[d] = {} /\ held[d] \subseteq Commands
        /\ \A d \in Clients \ {c} : Items(q) \cap Items(Pool[d]) = {}
    BY <1>2, Apart DEF QueueInv
  <1>7. /\ UNCHANGED <<Intake, Exhaust, Chamber, Render>>
        /\ IntakeLinked' /\ ExhaustLinked' /\ ChamberLinked' /\ RenderShape'
    BY <1>1, <1>5, <1>6, SharedKept DEF AllocReverse
  <1>8. ASSUME NEW d \in Clients \ {c} PROVE Pool'[d] = Pool[d] /\ PoolLinked(d)'
    <2>1. allocPc'[d] = allocPc[d] /\ allocTail'[d] = allocTail[d] /\ poolHead'[d] = poolHead[d]
      BY <1>1 DEF AllocReverse, TypeOK
    <2> QED
      BY <1>1, <1>5, <1>6, <2>1, PoolKept
  <1>9. Pool'[c] = Pool[c] /\ PoolLinked(c)'
    <2>1. poolHead'[c] = ReversedHead(allocTail[c]) /\ allocPc'[c] = "take"
      BY <1>1 DEF AllocReverse, TypeOK
    <2>2. ChainTo(next', poolHead'[c], NULL) = q /\ Linked(next', poolHead'[c])
      BY <1>4, <2>1, LinkedBy
    <2> QED
      BY <1>2, <2>1, <2>2 DEF Pool, PoolLinked, Chain
  <1>10. HeldAreUnqueued' /\ \A d \in Clients : SubmitShape(d)'
    BY <1>1, <1>5, <1>6, HeldKept DEF AllocReverse
  <1>11. TypeOK'
    <2>1. ReversedHead(allocTail[c]) \in Pointer
      <3>1. ReversedHead(allocTail[c]) = IF q = <<>> THEN NULL ELSE q[1]
        BY <1>4 DEF Leads
      <3> QED
        BY <1>3, <3>1 DEF Pointer
    <2>2. /\ allocPc' \in [Clients -> {"ready", "take", "spill", "reverse"}]
          /\ allocTail' \in [Clients -> Pointer] /\ poolHead' \in [Clients -> Pointer]
      BY <1>1, <2>1 DEF AllocReverse, TypeOK, Pointer
    <2>3. UNCHANGED <<tail, submitPc, submitTail, submitCmd, renderVars>>
      BY DEF AllocReverse
    <2> QED
      BY <1>1, <1>4, <2>2, <2>3 DEF TypeOK, renderVars
  <1>12. ASSUME NEW d \in Clients PROVE OpenShape(d)' /\ AllocShape(d)'
    BY <1>1 DEF LinkInv, TypeOK, OpenShape, AllocShape, AllocReverse
  <1>13. LinkInv'
    BY <1>7, <1>8, <1>9, <1>10, <1>11, <1>12 DEF LinkInv
  <1>14. Pool' = Pool
    BY <1>8, <1>9, PoolSame
  <1>15. UNCHANGED C!channelVars
    BY <1>7, <1>14 DEF C!channelVars, AllocReverse
  <1> QED
    BY <1>13, <1>15

\* The oldest command of the pool goes to the client, linked to itself.
LEMMA AllocPopStep ==
  ASSUME QueueInv, NEW c \in Clients, AllocPop(c)
  PROVE  LinkInv' /\ [C!Next]_C!channelVars
  <1>1. LinkInv /\ TypeOK /\ allocPc[c] = "take"
    BY DEF QueueInv, LinkInv, AllocPop
  <1>2. PICK cmd, q : cmd = poolHead[c] /\ q = Pool[c]
    OBVIOUS
  <1>3. cmd # NULL /\ next' = [next EXCEPT ![cmd] = cmd] /\ poolHead'[c] = next[cmd]
    BY <1>1, <1>2 DEF AllocPop, TypeOK
  <1>4. q \in Seq(Commands) /\ Leads(next, cmd, q, NULL)
    BY <1>1, <1>2, PoolStanding
  <1>5. q # <<>> /\ cmd \in Items(q) /\ cmd \in Commands
    <2>1. q # <<>> /\ cmd = q[1]
      BY <1>3, <1>4 DEF Leads
    <2> QED
      BY <1>4, <2>1 DEF Items
  <1>6. Elsewhere({cmd}) /\ next' \in [Commands -> Pointer] /\ next'[cmd] = cmd
    BY <1>1, <1>3, <1>5 DEF Elsewhere, TypeOK, Pointer
  <1>7. /\ {cmd} \cap Items(Intake) = {} /\ {cmd} \cap Items(Exhaust) = {}
        /\ {cmd} \cap Items(Chamber) = {}
        /\ \A d \in Clients : cmd \notin held[d] /\ held[d] \subseteq Commands
        /\ \A d \in Clients \ {c} : {cmd} \cap Items(Pool[d]) = {}
    BY <1>2, <1>5, Apart DEF QueueInv
  <1>8. /\ UNCHANGED <<Intake, Exhaust, Chamber, Render>>
        /\ IntakeLinked' /\ ExhaustLinked' /\ ChamberLinked' /\ RenderShape'
    BY <1>1, <1>6, <1>7, SharedKept DEF AllocPop
  <1>9. ASSUME NEW d \in Clients \ {c} PROVE Pool'[d] = Pool[d] /\ PoolLinked(d)'
    <2>1. allocPc'[d] = allocPc[d] /\ allocTail'[d] = allocTail[d] /\ poolHead'[d] = poolHead[d]
      BY <1>1 DEF AllocPop, TypeOK
    <2> QED
      BY <1>1, <1>6, <1>7, <2>1, PoolKept
  <1>10. Pool'[c] = Tail(q) /\ PoolLinked(c)' /\ cmd = Head(q)
    <2>1. \A i \in Items(q) : i # cmd => next'[i] = next[i]
      <3>1. Items(q) \subseteq Commands
        BY <1>4, ItemsIn
      <3> QED
        BY <1>6, <3>1 DEF Elsewhere
    <2>2. Leads(next', next[cmd], Tail(q), NULL) /\ cmd = Head(q)
      BY <1>4, <1>5, <2>1, ChainPopped
    <2>3. allocPc'[c] = "ready"
      BY <1>1 DEF AllocPop, TypeOK
    <2>4. ChainTo(next', poolHead'[c], NULL) = Tail(q) /\ Linked(next', poolHead'[c])
      BY <1>3, <2>2, LinkedBy
    <2> QED
      BY <2>2, <2>3, <2>4 DEF Pool, PoolLinked, Chain
  <1>h. held' = [held EXCEPT ![c] = held[c] \union {cmd}] /\ held \in [Clients -> SUBSET Commands]
    BY <1>2 DEF AllocPop, QueueInv, C!ChannelInv, C!ChannelTypeOK
  <1>11. HeldAreUnqueued'
    <2> SUFFICES ASSUME NEW d \in Clients, NEW k \in held'[d]
                 PROVE  next'[k] = k \/ (submitPc'[d] = "push" /\ submitCmd'[d] = k)
      BY DEF HeldAreUnqueued
    <2>1. CASE k = cmd
      BY <1>6, <2>1
    <2>2. CASE k # cmd
      <3>1. k \in held[d] /\ k \in Commands
        BY <1>h, <2>2
      <3>2. next'[k] = next[k]
        BY <1>6, <2>2, <3>1 DEF Elsewhere
      <3> QED
        BY <1>1, <3>1, <3>2 DEF LinkInv, HeldAreUnqueued, AllocPop
    <2> QED
      BY <2>1, <2>2
  <1>12. ASSUME NEW d \in Clients PROVE SubmitShape(d)'
    <2> SUFFICES ASSUME submitPc[d] = "push"
                 PROVE  submitCmd[d] \in held'[d] /\ next'[submitCmd[d]] = submitTail[d]
      BY DEF SubmitShape, AllocPop
    <2>1. submitCmd[d] \in held[d] /\ next[submitCmd[d]] = submitTail[d]
      BY <1>1 DEF LinkInv, SubmitShape
    <2>2. submitCmd[d] # cmd /\ submitCmd[d] \in Commands
      BY <1>7, <2>1
    <2> QED
      BY <1>6, <1>h, <2>1, <2>2 DEF Elsewhere
  <1>13. TypeOK'
    <2>1. next[cmd] \in Pointer
      BY <1>1, <1>5 DEF TypeOK
    <2>2. /\ allocPc' \in [Clients -> {"ready", "take", "spill", "reverse"}]
          /\ poolHead' \in [Clients -> Pointer]
      BY <1>1, <1>2, <2>1 DEF AllocPop, TypeOK
    <2>3. UNCHANGED <<tail, allocTail, submitPc, submitTail, submitCmd, renderVars>>
      BY DEF AllocPop
    <2> QED
      BY <1>1, <1>6, <2>2, <2>3 DEF TypeOK, renderVars
  <1>14. ASSUME NEW d \in Clients PROVE OpenShape(d)' /\ AllocShape(d)'
    BY <1>1 DEF LinkInv, TypeOK, OpenShape, AllocShape, AllocPop
  <1>15. LinkInv'
    BY <1>8, <1>9, <1>10, <1>11, <1>12, <1>13, <1>14 DEF LinkInv
  <1>16. Pool' = [Pool EXCEPT ![c] = Tail(Pool[c])]
    BY <1>2, <1>9, <1>10, PoolBut
  <1>17. c \in open
    BY <1>1 DEF LinkInv, OpenShape
  <1>18. C!AllocRecycled(c)
    BY <1>2, <1>5, <1>8, <1>10, <1>16, <1>17, <1>h DEF C!AllocRecycled, AllocPop
  <1> QED
    BY <1>15, <1>18 DEF C!Next, C!ClientStep

\* A new object, or none.
LEMMA AllocFromHeapStep ==
  ASSUME QueueInv, NEW c \in Clients, AllocFromHeap(c)
  PROVE  LinkInv' /\ [C!Next]_C!channelVars
  <1>1. LinkInv /\ TypeOK /\ allocPc[c] = "take" /\ poolHead[c] = NULL
    BY DEF QueueInv, LinkInv, AllocFromHeap
  <1>2. c \in open /\ Pool[c] = <<>>
    <2>1. Leads(next, NULL, Pool[c], NULL)
      BY <1>1, PoolStanding
    <2>2. Pool[c] = <<>>
      BY <2>1, QueueAssumption DEF Leads
    <2> QED
      BY <1>1, <2>2 DEF LinkInv, OpenShape
  <1>3. /\ allocPc' = [allocPc EXCEPT ![c] = "ready"]
        /\ UNCHANGED <<open, leaked, tail, poolHead, allocTail, submitPc, submitTail, submitCmd,
                       renderVars>>
    BY DEF AllocFromHeap
  <1>4. ASSUME NEW T, Elsewhere(T), next' \in [Commands -> Pointer],
               T \cap Items(Intake) = {}, T \cap Items(Exhaust) = {}, T \cap Items(Chamber) = {},
               \A d \in Clients : T \cap Items(Pool[d]) = {}
        PROVE  /\ UNCHANGED <<Intake, Exhaust, Chamber, Render, Pool>>
               /\ TypeOK' /\ IntakeLinked' /\ ExhaustLinked' /\ ChamberLinked' /\ RenderShape'
               /\ \A d \in Clients : PoolLinked(d)' /\ OpenShape(d)' /\ AllocShape(d)'
    <2>1. /\ UNCHANGED <<Intake, Exhaust, Chamber, Render>>
          /\ IntakeLinked' /\ ExhaustLinked' /\ ChamberLinked' /\ RenderShape'
      BY <1>1, <1>3, <1>4, SharedKept
    <2>2. ASSUME NEW d \in Clients PROVE Pool'[d] = Pool[d] /\ PoolLinked(d)'
      <3>1. allocPc'[d] = "reverse" <=> allocPc[d] = "reverse"
        BY <1>1, <1>3 DEF TypeOK
      <3> QED
        BY <1>1, <1>3, <1>4, <3>1, PoolKept
    <2>3. ASSUME NEW d \in Clients PROVE OpenShape(d)' /\ AllocShape(d)'
      BY <1>1, <1>3 DEF LinkInv, TypeOK, OpenShape, AllocShape
    <2>4. TypeOK'
      <3>1. allocPc' \in [Clients -> {"ready", "take", "spill", "reverse"}]
        BY <1>1, <1>3 DEF TypeOK
      <3> QED
        BY <1>1, <1>3, <1>4, <3>1 DEF TypeOK, renderVars
    <2>5. Pool' = Pool
      BY <2>2, PoolSame
    <2> QED
      BY <2>1, <2>2, <2>3, <2>4, <2>5
  <1>h. held \in [Clients -> SUBSET Commands] /\ free \subseteq Commands
    BY DEF QueueInv, C!ChannelInv, C!ChannelTypeOK
  <1>5. CASE UNCHANGED <<free, next, held>>
    <2>1. /\ UNCHANGED <<Intake, Exhaust, Chamber, Render, Pool>>
          /\ TypeOK' /\ IntakeLinked' /\ ExhaustLinked' /\ ChamberLinked' /\ RenderShape'
          /\ \A d \in Clients : PoolLinked(d)' /\ OpenShape(d)' /\ AllocShape(d)'
      BY <1>1, <1>4, <1>5, NoLinkWritten DEF TypeOK
    <2>2. HeldAreUnqueued' /\ \A d \in Clients : SubmitShape(d)'
      BY <1>1, <1>3, <1>5, NoLinkWritten, HeldKept
    <2>3. UNCHANGED C!channelVars
      BY <1>3, <1>5, <2>1 DEF C!channelVars
    <2> QED
      BY <2>1, <2>2, <2>3 DEF LinkInv
  <1>6. ASSUME NEW cmd \in free, free' = free \ {cmd}, next' = [next EXCEPT ![cmd] = cmd],
               held' = [held EXCEPT ![c] = held[c] \union {cmd}]
        PROVE  LinkInv' /\ [C!Next]_C!channelVars
    <2>1. cmd \in Commands /\ Elsewhere({cmd}) /\ next' \in [Commands -> Pointer] /\ next'[cmd] = cmd
      BY <1>1, <1>6, <1>h DEF Elsewhere, TypeOK, Pointer
    <2>2. /\ {cmd} \cap Items(Intake) = {} /\ {cmd} \cap Items(Exhaust) = {}
          /\ {cmd} \cap Items(Chamber) = {}
          /\ \A d \in Clients : cmd \notin held[d] /\ {cmd} \cap Items(Pool[d]) = {}
      BY Apart DEF QueueInv
    <2>3. /\ UNCHANGED <<Intake, Exhaust, Chamber, Render, Pool>>
          /\ TypeOK' /\ IntakeLinked' /\ ExhaustLinked' /\ ChamberLinked' /\ RenderShape'
          /\ \A d \in Clients : PoolLinked(d)' /\ OpenShape(d)' /\ AllocShape(d)'
      BY <1>4, <2>1, <2>2
    <2>4. HeldAreUnqueued'
      <3> SUFFICES ASSUME NEW d \in Clients, NEW k \in held'[d]
                   PROVE  next'[k] = k \/ (submitPc'[d] = "push" /\ submitCmd'[d] = k)
        BY DEF HeldAreUnqueued
      <3>1. CASE k = cmd
        BY <2>1, <3>1
      <3>2. CASE k # cmd
        <4>1. k \in held[d] /\ k \in Commands
          BY <1>6, <1>h, <3>2
        <4>2. next'[k] = next[k]
          BY <2>1, <3>2, <4>1 DEF Elsewhere
        <4> QED
          BY <1>1, <1>3, <4>1, <4>2 DEF LinkInv, HeldAreUnqueued
      <3> QED
        BY <3>1, <3>2
    <2>5. ASSUME NEW d \in Clients PROVE SubmitShape(d)'
      <3> SUFFICES ASSUME submitPc[d] = "push"
                   PROVE  submitCmd[d] \in held'[d] /\ next'[submitCmd[d]] = submitTail[d]
        BY <1>3 DEF SubmitShape
      <3>1. submitCmd[d] \in held[d] /\ next[submitCmd[d]] = submitTail[d]
        BY <1>1 DEF LinkInv, SubmitShape
      <3>2. submitCmd[d] # cmd /\ submitCmd[d] \in Commands
        BY <1>h, <2>2, <3>1
      <3> QED
        BY <1>6, <1>h, <2>1, <3>1, <3>2 DEF Elsewhere
    <2>6. C!AllocNew(c, cmd)
      BY <1>2, <1>3, <1>6, <2>3 DEF C!AllocNew
    <2>7. LinkInv'
      BY <2>3, <2>4, <2>5 DEF LinkInv
    <2> QED
      BY <2>1, <2>6, <2>7 DEF C!Next, C!ClientStep
  <1> QED
    BY <1>5, <1>6 DEF AllocFromHeap

\* The pool goes back to the heap.
LEMMA CloseClientStep ==
  ASSUME QueueInv, NEW c \in Clients, CloseClient(c)
  PROVE  LinkInv' /\ [C!Next]_C!channelVars
  <1>1. LinkInv /\ TypeOK /\ c \in open /\ allocPc[c] = "ready" /\ submitPc[c] = "ready"
    BY DEF QueueInv, LinkInv, CloseClient
  <1>2. PICK q : q = Pool[c]
    OBVIOUS
  <1>3. q \in Seq(Commands) /\ Items(q) \subseteq Commands /\ Leads(next, poolHead[c], q, NULL)
    BY <1>1, <1>2, PoolStanding, ItemsIn
  <1>4. ToSet(Chain(poolHead[c])) = Items(q)
    <2>1. Chain(poolHead[c]) = q
      BY <1>3, LinkedBy DEF Chain
    <2>2. DOMAIN q = 1..Len(q)
      BY <1>3
    <2> QED
      BY <2>1, <2>2 DEF ToSet, Items
  <1>5. /\ next' = [i \in Commands |-> IF i \in Items(q) THEN i ELSE next[i]]
        /\ free' = free \union Items(q)
    BY <1>4 DEF CloseClient
  <1>6. Elsewhere(Items(q)) /\ next' \in [Commands -> Pointer]
    BY <1>1, <1>5 DEF Elsewhere, TypeOK, Pointer
  <1>7. /\ Items(q) \cap Items(Intake) = {} /\ Items(q) \cap Items(Exhaust) = {}
        /\ Items(q) \cap Items(Chamber) = {}
        /\ \A d \in Clients : Items(q) \cap held[d] = {} /\ held[d] \subseteq Commands
        /\ \A d \in Clients \ {c} : Items(q) \cap Items(Pool[d]) = {}
    BY <1>2, Apart DEF QueueInv
  <1>8. /\ UNCHANGED <<Intake, Exhaust, Chamber, Render>>
        /\ IntakeLinked' /\ ExhaustLinked' /\ ChamberLinked' /\ RenderShape'
    BY <1>1, <1>6, <1>7, SharedKept DEF CloseClient
  <1>9. ASSUME NEW d \in Clients \ {c} PROVE Pool'[d] = Pool[d] /\ PoolLinked(d)'
    <2>1. allocPc'[d] = allocPc[d] /\ allocTail'[d] = allocTail[d] /\ poolHead'[d] = poolHead[d]
      BY <1>1 DEF CloseClient, clientVars, TypeOK
    <2> QED
      BY <1>1, <1>6, <1>7, <2>1, PoolKept
  <1>10. Pool'[c] = <<>> /\ PoolLinked(c)'
    <2>1. poolHead'[c] = NULL /\ allocPc'[c] = "ready"
      BY <1>1 DEF CloseClient, clientVars, TypeOK
    <2>2. ChainTo(next', NULL, NULL) = <<>> /\ Linked(next', NULL)
      BY EmptyChain, LinkedBy
    <2> QED
      BY <2>1, <2>2 DEF Pool, PoolLinked, Chain
  <1>h. held' = [held EXCEPT ![c] = {}] /\ held \in [Clients -> SUBSET Commands]
    BY DEF CloseClient, QueueInv, C!ChannelInv, C!ChannelTypeOK
  <1>11. HeldAreUnqueued'
    <2> SUFFICES ASSUME NEW d \in Clients, NEW k \in held'[d]
                 PROVE  next'[k] = k \/ (submitPc'[d] = "push" /\ submitCmd'[d] = k)
      BY DEF HeldAreUnqueued
    <2>1. d # c /\ k \in held[d] /\ k \in Commands
      BY <1>h
    <2>2. next'[k] = next[k]
      BY <1>6, <1>7, <2>1 DEF Elsewhere
    <2> QED
      BY <1>1, <2>1, <2>2 DEF LinkInv, HeldAreUnqueued, CloseClient, clientVars
  <1>12. ASSUME NEW d \in Clients PROVE SubmitShape(d)'
    <2> SUFFICES ASSUME submitPc[d] = "push"
                 PROVE  submitCmd[d] \in held'[d] /\ next'[submitCmd[d]] = submitTail[d]
      BY DEF SubmitShape, CloseClient, clientVars
    <2>1. submitCmd[d] \in held[d] /\ next[submitCmd[d]] = submitTail[d] /\ d # c
      BY <1>1 DEF LinkInv, SubmitShape
    <2>2. submitCmd[d] \notin Items(q) /\ submitCmd[d] \in Commands
      BY <1>7, <2>1
    <2> QED
      BY <1>6, <1>h, <2>1, <2>2 DEF Elsewhere
  <1>13. TypeOK'
    <2>1. poolHead' \in [Clients -> Pointer]
      BY <1>1 DEF CloseClient, TypeOK, Pointer
    <2>2. UNCHANGED <<tail, clientVars, renderVars>>
      BY DEF CloseClient
    <2> QED
      BY <1>1, <1>6, <2>1, <2>2 DEF TypeOK, clientVars, renderVars
  <1>14. ASSUME NEW d \in Clients PROVE OpenShape(d)' /\ AllocShape(d)'
    BY <1>1 DEF LinkInv, TypeOK, OpenShape, AllocShape, CloseClient, clientVars
  <1>15. LinkInv'
    BY <1>8, <1>9, <1>10, <1>11, <1>12, <1>13, <1>14 DEF LinkInv
  <1>16. Pool' = [Pool EXCEPT ![c] = <<>>]
    BY <1>9, <1>10, PoolBut
  <1>17. C!Items(Pool[c]) = Items(q)
    BY <1>2 DEF C!Items, Items
  <1>18. C!CloseClient(c)
    BY <1>1, <1>5, <1>8, <1>16, <1>17 DEF C!CloseClient, CloseClient
  <1> QED
    BY <1>15, <1>18 DEF C!Next, C!ClientStep

\* A held command is linked to the tail that was read: no queue sees it.
LEMMA SubmitBeginStep ==
  ASSUME QueueInv, NEW c \in Clients, NEW cmd \in Commands, SubmitBegin(c, cmd)
  PROVE  LinkInv' /\ [C!Next]_C!channelVars
  <1>1. /\ LinkInv /\ TypeOK /\ c \in open /\ submitPc[c] = "ready" /\ cmd \in held[c]
        /\ UNCHANGED <<free, open, held, leaked, tail, poolHead, allocPc, allocTail, renderVars>>
    BY DEF QueueInv, LinkInv, SubmitBegin
  <1>2. Elsewhere({cmd}) /\ next' \in [Commands -> Pointer] /\ next'[cmd] = tail["intake"]
    BY <1>1 DEF Elsewhere, SubmitBegin, TypeOK
  <1>3. /\ {cmd} \cap Items(Intake) = {} /\ {cmd} \cap Items(Exhaust) = {}
        /\ {cmd} \cap Items(Chamber) = {}
        /\ \A d \in Clients : {cmd} \cap Items(Pool[d]) = {} /\ held[d] \subseteq Commands
        /\ \A d \in Clients \ {c} : cmd \notin held[d]
    BY <1>1, Apart DEF QueueInv
  <1>4. /\ UNCHANGED <<Intake, Exhaust, Chamber, Render>>
        /\ IntakeLinked' /\ ExhaustLinked' /\ ChamberLinked' /\ RenderShape'
    BY <1>1, <1>2, <1>3, SharedKept
  <1>5. ASSUME NEW d \in Clients PROVE Pool'[d] = Pool[d] /\ PoolLinked(d)'
    BY <1>1, <1>2, <1>3, PoolKept
  <1>6. /\ submitPc'[c] = "push" /\ submitCmd'[c] = cmd /\ submitTail'[c] = tail["intake"]
        /\ \A d \in Clients \ {c} : /\ submitPc'[d] = submitPc[d] /\ submitCmd'[d] = submitCmd[d]
                                   /\ submitTail'[d] = submitTail[d]
    BY <1>1 DEF SubmitBegin, TypeOK
  <1>7. HeldAreUnqueued'
    <2> SUFFICES ASSUME NEW d \in Clients, NEW k \in held[d]
                 PROVE  next'[k] = k \/ (submitPc'[d] = "push" /\ submitCmd'[d] = k)
      BY <1>1 DEF HeldAreUnqueued
    <2>1. CASE k = cmd
      BY <1>3, <1>6, <2>1
    <2>2. CASE k # cmd
      <3>1. next'[k] = next[k]
        BY <1>2, <1>3, <2>2 DEF Elsewhere
      <3>2. next[k] = k \/ (submitPc[d] = "push" /\ submitCmd[d] = k)
        BY <1>1 DEF LinkInv, HeldAreUnqueued
      <3> QED
        BY <1>1, <1>6, <3>1, <3>2
    <2> QED
      BY <2>1, <2>2
  <1>8. ASSUME NEW d \in Clients PROVE SubmitShape(d)'
    <2>1. CASE d = c
      BY <1>1, <1>2, <1>6, <2>1 DEF SubmitShape
    <2>2. CASE d # c
      <3>1. submitPc[d] = "push" => submitCmd[d] \in held[d] /\ next[submitCmd[d]] = submitTail[d]
        BY <1>1 DEF LinkInv, SubmitShape
      <3>2. submitPc[d] = "push" => submitCmd[d] # cmd /\ submitCmd[d] \in Commands
        BY <1>3, <2>2, <3>1
      <3> QED
        BY <1>1, <1>2, <1>6, <2>2, <3>1, <3>2 DEF SubmitShape, Elsewhere
    <2> QED
      BY <2>1, <2>2
  <1>9. TypeOK'
    <2>1. /\ submitPc' \in [Clients -> {"ready", "push"}]
          /\ submitTail' \in [Clients -> Pointer] /\ submitCmd' \in [Clients -> Pointer]
      BY <1>1 DEF SubmitBegin, TypeOK, Pointer
    <2> QED
      BY <1>1, <1>2, <2>1 DEF TypeOK, renderVars
  <1>10. ASSUME NEW d \in Clients PROVE OpenShape(d)' /\ AllocShape(d)'
    BY <1>1, <1>6 DEF LinkInv, OpenShape, AllocShape
  <1>11. LinkInv'
    BY <1>4, <1>5, <1>7, <1>8, <1>9, <1>10 DEF LinkInv
  <1>12. Pool' = Pool
    BY <1>5, PoolSame
  <1>13. UNCHANGED C!channelVars
    BY <1>1, <1>4, <1>12 DEF C!channelVars
  <1> QED
    BY <1>11, <1>13

\* The compare-and-swap puts the command on the intake; a lost one links it again.
LEMMA SubmitCasStep ==
  ASSUME QueueInv, NEW c \in Clients, SubmitCas(c)
  PROVE  LinkInv' /\ [C!Next]_C!channelVars
  <1>1. /\ LinkInv /\ TypeOK /\ submitPc[c] = "push"
        /\ UNCHANGED <<free, open, leaked, poolHead, allocPc, allocTail, renderVars>>
    BY DEF QueueInv, LinkInv, SubmitCas
  <1>2. PICK cmd : cmd = submitCmd[c]
    OBVIOUS
  <1>h. held \in [Clients -> SUBSET Commands]
    BY DEF QueueInv, C!ChannelInv, C!ChannelTypeOK
  <1>3. cmd \in held[c] /\ next[cmd] = submitTail[c] /\ c \in open /\ cmd \in Commands
    BY <1>1, <1>2, <1>h DEF LinkInv, SubmitShape, OpenShape
  <1>4. /\ cmd \notin Items(Intake) /\ {cmd} \cap Items(Intake) = {} /\ {cmd} \cap Items(Exhaust) = {}
        /\ {cmd} \cap Items(Chamber) = {}
        /\ \A d \in Clients : {cmd} \cap Items(Pool[d]) = {} /\ held[d] \subseteq Commands
        /\ \A d \in Clients \ {c} : cmd \notin held[d]
    BY <1>3, Apart DEF QueueInv
  <1>5. Elsewhere({cmd}) /\ next' \in [Commands -> Pointer]
    BY <1>1, <1>2, <1>3 DEF Elsewhere, SubmitCas, TypeOK
  <1>6. Exhaust' = Exhaust /\ ExhaustLinked'
    <2>1. tail'["exhaust"] = tail["exhaust"]
      BY <1>1 DEF SubmitCas, TypeOK
    <2> QED
      BY <1>1, <1>4, <1>5, <2>1, ExhaustKept
  <1>7. Chamber' = Chamber /\ ChamberLinked' /\ Render' = Render /\ RenderShape'
    <2>1. Chamber' = Chamber /\ ChamberLinked' /\ Render' = Render
      BY <1>1, <1>4, <1>5, ChamberKept
    <2>2. RenderShape'
      BY <1>1 DEF LinkInv, RenderShape, renderVars
    <2> QED
      BY <2>1, <2>2
  <1>8. /\ \A d \in Clients : Pool'[d] = Pool[d] /\ PoolLinked(d)'
        /\ Pool' = Pool
    <2>1. ASSUME NEW d \in Clients PROVE Pool'[d] = Pool[d] /\ PoolLinked(d)'
      BY <1>1, <1>4, <1>5, PoolKept
    <2> QED
      BY <2>1, PoolSame
  <1>9. \A d \in Clients \ {c} : /\ submitPc'[d] = submitPc[d] /\ submitCmd'[d] = submitCmd[d]
                               /\ submitTail'[d] = submitTail[d] /\ held'[d] = held[d]
    BY <1>1, <1>h DEF SubmitCas, TypeOK
  <1>10. TypeOK'
    <2>1. /\ submitPc' \in [Clients -> {"ready", "push"}]
          /\ submitTail' \in [Clients -> Pointer] /\ submitCmd' \in [Clients -> Pointer]
          /\ tail' \in [{"intake", "exhaust"} -> Pointer]
      BY <1>1, <1>2, <1>3 DEF SubmitCas, TypeOK, Pointer
    <2> QED
      BY <1>1, <1>5, <2>1 DEF TypeOK, renderVars
  <1>11. ASSUME NEW d \in Clients PROVE OpenShape(d)' /\ AllocShape(d)'
    <2>1. d = c => d \in open
      BY <1>3
    <2> QED
      BY <1>1, <1>9, <2>1 DEF LinkInv, OpenShape, AllocShape
  <1>12. ASSUME NEW d \in Clients \ {c}
         PROVE  /\ SubmitShape(d)'
                /\ \A k \in held'[d] : next'[k] = k \/ (submitPc'[d] = "push" /\ submitCmd'[d] = k)
    <2>1. \A k \in held[d] : next'[k] = next[k]
      BY <1>4, <1>5 DEF Elsewhere
    <2>2. submitPc[d] = "push" => submitCmd[d] \in held[d] /\ next[submitCmd[d]] = submitTail[d]
      BY <1>1 DEF LinkInv, SubmitShape
    <2>3. \A k \in held[d] : next[k] = k \/ (submitPc[d] = "push" /\ submitCmd[d] = k)
      BY <1>1 DEF LinkInv, HeldAreUnqueued
    <2>4. SubmitShape(d)'
      BY <1>9, <2>1, <2>2 DEF SubmitShape
    <2> QED
      BY <1>9, <2>1, <2>3, <2>4
  <1>13. CASE tail["intake"] = submitTail[c]
    <2>1. /\ tail'["intake"] = cmd /\ next' = next /\ held' = [held EXCEPT ![c] = held[c] \ {cmd}]
          /\ submitPc'[c] = "ready"
      BY <1>1, <1>2, <1>13 DEF SubmitCas, TypeOK
    <2>2. PICK q : q = Intake
      OBVIOUS
    <2>3. /\ q \in Seq(Commands) /\ Leads(next, tail["intake"], Reverse(q), NULL)
          /\ Reverse(q) \in Seq(Commands) /\ Items(Reverse(q)) = Items(q)
      BY <1>1, <2>2, Standing, Backwards, ReverseKeeps
    <2>4. next[cmd] = tail["intake"] /\ cmd \notin Items(Reverse(q))
      BY <1>3, <1>4, <1>13, <2>2, <2>3
    <2>5. Leads(next, cmd, <<cmd>> \o Reverse(q), NULL)
      BY <1>3, <2>3, <2>4, ChainPushed
    <2>6. PICK r : r = Reverse(q) /\ r \in Seq(Commands) /\ Reverse(r) = q
      BY <2>3, ReverseTwice
    <2>7. Reverse(<<cmd>> \o r) = Append(q, cmd)
      BY <1>3, <2>6, ReversePush
    <2>8. Leads(next', tail'["intake"], <<cmd>> \o r, NULL)
      BY <2>1, <2>5, <2>6
    <2>9. Intake' = Append(Intake, cmd) /\ IntakeLinked'
      <3>1. ChainTo(next', tail'["intake"], NULL) = <<cmd>> \o r /\ Linked(next', tail'["intake"])
        BY <2>8, LinkedBy
      <3> QED
        BY <2>2, <2>7, <3>1 DEF Intake, IntakeLinked, Chain
    <2>10. C!Submit(c, cmd)
      BY <1>1, <1>3, <1>6, <1>7, <1>8, <2>1, <2>9 DEF C!Submit
    <2>11. HeldAreUnqueued'
      <3>1. \A k \in held[c] : k # cmd => next[k] = k
        BY <1>1, <1>2 DEF LinkInv, HeldAreUnqueued
      <3>2. \A k \in held'[c] : next'[k] = k
        BY <1>h, <2>1, <3>1
      <3> QED
        BY <1>12, <3>2 DEF HeldAreUnqueued
    <2>12. ASSUME NEW d \in Clients PROVE SubmitShape(d)'
      <3>1. CASE d = c
        BY <2>1, <3>1 DEF SubmitShape
      <3>2. CASE d # c
        BY <1>12, <3>2
      <3> QED
        BY <3>1, <3>2
    <2>13. LinkInv'
      BY <1>6, <1>7, <1>8, <1>10, <1>11, <2>9, <2>11, <2>12 DEF LinkInv
    <2> QED
      BY <1>3, <2>10, <2>13 DEF C!Next, C!ClientStep
  <1>14. CASE tail["intake"] # submitTail[c]
    <2>1. /\ UNCHANGED <<tail, held, submitPc, submitCmd>>
          /\ submitTail'[c] = tail["intake"] /\ next'[cmd] = tail["intake"]
      BY <1>1, <1>2, <1>3, <1>14 DEF SubmitCas, TypeOK
    <2>2. Intake' = Intake /\ IntakeLinked'
      BY <1>1, <1>4, <1>5, <2>1, IntakeKept
    <2>3. HeldAreUnqueued'
      <3>1. \A k \in held[c] : k # cmd => next[k] = k
        BY <1>1, <1>2 DEF LinkInv, HeldAreUnqueued
      <3>2. \A k \in held'[c] : k = submitCmd'[c] \/ next'[k] = k
        BY <1>2, <1>4, <1>5, <2>1, <3>1 DEF Elsewhere
      <3> QED
        BY <1>1, <1>12, <2>1, <3>2 DEF HeldAreUnqueued
    <2>4. ASSUME NEW d \in Clients PROVE SubmitShape(d)'
      <3>1. CASE d = c
        BY <1>2, <1>3, <2>1, <3>1 DEF SubmitShape
      <3>2. CASE d # c
        BY <1>12, <3>2
      <3> QED
        BY <3>1, <3>2
    <2>5. LinkInv'
      BY <1>6, <1>7, <1>8, <1>10, <1>11, <2>2, <2>3, <2>4 DEF LinkInv
    <2>6. UNCHANGED C!channelVars
      BY <1>1, <1>6, <1>7, <1>8, <2>1, <2>2 DEF C!channelVars
    <2> QED
      BY <2>5, <2>6
  <1> QED
    BY <1>13, <1>14

-----------------------------------------------------------------------------
(* The render thread links only commands of its own chamber. *)

\* Nothing that belongs to a client changes.
LEMMA ClientsUndisturbed ==
  ASSUME QueueInv, NEW T, Elsewhere(T), T \subseteq Items(Chamber),
         UNCHANGED <<open, held, poolHead, clientVars>>
  PROVE  /\ Pool' = Pool /\ HeldAreUnqueued'
         /\ \A c \in Clients : PoolLinked(c)' /\ OpenShape(c)' /\ AllocShape(c)' /\ SubmitShape(c)'
         /\ T \cap Items(Intake) = {} /\ T \cap Items(Exhaust) = {}
  <1>1. LinkInv
    BY DEF QueueInv
  <1>2. /\ T \cap Items(Intake) = {} /\ T \cap Items(Exhaust) = {}
        /\ \A c \in Clients : T \cap held[c] = {} /\ held[c] \subseteq Commands
        /\ \A c \in Clients : T \cap Items(Pool[c]) = {}
    BY Apart DEF QueueInv
  <1>3. ASSUME NEW c \in Clients PROVE Pool'[c] = Pool[c] /\ PoolLinked(c)'
    BY <1>1, <1>2, PoolKept DEF clientVars
  <1>4. HeldAreUnqueued' /\ \A c \in Clients : SubmitShape(c)'
    BY <1>1, <1>2, HeldKept DEF clientVars
  <1>5. ASSUME NEW c \in Clients PROVE OpenShape(c)' /\ AllocShape(c)'
    BY <1>1 DEF LinkInv, OpenShape, AllocShape, clientVars
  <1>6. Pool' = Pool
    BY <1>3, PoolSame
  <1> QED
    BY <1>2, <1>3, <1>4, <1>5, <1>6

\* The chamber between batches is a list that may be read again.
LEMMA ChamberAtRest ==
  ASSUME QueueInv, next' = next, chamberHead' = chamberHead,
         renderPc \notin {"reverse", "exhaust"}, renderPc' \notin {"reverse", "exhaust"}
  PROVE  Chamber' = Chamber /\ ChamberLinked'
  <1>1. Leads(next, chamberHead, Chamber, NULL)
    BY ChamberStanding DEF QueueInv
  <1>2. ChainTo(next', chamberHead', NULL) = Chamber /\ Linked(next', chamberHead')
    BY <1>1, LinkedBy
  <1> QED
    BY <1>2 DEF Chamber, ChamberLinked, Chain

\* NULL starts the empty chain only.
LEMMA NoCommand ==
  ASSUME NEW s, Leads(next, NULL, s, NULL)
  PROVE  s = <<>>
  BY QueueAssumption DEF Leads

\* Only the tail is read.
LEMMA IntakeBeginStep ==
  ASSUME QueueInv, IntakeBegin
  PROVE  LinkInv' /\ [C!Next]_C!channelVars
  <1>1. LinkInv /\ TypeOK /\ next' = next /\ tail' = tail /\ Elsewhere({}) /\ {} \subseteq Items(Chamber)
    BY DEF QueueInv, LinkInv, IntakeBegin, Elsewhere
  <1>2. /\ Pool' = Pool /\ HeldAreUnqueued'
        /\ \A c \in Clients : PoolLinked(c)' /\ OpenShape(c)' /\ AllocShape(c)' /\ SubmitShape(c)'
    BY <1>1, ClientsUndisturbed DEF IntakeBegin
  <1>3. Intake' = Intake /\ IntakeLinked' /\ Exhaust' = Exhaust /\ ExhaustLinked'
    BY <1>1, NoLinkWritten, IntakeKept, ExhaustKept
  <1>4. Chamber' = Chamber /\ ChamberLinked'
    BY <1>1, ChamberAtRest DEF IntakeBegin
  <1>5. TypeOK'
    <2>1. renderTail' \in Pointer /\ renderPc' = "intake"
      BY <1>1 DEF IntakeBegin, TypeOK
    <2>2. UNCHANGED <<next, tail, poolHead, clientVars, chamberHead, revHead>>
      BY DEF IntakeBegin
    <2> QED
      BY <1>1, <2>1, <2>2 DEF TypeOK, clientVars
  <1>6. RenderShape'
    BY <1>1 DEF LinkInv, RenderShape, IntakeBegin
  <1>7. LinkInv'
    BY <1>2, <1>3, <1>4, <1>5, <1>6 DEF LinkInv
  <1>8. Render' = Render
    BY DEF Render, IntakeBegin
  <1>9. UNCHANGED C!channelVars
    BY <1>2, <1>3, <1>4, <1>8 DEF C!channelVars, IntakeBegin
  <1> QED
    BY <1>7, <1>9

\* The whole stack is taken at once, and is the next chamber.
LEMMA IntakeCasStep ==
  ASSUME QueueInv, IntakeCas
  PROVE  LinkInv' /\ [C!Next]_C!channelVars
  <1>1. LinkInv /\ TypeOK /\ next' = next /\ renderPc = "intake" /\ chamberHead = NULL
    BY DEF QueueInv, LinkInv, RenderShape, IntakeCas
  <1>e. Elsewhere({}) /\ {} \subseteq Items(Chamber)
    BY <1>1 DEF Elsewhere
  <1>2. /\ Pool' = Pool /\ HeldAreUnqueued'
        /\ \A c \in Clients : PoolLinked(c)' /\ OpenShape(c)' /\ AllocShape(c)' /\ SubmitShape(c)'
    BY <1>e, ClientsUndisturbed DEF IntakeCas
  <1>3. Exhaust' = Exhaust /\ ExhaustLinked'
    <2>1. tail'["exhaust"] = tail["exhaust"]
      BY <1>1 DEF IntakeCas, TypeOK
    <2> QED
      BY <1>1, <2>1, NoLinkWritten, ExhaustKept
  <1>4. TypeOK'
    <2>1. /\ renderTail' \in Pointer /\ renderPc' \in {"intake", "reverse"}
          /\ tail' \in [{"intake", "exhaust"} -> Pointer]
      BY <1>1 DEF IntakeCas, TypeOK, Pointer
    <2>2. UNCHANGED <<next, poolHead, clientVars, chamberHead, revHead>>
      BY DEF IntakeCas
    <2> QED
      BY <1>1, <2>1, <2>2 DEF TypeOK, clientVars
  <1>5. RenderShape' /\ chamberHead' = chamberHead
    BY <1>1 DEF RenderShape, IntakeCas
  <1>6. CASE tail["intake"] = renderTail
    <2>1. renderPc' = "reverse" /\ renderTail' = tail["intake"] /\ tail'["intake"] = NULL
      BY <1>1, <1>6 DEF IntakeCas, TypeOK
    <2>2. Intake \in Seq(Commands) /\ Leads(next', renderTail', Reverse(Intake), NULL)
      BY <1>1, <2>1, Standing
    <2>3. Reverse(ChainTo(next', renderTail', NULL)) = Intake /\ Linked(next', renderTail')
      BY <2>2, StackRead
    <2>4. Chamber' = Intake /\ ChamberLinked'
      BY <2>1, <2>3 DEF Chamber, ChamberLinked, Chain
    <2>5. Intake' = <<>> /\ IntakeLinked'
      <3>1. Leads(next', NULL, <<>>, NULL) /\ Reverse(<<>>) = <<>>
        BY EmptyChain DEF Reverse
      <3>2. ChainTo(next', NULL, NULL) = <<>> /\ Linked(next', NULL)
        BY <3>1, LinkedBy
      <3> QED
        BY <2>1, <3>1, <3>2 DEF Intake, IntakeLinked, Chain
    <2>6. Render = "idle" /\ Render' = "batch"
      BY <1>1, <2>1 DEF Render
    <2>7. C!ServiceIntake
      BY <1>2, <1>3, <2>4, <2>5, <2>6 DEF C!ServiceIntake, IntakeCas
    <2>8. LinkInv'
      BY <1>2, <1>3, <1>4, <1>5, <2>4, <2>5 DEF LinkInv
    <2> QED
      BY <2>7, <2>8 DEF C!Next
  <1>7. CASE tail["intake"] # renderTail
    <2>1. tail' = tail /\ renderPc' = renderPc
      BY <1>7 DEF IntakeCas
    <2>2. Intake' = Intake /\ IntakeLinked'
      BY <1>1, <2>1, NoLinkWritten, IntakeKept
    <2>3. Chamber' = Chamber /\ ChamberLinked'
      BY <1>1, <1>5, <2>1, ChamberAtRest
    <2>4. LinkInv'
      BY <1>2, <1>3, <1>4, <1>5, <2>2, <2>3 DEF LinkInv
    <2>5. Render' = Render
      BY <2>1 DEF Render
    <2>6. UNCHANGED C!channelVars
      BY <1>2, <1>3, <2>2, <2>3, <2>5 DEF C!channelVars, IntakeCas
    <2> QED
      BY <2>4, <2>6
  <1> QED
    BY <1>6, <1>7

\* The stack that was taken becomes the chamber, oldest command first.
LEMMA IntakeReverseStep ==
  ASSUME QueueInv, IntakeReverse
  PROVE  LinkInv' /\ [C!Next]_C!channelVars
  <1>1. LinkInv /\ TypeOK /\ renderPc = "reverse" /\ tail' = tail
    BY DEF QueueInv, LinkInv, IntakeReverse
  <1>2. PICK q : q = Chamber
    OBVIOUS
  <1>3. /\ q \in Seq(Commands) /\ Leads(next, renderTail, Reverse(q), NULL)
        /\ Reverse(q) \in Seq(Commands) /\ Reverse(Reverse(q)) = q
        /\ Items(Reverse(q)) = Items(q)
    BY <1>1, <1>2, ChamberStanding, Backwards, ReverseTwice, ReverseKeeps
  <1>4. /\ next' \in [Commands -> Pointer]
        /\ \A i \in Commands : i \notin Items(q) => next'[i] = next[i]
        /\ Leads(next', ReversedHead(renderTail), q, NULL)
    BY <1>1, <1>3, Reversing DEF IntakeReverse
  <1>5. Elsewhere(Items(q)) /\ Items(q) \subseteq Items(Chamber)
    BY <1>2, <1>4 DEF Elsewhere
  <1>6. /\ Pool' = Pool /\ HeldAreUnqueued'
        /\ \A c \in Clients : PoolLinked(c)' /\ OpenShape(c)' /\ AllocShape(c)' /\ SubmitShape(c)'
        /\ Items(q) \cap Items(Intake) = {} /\ Items(q) \cap Items(Exhaust) = {}
    BY <1>5, ClientsUndisturbed DEF IntakeReverse
  <1>7. Intake' = Intake /\ IntakeLinked' /\ Exhaust' = Exhaust /\ ExhaustLinked'
    BY <1>1, <1>5, <1>6, IntakeKept, ExhaustKept
  <1>8. chamberHead' = ReversedHead(renderTail) /\ renderPc' = "batch" /\ renderTail' = NULL
    BY DEF IntakeReverse
  <1>9. Chamber' = Chamber /\ ChamberLinked'
    <2>1. ChainTo(next', chamberHead', NULL) = q /\ Linked(next', chamberHead')
      BY <1>4, <1>8, LinkedBy
    <2> QED
      BY <1>2, <1>8, <2>1 DEF Chamber, ChamberLinked, Chain
  <1>10. TypeOK'
    <2>1. ReversedHead(renderTail) \in Pointer
      <3>1. ReversedHead(renderTail) = IF q = <<>> THEN NULL ELSE q[1]
        BY <1>4 DEF Leads
      <3> QED
        BY <1>3, <3>1 DEF Pointer
    <2>2. UNCHANGED <<tail, poolHead, clientVars, revHead>>
      BY DEF IntakeReverse
    <2> QED
      BY <1>1, <1>4, <1>8, <2>1, <2>2 DEF TypeOK, clientVars, Pointer
  <1>11. RenderShape'
    BY <1>8 DEF RenderShape
  <1>12. LinkInv'
    BY <1>6, <1>7, <1>9, <1>10, <1>11 DEF LinkInv
  <1>13. Render' = Render
    BY <1>1, <1>8 DEF Render
  <1>14. UNCHANGED C!channelVars
    BY <1>6, <1>7, <1>9, <1>13 DEF C!channelVars, IntakeReverse
  <1> QED
    BY <1>12, <1>14

\* An empty chamber is given back at once; any other is reversed and linked to
\* the tail that was read.
LEMMA ExhaustBeginStep ==
  ASSUME QueueInv, ExhaustBegin
  PROVE  LinkInv' /\ [C!Next]_C!channelVars
  <1>1. LinkInv /\ TypeOK /\ renderPc = "batch" /\ tail' = tail /\ chamberHead' = chamberHead
    BY DEF QueueInv, LinkInv, ExhaustBegin
  <1>2. PICK s : s = Chamber
    OBVIOUS
  <1>3. s \in Seq(Commands) /\ Leads(next, chamberHead, s, NULL)
    BY <1>1, <1>2, ChamberStanding
  <1>4. CASE chamberHead = NULL
    <2>1. next' = next /\ renderPc' = "wait" /\ renderTail' = renderTail /\ revHead' = revHead
      BY <1>4 DEF ExhaustBegin
    <2>2. s = <<>>
      BY <1>3, <1>4, NoCommand
    <2>3. Elsewhere({}) /\ {} \subseteq Items(Chamber)
      BY <2>1 DEF Elsewhere
    <2>4. /\ Pool' = Pool /\ HeldAreUnqueued'
          /\ \A c \in Clients : PoolLinked(c)' /\ OpenShape(c)' /\ AllocShape(c)' /\ SubmitShape(c)'
      BY <2>3, ClientsUndisturbed DEF ExhaustBegin
    <2>5. Intake' = Intake /\ IntakeLinked' /\ Exhaust' = Exhaust /\ ExhaustLinked'
      BY <1>1, <2>1, NoLinkWritten, IntakeKept, ExhaustKept
    <2>6. Chamber' = Chamber /\ ChamberLinked'
      BY <1>1, <2>1, ChamberAtRest
    <2>7. TypeOK' /\ RenderShape'
      <3>1. UNCHANGED <<next, tail, poolHead, clientVars, chamberHead, renderTail, revHead>>
        BY <1>1, <2>1 DEF ExhaustBegin
      <3> QED
        BY <1>1, <1>4, <2>1, <3>1 DEF TypeOK, clientVars, RenderShape
    <2>8. LinkInv'
      BY <2>4, <2>5, <2>6, <2>7 DEF LinkInv
    <2>9. Exhaust \o Chamber = Exhaust
      <3>1. Exhaust \in Seq(Commands)
        BY <1>1, Standing
      <3> QED
        BY <1>2, <2>2, <3>1
    <2>10. Render = "batch" /\ Render' = "idle"
      BY <1>1, <2>1 DEF Render
    <2>11. C!ServiceExhaust
      BY <1>2, <2>2, <2>4, <2>5, <2>6, <2>9, <2>10 DEF C!ServiceExhaust, ExhaustBegin
    <2> QED
      BY <2>8, <2>11 DEF C!Next
  <1>5. CASE chamberHead # NULL
    <2>1. /\ revHead' = ReversedHead(chamberHead) /\ renderTail' = tail["exhaust"]
          /\ next' = [ReversedLinks(chamberHead) EXCEPT ![chamberHead] = tail["exhaust"]]
          /\ renderPc' = "exhaust"
      BY <1>5 DEF ExhaustBegin
    <2>2. PICK n : n = Len(s) /\ n \in Nat
      BY <1>3
    <2>3. s # <<>> /\ chamberHead = s[1] /\ 1 \in 1..n /\ n \in 1..n
      BY <1>3, <1>5, <2>2 DEF Leads
    <2>4. /\ ReversedLinks(chamberHead) \in [Commands -> Pointer]
          /\ ReversedHead(chamberHead) = s[n]
          /\ \A i \in Commands : i \notin Items(s) => ReversedLinks(chamberHead)[i] = next[i]
          /\ \A k \in 1..n : ReversedLinks(chamberHead)[s[k]] = IF k = 1 THEN NULL ELSE s[k - 1]
      BY <1>1, <1>3, <2>2, <2>3, Reversing
    <2>5. chamberHead \in Items(s) /\ \A k \in 1..n : s[k] \in Commands
      BY <1>3, <2>2, <2>3 DEF Items
    <2>6. next' \in [Commands -> Pointer] /\ Elsewhere(Items(s))
      <3>1. tail["exhaust"] \in Pointer
        BY <1>1 DEF TypeOK
      <3>2. next' \in [Commands -> Pointer]
        BY <2>1, <2>4, <3>1
      <3>3. \A i \in Commands \ Items(s) : next'[i] = ReversedLinks(chamberHead)[i]
        BY <2>1, <2>4, <2>5
      <3> QED
        BY <2>4, <3>2, <3>3 DEF Elsewhere
    <2>7. ASSUME NEW k \in 1..n
          PROVE  next'[s[k]] = IF k = 1 THEN renderTail' ELSE s[k - 1]
      <3>1. k # 1 => s[k] # chamberHead
        BY <1>3, <2>2, <2>3 DEF Leads, Distinct
      <3>2. k = 1 => next'[s[k]] = tail["exhaust"]
        BY <2>1, <2>3, <2>4, <2>5
      <3>3. k # 1 => next'[s[k]] = ReversedLinks(chamberHead)[s[k]]
        BY <2>1, <2>4, <2>5, <3>1
      <3> QED
        BY <2>1, <2>4, <3>2, <3>3
    <2>8. PICK back : back = Reverse(s)
      OBVIOUS
    <2>9. /\ back \in Seq(Commands) /\ back # <<>> /\ back[Len(back)] = chamberHead
          /\ Reverse(back) = s
      <3>1. back \in Seq(Commands) /\ Len(back) = n /\ back # <<>>
        BY <1>3, <2>2, <2>3, <2>8, Backwards
      <3>2. back[n] = s[n - n + 1]
        BY <1>3, <2>2, <2>3, <2>8, Backwards
      <3>3. n - n + 1 = 1
        BY <2>2
      <3> QED
        BY <1>3, <2>3, <2>8, <3>1, <3>2, <3>3, ReverseTwice
    <2>10. Leads(next', revHead', back, renderTail')
      <3>1. Leads(next', s[Len(s)], Reverse(s), renderTail')
        <4>1. \A k \in 1..Len(s) : next'[s[k]] = IF k = 1 THEN renderTail' ELSE s[k - 1]
          BY <2>2, <2>7
        <4> QED
          BY <1>3, <2>3, <4>1, ChainReversed
      <3> QED
        BY <2>1, <2>2, <2>4, <2>8, <3>1
    <2>11. ChainTo(next', revHead', chamberHead') = back
      BY <1>1, <2>9, <2>10, Walk
    <2>12. Chamber' = Chamber /\ ChamberLinked'
      <3>1. Chamber' = Chamber
        BY <1>2, <2>1, <2>9, <2>11 DEF Chamber
      <3>2. ChamberHangs'
        BY <1>1, <2>9, <2>10, <2>11 DEF ChamberHangs
      <3> QED
        BY <2>1, <3>1, <3>2 DEF ChamberLinked
    <2>13. /\ Pool' = Pool /\ HeldAreUnqueued'
           /\ \A c \in Clients : PoolLinked(c)' /\ OpenShape(c)' /\ AllocShape(c)' /\ SubmitShape(c)'
           /\ Items(s) \cap Items(Intake) = {} /\ Items(s) \cap Items(Exhaust) = {}
      <3>1. Items(s) \subseteq Items(Chamber)
        BY <1>2
      <3> QED
        BY <2>6, <3>1, ClientsUndisturbed DEF ExhaustBegin
    <2>14. Intake' = Intake /\ IntakeLinked' /\ Exhaust' = Exhaust /\ ExhaustLinked'
      BY <1>1, <2>6, <2>13, IntakeKept, ExhaustKept
    <2>15. TypeOK'
      <3>1. revHead' \in Pointer /\ renderTail' \in Pointer
        BY <1>1, <2>1, <2>3, <2>4, <2>5 DEF TypeOK, Pointer
      <3>2. UNCHANGED <<tail, poolHead, clientVars, chamberHead>>
        BY DEF ExhaustBegin
      <3> QED
        BY <1>1, <2>1, <2>6, <3>1, <3>2 DEF TypeOK, clientVars
    <2>16. RenderShape'
      BY <2>1 DEF RenderShape
    <2>17. LinkInv'
      BY <2>12, <2>13, <2>14, <2>15, <2>16 DEF LinkInv
    <2>18. Render' = Render
      BY <1>1, <2>1 DEF Render
    <2>19. UNCHANGED C!channelVars
      BY <2>12, <2>13, <2>14, <2>18 DEF C!channelVars, ExhaustBegin
    <2> QED
      BY <2>17, <2>19
  <1> QED
    BY <1>4, <1>5

\* The compare-and-swap puts the chamber on top of the exhaust; a lost one
\* links it to the new tail.
LEMMA ExhaustCasStep ==
  ASSUME QueueInv, ExhaustCas
  PROVE  LinkInv' /\ [C!Next]_C!channelVars
  <1>1. LinkInv /\ TypeOK /\ renderPc = "exhaust"
    BY DEF QueueInv, LinkInv, ExhaustCas
  <1>2. PICK s, back : s = Chamber /\ back = Reverse(s)
    OBVIOUS
  <1>3. /\ s \in Seq(Commands) /\ back \in Seq(Commands) /\ Reverse(back) = s
        /\ Items(back) = Items(s) /\ Items(s) \subseteq Commands
    BY <1>1, <1>2, ChamberStanding, Backwards, ReverseTwice, ReverseKeeps, ItemsIn
  <1>4. Leads(next, revHead, back, renderTail) /\ back # <<>> /\ back[Len(back)] = chamberHead
    BY <1>1, <1>2, ChamberStanding
  <1>5. chamberHead \in Items(s) /\ revHead \in Commands
    <2>1. Len(back) \in 1..Len(back) /\ 1 \in 1..Len(back)
      BY <1>3, <1>4
    <2>2. revHead = back[1] /\ back[Len(back)] \in Items(back)
      BY <1>4, <2>1 DEF Leads, Items
    <2> QED
      BY <1>3, <1>4, <2>1, <2>2 DEF Items
  <1>6. Elsewhere({chamberHead}) /\ {chamberHead} \subseteq Items(Chamber)
    BY <1>1, <1>2, <1>5 DEF Elsewhere, ExhaustCas, TypeOK
  <1>7. /\ Pool' = Pool /\ HeldAreUnqueued'
        /\ \A c \in Clients : PoolLinked(c)' /\ OpenShape(c)' /\ AllocShape(c)' /\ SubmitShape(c)'
        /\ {chamberHead} \cap Items(Intake) = {} /\ {chamberHead} \cap Items(Exhaust) = {}
    BY <1>6, ClientsUndisturbed DEF ExhaustCas
  <1>8. Intake' = Intake /\ IntakeLinked'
    <2>1. tail'["intake"] = tail["intake"]
      BY <1>1 DEF ExhaustCas, TypeOK
    <2> QED
      BY <1>1, <1>6, <1>7, <2>1, IntakeKept
  <1>9. TypeOK'
    <2>1. /\ next' \in [Commands -> Pointer] /\ tail' \in [{"intake", "exhaust"} -> Pointer]
      BY <1>1, <1>5 DEF ExhaustCas, TypeOK, Pointer
    <2>2. /\ chamberHead' \in Pointer /\ renderTail' \in Pointer /\ revHead' \in Pointer
          /\ renderPc' \in {"wait", "exhaust"}
      BY <1>1 DEF ExhaustCas, TypeOK, Pointer
    <2>3. UNCHANGED <<poolHead, clientVars>>
      BY DEF ExhaustCas
    <2> QED
      BY <1>1, <2>1, <2>2, <2>3 DEF TypeOK, clientVars
  <1>10. CASE tail["exhaust"] = renderTail
    <2>1. /\ tail'["exhaust"] = revHead /\ chamberHead' = NULL /\ renderPc' = "wait" /\ next' = next
      BY <1>1, <1>10 DEF ExhaustCas, TypeOK
    <2>2. PICK q : q = Exhaust
      OBVIOUS
    <2>3. /\ q \in Seq(Commands) /\ Leads(next, renderTail, Reverse(q), NULL)
          /\ Items(Reverse(q)) = Items(q)
      BY <1>1, <1>10, <2>2, Standing, ReverseKeeps
    <2>4. Items(back) \cap Items(Reverse(q)) = {}
      BY <1>2, <1>3, <2>2, <2>3, Apart DEF QueueInv
    <2>5. PICK r : r = Reverse(q)
      OBVIOUS
    <2>6. Leads(next, revHead, back \o r, NULL)
      BY <1>4, <2>3, <2>4, <2>5, ChainsJoined
    <2>7. PICK t : t = q \o s
      OBVIOUS
    <2>8. t \in Seq(Commands) /\ Reverse(t) = back \o r
      <3>1. Reverse(q \o s) = Reverse(s) \o Reverse(q)
        BY <1>3, <2>3, ReverseConcat
      <3>2. Reverse(t) = back \o r
        BY <1>2, <2>5, <2>7, <3>1, Zenon
      <3>3. t \in Seq(Commands)
        BY <1>3, <2>3, <2>7
      <3> QED
        BY <3>2, <3>3
    <2>9. Leads(next', tail'["exhaust"], Reverse(t), NULL)
      BY <2>1, <2>6, <2>8
    <2>10. Exhaust' = t /\ ExhaustLinked'
      <3>1. Reverse(ChainTo(next', tail'["exhaust"], NULL)) = t /\ Linked(next', tail'["exhaust"])
        BY <2>8, <2>9, StackRead
      <3> QED
        BY <3>1 DEF Exhaust, ExhaustLinked, Chain
    <2>11. Chamber' = <<>> /\ ChamberLinked'
      <3>1. ChainTo(next', NULL, NULL) = <<>> /\ Linked(next', NULL)
        BY EmptyChain, LinkedBy
      <3> QED
        BY <2>1, <3>1 DEF Chamber, ChamberLinked, Chain
    <2>12. Render = "batch" /\ Render' = "idle"
      BY <1>1, <2>1 DEF Render
    <2>13. Exhaust' = Exhaust \o Chamber
      BY <1>2, <2>2, <2>7, <2>10
    <2>14. C!ServiceExhaust
      BY <1>7, <1>8, <2>11, <2>12, <2>13 DEF C!ServiceExhaust, ExhaustCas
    <2>15. RenderShape'
      BY <2>1 DEF RenderShape
    <2>16. LinkInv'
      BY <1>7, <1>8, <1>9, <2>10, <2>11, <2>15 DEF LinkInv
    <2> QED
      BY <2>14, <2>16 DEF C!Next
  <1>11. CASE tail["exhaust"] # renderTail
    <2>1. /\ renderTail' = tail["exhaust"] /\ next' = [next EXCEPT ![chamberHead] = tail["exhaust"]]
          /\ tail' = tail /\ chamberHead' = chamberHead /\ revHead' = revHead /\ renderPc' = renderPc
      BY <1>11 DEF ExhaustCas
    <2>2. next'[chamberHead] = renderTail'
      BY <1>1, <1>3, <1>5, <2>1 DEF TypeOK
    <2>3. Leads(next', revHead', back, renderTail')
      <3>1. \A i \in Items(back) : i # back[Len(back)] => next'[i] = next[i]
        BY <1>3, <1>4, <1>6 DEF Elsewhere
      <3>2. next'[back[Len(back)]] = renderTail'
        BY <1>4, <2>2
      <3>3. Leads(next', revHead, back, renderTail')
        BY <1>4, <3>1, <3>2, ChainRelinked
      <3> QED
        BY <2>1, <3>3
    <2>4. ChainTo(next', revHead', chamberHead') = back
      BY <1>4, <2>1, <2>3, Walk
    <2>5. Chamber' = Chamber /\ ChamberLinked'
      <3>1. Chamber' = Chamber
        BY <1>1, <1>2, <1>3, <2>1, <2>4 DEF Chamber
      <3>2. ChamberHangs'
        BY <1>4, <2>1, <2>3, <2>4 DEF ChamberHangs
      <3> QED
        BY <1>1, <2>1, <3>1, <3>2 DEF ChamberLinked
    <2>6. Exhaust' = Exhaust /\ ExhaustLinked'
      BY <1>1, <1>6, <1>7, <2>1, ExhaustKept
    <2>7. RenderShape'
      BY <1>1, <2>1 DEF RenderShape
    <2>8. LinkInv'
      BY <1>7, <1>8, <1>9, <2>5, <2>6, <2>7 DEF LinkInv
    <2>9. Render' = Render
      BY <2>1 DEF Render
    <2>10. UNCHANGED C!channelVars
      BY <1>7, <1>8, <2>5, <2>6, <2>9 DEF C!channelVars, ExhaustCas
    <2> QED
      BY <2>8, <2>10
  <1> QED
    BY <1>10, <1>11

\* The thread leaves between batches.
LEMMA RenderExitStep ==
  ASSUME QueueInv, RenderExit
  PROVE  LinkInv' /\ [C!Next]_C!channelVars
  <1>1. /\ LinkInv /\ TypeOK /\ next' = next /\ tail' = tail /\ Elsewhere({})
        /\ {} \subseteq Items(Chamber) /\ renderPc = "wait" /\ renderPc' = "gone"
    BY DEF QueueInv, LinkInv, RenderExit, Elsewhere
  <1>2. /\ Pool' = Pool /\ HeldAreUnqueued'
        /\ \A c \in Clients : PoolLinked(c)' /\ OpenShape(c)' /\ AllocShape(c)' /\ SubmitShape(c)'
    BY <1>1, ClientsUndisturbed DEF RenderExit
  <1>3. Intake' = Intake /\ IntakeLinked' /\ Exhaust' = Exhaust /\ ExhaustLinked'
    BY <1>1, NoLinkWritten, IntakeKept, ExhaustKept
  <1>4. Chamber' = Chamber /\ ChamberLinked'
    BY <1>1, ChamberAtRest DEF RenderExit
  <1>5. TypeOK' /\ RenderShape'
    <2>1. UNCHANGED <<next, tail, poolHead, clientVars, chamberHead, renderTail, revHead>>
      BY DEF RenderExit
    <2> QED
      BY <1>1, <2>1 DEF LinkInv, TypeOK, clientVars, RenderShape
  <1>6. LinkInv'
    BY <1>2, <1>3, <1>4, <1>5 DEF LinkInv
  <1>7. Render = "idle" /\ Render' = "gone"
    BY <1>1 DEF Render
  <1>8. C!RenderExit
    BY <1>2, <1>3, <1>4, <1>7 DEF C!RenderExit, RenderExit
  <1> QED
    BY <1>6, <1>8 DEF C!Next

\* Nothing happens.
LEMMA IdleStep ==
  ASSUME QueueInv, UNCHANGED vars
  PROVE  LinkInv' /\ [C!Next]_C!channelVars
  <1>1. /\ LinkInv /\ TypeOK /\ Elsewhere({}) /\ {} \subseteq Items(Chamber)
        /\ UNCHANGED <<free, open, held, leaked, next, tail, poolHead, clientVars, renderVars>>
    BY DEF QueueInv, LinkInv, Elsewhere, vars, clientVars, renderVars
  <1>2. /\ Pool' = Pool /\ HeldAreUnqueued'
        /\ \A c \in Clients : PoolLinked(c)' /\ OpenShape(c)' /\ AllocShape(c)' /\ SubmitShape(c)'
    BY <1>1, ClientsUndisturbed
  <1>3. /\ UNCHANGED <<Intake, Exhaust, Chamber, Render>>
        /\ IntakeLinked' /\ ExhaustLinked' /\ ChamberLinked' /\ RenderShape'
    BY <1>1, NoLinkWritten, SharedKept
  <1>4. TypeOK'
    BY <1>1 DEF TypeOK, clientVars, renderVars
  <1>5. LinkInv'
    BY <1>2, <1>3, <1>4 DEF LinkInv
  <1>6. UNCHANGED C!channelVars
    BY <1>1, <1>2, <1>3 DEF C!channelVars
  <1> QED
    BY <1>5, <1>6

-----------------------------------------------------------------------------
(* The refinement. *)

\* At first every queue is empty.
LEMMA QueueInit == Init => QueueInv /\ C!Init
  <1> SUFFICES ASSUME Init PROVE QueueInv /\ C!Init
    OBVIOUS
  <1>1. ChainTo(next, NULL, NULL) = <<>> /\ Linked(next, NULL) /\ Reverse(<<>>) = <<>>
    BY EmptyChain, LinkedBy DEF Reverse
  <1>2. /\ tail["intake"] = NULL /\ tail["exhaust"] = NULL /\ chamberHead = NULL /\ renderPc = "wait"
        /\ \A c \in Clients : /\ poolHead[c] = NULL /\ allocPc[c] = "ready"
                             /\ submitPc[c] = "ready" /\ held[c] = {}
    BY DEF Init
  <1>3. Intake = <<>> /\ Exhaust = <<>> /\ Chamber = <<>> /\ Render = "idle"
    BY <1>1, <1>2 DEF Intake, Exhaust, Chamber, Render, Chain
  <1>4. Pool = [c \in Clients |-> <<>>]
    BY <1>1, <1>2 DEF Pool, Chain
  <1>5. C!Init
    BY <1>3, <1>4 DEF C!Init, Init
  <1>6. C!ChannelInv
    BY <1>5, C!OwnershipInit
  <1>7. TypeOK
    BY DEF Init, TypeOK, Pointer
  <1>8. IntakeLinked /\ ExhaustLinked /\ ChamberLinked /\ RenderShape
    BY <1>1, <1>2 DEF IntakeLinked, ExhaustLinked, ChamberLinked, RenderShape
  <1>9. ASSUME NEW c \in Clients
        PROVE  PoolLinked(c) /\ OpenShape(c) /\ AllocShape(c) /\ SubmitShape(c)
    BY <1>1, <1>2 DEF PoolLinked, OpenShape, AllocShape, SubmitShape
  <1>10. HeldAreUnqueued
    BY <1>2 DEF HeldAreUnqueued
  <1> QED
    BY <1>5, <1>6, <1>7, <1>8, <1>9, <1>10 DEF QueueInv, LinkInv

\* Every step keeps the invariant and is a step of the channel, or none.
LEMMA QueueStep == QueueInv /\ [Next]_vars => QueueInv' /\ [C!Next]_C!channelVars
  <1> SUFFICES ASSUME QueueInv, [Next]_vars PROVE QueueInv' /\ [C!Next]_C!channelVars
    OBVIOUS
  <1>1. ASSUME NEW c \in Clients, ClientStep(c) PROVE LinkInv' /\ [C!Next]_C!channelVars
    BY <1>1, OpenClientStep, CloseClientStep, AllocBeginStep, AllocSpillStep, AllocReverseStep,
       AllocPopStep, AllocFromHeapStep, SubmitBeginStep, SubmitCasStep
    DEF ClientStep
  <1>2. ASSUME RenderStep PROVE LinkInv' /\ [C!Next]_C!channelVars
    BY <1>2, IntakeBeginStep, IntakeCasStep, IntakeReverseStep, ExhaustBeginStep, ExhaustCasStep
    DEF RenderStep
  <1>3. LinkInv' /\ [C!Next]_C!channelVars
    BY <1>1, <1>2, RenderExitStep, IdleStep DEF Next
  <1>4. C!ChannelInv'
    BY <1>3, C!OwnershipStep DEF QueueInv
  <1> QED
    BY <1>3, <1>4 DEF QueueInv

(* Whatever the threads do, every pointer starts a chain, the chains are  *)
(* apart, and what is linked is owned as the channel says.                 *)
THEOREM QueueCorrect == Spec => []QueueInv
  <1>1. Init => QueueInv
    BY QueueInit
  <1>2. QueueInv /\ [Next]_vars => QueueInv'
    BY QueueStep
  <1> QED
    BY <1>1, <1>2, PTL DEF Spec

(* A command a client has in its hands is in no queue, except the one it   *)
(* is pushing: the assertions of snd_command_clear and qitem_fini hold for *)
(* any number of threads.                                                  *)
THEOREM HeldUnqueued == Spec => []HeldAreUnqueued
  <1>1. QueueInv => HeldAreUnqueued
    BY DEF QueueInv, LinkInv
  <1> QED
    BY <1>1, QueueCorrect, PTL

(* Every behaviour of the linked stacks and their compare-and-swap loops   *)
(* is one of the channel: queues lose, repeat and reorder nothing.         *)
THEOREM LinksImplementChannel == Spec => ImplementsChannel
  <1>1. Init => C!Init
    BY QueueInit
  <1>2. QueueInv /\ [Next]_vars => [C!Next]_C!channelVars
    BY QueueStep
  <1>3. C!Init => Channel!Init
    BY DEF C!Init, Channel!Init
  <1>4. [C!Next]_C!channelVars => [Channel!Next]_Channel!channelVars
    BY DEF C!Next, Channel!Next, C!ClientStep, Channel!ClientStep, C!channelVars, Channel!channelVars,
       C!OpenClient, Channel!OpenClient, C!CloseClient, Channel!CloseClient,
       C!SpillExhaust, Channel!SpillExhaust, C!AllocRecycled, Channel!AllocRecycled,
       C!AllocNew, Channel!AllocNew, C!Submit, Channel!Submit,
       C!ServiceIntake, Channel!ServiceIntake, C!ServiceExhaust, Channel!ServiceExhaust,
       C!RenderExit, Channel!RenderExit, C!Items, Channel!Items
  <1> QED
    BY <1>1, <1>2, <1>3, <1>4, QueueCorrect, PTL DEF Spec, ImplementsChannel, Channel!Spec

-----------------------------------------------------------------------------
(* What the channel promises, of the links: the names of the channel's     *)
(* instance here are those of the instance its proofs are read through.    *)
LEMMA ChannelHere ==
  /\ C!ChannelTypeOK => Channel!ChannelTypeOK
  /\ C!OwnedOnce => Channel!OwnedOnce
  /\ C!ChamberEmptyBetweenBatches => Channel!ChamberEmptyBetweenBatches
  <1>1. C!ChannelTypeOK => Channel!ChannelTypeOK
    BY DEF C!ChannelTypeOK, Channel!ChannelTypeOK
  <1>2. C!OwnedOnce => Channel!OwnedOnce
    BY DEF C!OwnedOnce, Channel!OwnedOnce, C!QueuesDistinct, Channel!QueuesDistinct,
       C!SharedPlacesDisjoint, Channel!SharedPlacesDisjoint,
       C!ClientPlacesDisjoint, Channel!ClientPlacesDisjoint,
       C!NothingLost, Channel!NothingLost, C!Shared, Channel!Shared, C!Owned, Channel!Owned,
       C!Distinct, Channel!Distinct, C!Items, Channel!Items
  <1>3. C!ChamberEmptyBetweenBatches => Channel!ChamberEmptyBetweenBatches
    BY DEF C!ChamberEmptyBetweenBatches, Channel!ChamberEmptyBetweenBatches
  <1> QED
    BY <1>1, <1>2, <1>3

(* The variables keep their types, whatever the threads do, as do the      *)
(* queues they stand for.                                                  *)
THEOREM QueueTypes == Spec => []QueueTypeOK
  <1>1. QueueInv => QueueTypeOK
    BY ChannelHere DEF QueueInv, LinkInv, QueueTypeOK, C!ChannelInv
  <1> QED
    BY <1>1, QueueCorrect, PTL

(* No interleaving of the loops in queue.c leaves a command in two places, *)
(* twice in one, or in none.                                               *)
THEOREM CommandsOwnedOnce == Spec => []OwnedOnce
  <1>1. QueueInv => OwnedOnce
    BY ChannelHere DEF QueueInv, OwnedOnce, C!ChannelInv
  <1> QED
    BY <1>1, QueueCorrect, PTL

(* The render thread takes its batch into an empty chamber (queue.c:115).  *)
THEOREM ChamberIsEmpty == Spec => []ChamberEmptyBetweenBatches
  <1>1. QueueInv => ChamberEmptyBetweenBatches
    BY ChannelHere DEF QueueInv, ChamberEmptyBetweenBatches, C!ChannelInv
  <1> QED
    BY <1>1, QueueCorrect, PTL
=============================================================================
