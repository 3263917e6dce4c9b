------------------------ MODULE CommandChannelProofs ------------------------
(* Proofs about the abstract command channel, for any number of clients    *)
(* and commands.                                                           *)
EXTENDS CommandChannel, TLAPS

(* How the queue operations act on the set of a queue's commands and on    *)
(* its freedom from repetition.                                            *)
LEMMA EmptyQueue == Items(<<>>) = {} /\ Distinct(<<>>)
  BY DEF Items, Distinct

LEMMA AppendQueue ==
  ASSUME NEW S, NEW q \in Seq(S), NEW x \in S
  PROVE  /\ Append(q, x) \in Seq(S)
         /\ Items(Append(q, x)) = Items(q) \union {x}
         /\ Distinct(q) /\ x \notin Items(q) => Distinct(Append(q, x))
  BY DEF Items, Distinct

LEMMA TailQueue ==
  ASSUME NEW S, NEW q \in Seq(S), q # <<>>
  PROVE  /\ Head(q) \in S /\ Tail(q) \in Seq(S)
         /\ Items(q) = Items(Tail(q)) \union {Head(q)}
         /\ Distinct(q) => Distinct(Tail(q)) /\ Head(q) \notin Items(Tail(q))
  BY DEF Items, Distinct

LEMMA ConcatQueue ==
  ASSUME NEW S, NEW q \in Seq(S), NEW r \in Seq(S)
  PROVE  /\ q \o r \in Seq(S)
         /\ Items(q \o r) = Items(q) \union Items(r)
         /\ Distinct(q) /\ Distinct(r) /\ Items(q) \cap Items(r) = {} => Distinct(q \o r)
  <1> DEFINE m == Len(q)  n == Len(r)  qr == q \o r
  <1>1. /\ m \in Nat /\ n \in Nat
        /\ qr \in Seq(S) /\ Len(qr) = m + n
        /\ \A i \in 1..(m + n) : qr[i] = IF i <= m THEN q[i] ELSE r[i - m]
    OBVIOUS
  <1> HIDE DEF m, n, qr
  <1>2. \A i \in 1..m : qr[i] = q[i] /\ i \in 1..(m + n)
    BY <1>1
  <1>3. \A i \in 1..n : qr[i + m] = r[i] /\ i + m \in 1..(m + n)
    BY <1>1
  <1>4. \A i \in 1..(m + n) : i \in 1..m \/ (i - m \in 1..n /\ qr[i] = r[i - m])
    BY <1>1
  <1>5. Items(qr) = Items(q) \union Items(r)
    <2>0. /\ Items(qr) = {qr[i] : i \in 1..(m + n)}
          /\ Items(q) = {q[i] : i \in 1..m}
          /\ Items(r) = {r[i] : i \in 1..n}
      BY <1>1 DEF Items, m, n
    <2>1. ASSUME NEW x \in Items(qr) PROVE x \in Items(q) \union Items(r)
      <3>1. PICK i \in 1..(m + n) : x = qr[i]
        BY <2>0, <2>1
      <3>2. CASE i \in 1..m
        BY <1>2, <2>0, <3>1, <3>2
      <3>3. CASE i - m \in 1..n /\ qr[i] = r[i - m]
        BY <2>0, <3>1, <3>3
      <3> QED
        BY <1>4, <3>2, <3>3
    <2>2. ASSUME NEW x \in Items(q) PROVE x \in Items(qr)
      <3>1. PICK i \in 1..m : x = q[i]
        BY <2>0, <2>2
      <3> QED
        BY <1>2, <2>0, <3>1
    <2>3. ASSUME NEW x \in Items(r) PROVE x \in Items(qr)
      <3>1. PICK i \in 1..n : x = r[i]
        BY <2>0, <2>3
      <3> QED
        BY <1>3, <2>0, <3>1
    <2> QED
      BY <2>1, <2>2, <2>3
  <1>6. ASSUME Distinct(q), Distinct(r), Items(q) \cap Items(r) = {}
        PROVE  Distinct(qr)
    <2>1. \A i \in 1..m, j \in 1..n : q[i] # r[j]
      BY <1>6 DEF Items, m, n
    <2>2. SUFFICES ASSUME NEW i \in 1..(m + n), NEW j \in 1..(m + n), qr[i] = qr[j]
                   PROVE  i = j
      BY <1>1 DEF Distinct
    <2>3. CASE i \in 1..m /\ j \in 1..m
      BY <1>2, <1>6, <2>2, <2>3 DEF Distinct, m
    <2>4. CASE i - m \in 1..n /\ j - m \in 1..n
      <3>1. r[i - m] = r[j - m]
        BY <1>1, <2>2, <2>4
      <3>2. i - m = j - m
        BY <1>6, <2>4, <3>1 DEF Distinct, n
      <3> QED
        BY <1>1, <3>2
    <2>5. CASE i \in 1..m /\ j - m \in 1..n
      BY <1>1, <1>2, <2>1, <2>2, <2>5
    <2>6. CASE i - m \in 1..n /\ j \in 1..m
      BY <1>1, <1>2, <2>1, <2>2, <2>6
    <2> QED
      BY <1>4, <2>3, <2>4, <2>5, <2>6
  <1> QED
    BY <1>1, <1>5, <1>6 DEF qr

LEMMA ItemsOf ==
  ASSUME NEW S, NEW q \in Seq(S)
  PROVE  Items(q) \subseteq S
  BY DEF Items

-----------------------------------------------------------------------------
(* The types of the channel's variables. *)
LEMMA TypeInit == Init => ChannelTypeOK
  BY DEF Init, ChannelTypeOK

LEMMA TypeStep == ChannelTypeOK /\ [Next]_channelVars => ChannelTypeOK'
  <1> SUFFICES ASSUME ChannelTypeOK, [Next]_channelVars PROVE ChannelTypeOK'
    OBVIOUS
  <1> USE DEF ChannelTypeOK
  <1>1. ASSUME NEW c \in Clients, OpenClient(c) PROVE ChannelTypeOK'
    BY <1>1 DEF OpenClient
  <1>2. ASSUME NEW c \in Clients, CloseClient(c) PROVE ChannelTypeOK'
    BY <1>2, ItemsOf DEF CloseClient
  <1>3. ASSUME NEW c \in Clients, SpillExhaust(c) PROVE ChannelTypeOK'
    BY <1>3 DEF SpillExhaust
  <1>4. ASSUME NEW c \in Clients, AllocRecycled(c) PROVE ChannelTypeOK'
    <2>1. Head(pool[c]) \in Commands /\ Tail(pool[c]) \in Seq(Commands)
      BY <1>4, TailQueue DEF AllocRecycled
    <2> QED
      BY <1>4, <2>1 DEF AllocRecycled
  <1>5. ASSUME NEW c \in Clients, NEW cmd \in Commands, AllocNew(c, cmd)
        PROVE  ChannelTypeOK'
    BY <1>5 DEF AllocNew
  <1>6. ASSUME NEW c \in Clients, NEW cmd \in Commands, Submit(c, cmd)
        PROVE  ChannelTypeOK'
    BY <1>6 DEF Submit
  <1>7. CASE ServiceIntake
    BY <1>7 DEF ServiceIntake
  <1>8. CASE ServiceExhaust
    BY <1>8, ConcatQueue DEF ServiceExhaust
  <1>9. CASE RenderExit
    BY <1>9 DEF RenderExit
  <1>10. CASE UNCHANGED channelVars
    BY <1>10 DEF channelVars
  <1> QED
    BY <1>1, <1>2, <1>3, <1>4, <1>5, <1>6, <1>7, <1>8, <1>9, <1>10
    DEF Next, ClientStep

(* Every variable of the channel keeps its type. *)
THEOREM TypeCorrect == Spec => []ChannelTypeOK
  BY TypeInit, TypeStep, PTL DEF Spec

-----------------------------------------------------------------------------
(* Ownership.  The chamber has to be empty between batches, or the next    *)
(* intake would drop what is in it: that is the strengthening.             *)
ChannelInv == ChannelTypeOK /\ OwnedOnce /\ ChamberEmptyBetweenBatches

LEMMA OwnershipInit == Init => ChannelInv
  <1> SUFFICES ASSUME Init PROVE ChannelInv
    OBVIOUS
  <1> USE EmptyQueue DEF Init
  <1>1. QueuesDistinct
    BY DEF QueuesDistinct
  <1>2. SharedPlacesDisjoint
    BY DEF SharedPlacesDisjoint, Shared
  <1>3. ClientPlacesDisjoint
    BY DEF ClientPlacesDisjoint, Owned, Shared
  <1>4. NothingLost
    BY DEF NothingLost
  <1> QED
    BY <1>1, <1>2, <1>3, <1>4, TypeInit DEF ChannelInv, OwnedOnce, ChamberEmptyBetweenBatches

(* What a step does to the places, as sets: enough to re-establish         *)
(* ownership without looking at the sequences again.                       *)
LEMMA OwnershipStep == ChannelInv /\ [Next]_channelVars => ChannelInv'
  <1> SUFFICES ASSUME ChannelInv, [Next]_channelVars PROVE ChannelInv'
    OBVIOUS
  <1> USE DEF ChannelInv
  <1>t. ChannelTypeOK'
    BY TypeStep
  <1> USE DEF OwnedOnce, QueuesDistinct, SharedPlacesDisjoint, ClientPlacesDisjoint,
              NothingLost, ChamberEmptyBetweenBatches, Owned, Shared
  <1>1. ASSUME NEW c \in Clients, OpenClient(c) PROVE ChannelInv'
    BY <1>t, <1>1 DEF OpenClient
  <1>2. ASSUME NEW c \in Clients, CloseClient(c) PROVE ChannelInv'
    <2>1. /\ Items(pool'[c]) = {} /\ Distinct(pool'[c]) /\ held'[c] = {}
          /\ free' = free \union Items(pool[c]) /\ leaked' = leaked \union held[c]
          /\ \A d \in Clients : d # c => pool'[d] = pool[d] /\ held'[d] = held[d]
          /\ UNCHANGED <<intake, chamber, exhaust, render>>
      BY <1>2, EmptyQueue DEF CloseClient, ChannelTypeOK
    <2> QED
      BY <1>t, <2>1
  <1>3. ASSUME NEW c \in Clients, SpillExhaust(c) PROVE ChannelInv'
    <2>1. /\ Items(pool[c]) = {}
          /\ pool'[c] = exhaust
          /\ exhaust' = <<>> /\ Items(exhaust') = {} /\ Distinct(exhaust')
          /\ \A d \in Clients : d # c => pool'[d] = pool[d]
          /\ UNCHANGED <<free, held, leaked, intake, chamber, render>>
      BY <1>3, EmptyQueue DEF SpillExhaust, ChannelTypeOK
    <2> QED
      BY <1>t, <2>1
  <1>4. ASSUME NEW c \in Clients, AllocRecycled(c) PROVE ChannelInv'
    <2> DEFINE cmd == Head(pool[c])
    <2>1. /\ Items(pool[c]) = Items(Tail(pool[c])) \union {cmd}
          /\ Distinct(Tail(pool[c])) /\ cmd \notin Items(Tail(pool[c]))
      BY <1>4, TailQueue DEF AllocRecycled, ChannelTypeOK
    <2>2. /\ held'[c] = held[c] \union {cmd}
          /\ pool'[c] = Tail(pool[c])
          /\ \A d \in Clients : d # c => pool'[d] = pool[d] /\ held'[d] = held[d]
          /\ UNCHANGED <<free, leaked, intake, chamber, exhaust, render>>
      BY <1>4 DEF AllocRecycled, ChannelTypeOK
    <2> HIDE DEF cmd
    <2> QED
      BY <1>t, <2>1, <2>2
  <1>5. ASSUME NEW c \in Clients, NEW cmd \in Commands, AllocNew(c, cmd)
        PROVE  ChannelInv'
    <2>1. /\ cmd \in free /\ free' = free \ {cmd}
          /\ held'[c] = held[c] \union {cmd}
          /\ \A d \in Clients : d # c => held'[d] = held[d]
          /\ UNCHANGED <<leaked, pool, intake, chamber, exhaust, render>>
      BY <1>5 DEF AllocNew, ChannelTypeOK
    <2> QED
      BY <1>t, <2>1
  <1>6. ASSUME NEW c \in Clients, NEW cmd \in Commands, Submit(c, cmd)
        PROVE  ChannelInv'
    <2>1. /\ cmd \in held[c] /\ held'[c] = held[c] \ {cmd}
          /\ \A d \in Clients : d # c => held'[d] = held[d]
          /\ UNCHANGED <<free, leaked, pool, chamber, exhaust, render>>
      BY <1>6 DEF Submit, ChannelTypeOK
    <2>2. /\ Items(intake') = Items(intake) \union {cmd}
          /\ Distinct(intake')
      BY <1>6, AppendQueue DEF Submit, ChannelTypeOK
    <2> QED
      BY <1>t, <2>1, <2>2
  <1>7. CASE ServiceIntake
    BY <1>t, <1>7, EmptyQueue DEF ServiceIntake
  <1>8. CASE ServiceExhaust
    <2>1. /\ Items(exhaust') = Items(exhaust) \union Items(chamber)
          /\ Distinct(exhaust')
      BY <1>8, ConcatQueue DEF ServiceExhaust, ChannelTypeOK
    <2> QED
      BY <1>t, <1>8, <2>1, EmptyQueue DEF ServiceExhaust
  <1>9. CASE RenderExit
    BY <1>t, <1>9 DEF RenderExit
  <1>10. CASE UNCHANGED channelVars
    BY <1>t, <1>10 DEF channelVars
  <1> QED
    BY <1>1, <1>2, <1>3, <1>4, <1>5, <1>6, <1>7, <1>8, <1>9, <1>10
    DEF Next, ClientStep

(* Every command is in exactly one place, exactly once, for any number of  *)
(* clients and commands.                                                   *)
THEOREM OwnershipSafe == Spec => []OwnedOnce
  <1>1. ChannelInv => OwnedOnce
    BY DEF ChannelInv
  <1> QED
    BY <1>1, OwnershipInit, OwnershipStep, PTL DEF Spec

(* The chamber is empty when a batch is moved into it (queue.c:115).       *)
THEOREM ChamberEmpty == Spec => []ChamberEmptyBetweenBatches
  <1>1. ChannelInv => ChamberEmptyBetweenBatches
    BY DEF ChannelInv
  <1> QED
    BY <1>1, OwnershipInit, OwnershipStep, PTL DEF Spec
=============================================================================
