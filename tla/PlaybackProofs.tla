--------------------------- MODULE PlaybackProofs ---------------------------
(* Proofs about one sound, for any length of its buffer, any period and    *)
(* any number of calls: what snd_stream_render computes, then the commands  *)
(* in flight and the types.                                                *)
EXTENDS Playback, WellFoundedInduction, TLAPS

-----------------------------------------------------------------------------
(* What the loop of snd_stream_render computes, for buffers and periods of *)
(* any length.                                                             *)

(* Once round more makes no difference to a remainder.                     *)
LEMMA OnceRound ==
  ASSUME NEW n \in Nat \ {0}, NEW x \in Nat
  PROVE  (x + n) % n = x % n
  <1>1. PICK q, r : q = x \div n /\ r = x % n
    OBVIOUS
  <1>2. q \in Nat /\ r \in Nat /\ r < n /\ x = n * q + r
    BY <1>1, SMT
  <1>3. x + n = n * (q + 1) + r
    BY <1>2, SMT
  <1>4. (x + n) % n = r
    BY <1>2, <1>3, SMT
  <1> QED
    BY <1>1, <1>4

(* What is less than a round is its own remainder.                         *)
LEMMA WithinRound ==
  ASSUME NEW n \in Nat \ {0}, NEW x \in Nat, x < n
  PROVE  x % n = x
  BY SMT

(* Every set of numbers has a smallest. *)
LEMMA Smallest ==
  ASSUME NEW S \in SUBSET Nat, S # {}
  PROVE  \E n \in S : \A m \in S : n <= m
  <1>1. IsWellFoundedOn(OpToRel(<, Nat), Nat)
    BY NatLessThanWellFounded
  <1>2. PICK n \in S : \A m \in S : ~(<<m, n>> \in OpToRel(<, Nat))
    BY <1>1, WFMin
  <1>3. \A m \in S : ~(m < n)
    BY <1>2 DEF OpToRel
  <1> QED
    BY <1>3

\* A loop advances modulo its length, a single play stops at its end.
Advanced(n, again, p, d) ==
  IF again THEN (p + d) % n ELSE IF p + d > n THEN n ELSE p + d

LEMMA RenderedAdvances ==
  ASSUME NEW n \in Nat \ {0}, NEW again \in BOOLEAN, NEW from \in 0..(n - 1), NEW dest \in Nat
  PROVE  Rendered(n, again, from, dest) = Advanced(n, again, from, dest)
  <1> DEFINE D == (0..n) \X (0..dest)
             End(p, d)  == IF p + d > n THEN n ELSE p + d
             Left(p, d) == IF p + d > n THEN d - (n - p) ELSE 0
             After(p, d) == IF End(p, d) >= n /\ again THEN 0 ELSE End(p, d)
             Body(f) == [x \in D |-> IF Left(x[1], x[2]) = 0 \/ ~again THEN After(x[1], x[2])
                                     ELSE f[<<After(x[1], x[2]), Left(x[1], x[2])>>]]
  <1>1. PICK all : all = [x \in D |-> Advanced(n, again, x[1], x[2])]
    OBVIOUS
  <1>2. ASSUME NEW p \in 0..n, NEW d \in 0..dest
        PROVE  /\ Left(p, d) \in 0..dest /\ After(p, d) \in 0..n
               /\ Left(p, d) # 0 => p + d > n /\ Left(p, d) = p + d - n
               /\ Left(p, d) # 0 /\ again => After(p, d) = 0
    OBVIOUS
  <1>3. ASSUME NEW p \in 0..n, NEW d \in 0..dest
        PROVE  Advanced(n, again, p, d) =
                 IF Left(p, d) = 0 \/ ~again THEN After(p, d)
                 ELSE Advanced(n, again, After(p, d), Left(p, d))
    <2>1. CASE ~again
      BY <2>1 DEF Advanced
    <2>2. CASE again /\ Left(p, d) = 0
      <3>1. p + d <= n
        BY <2>2
      <3>2. CASE p + d < n
        <4>1. (p + d) % n = p + d
          BY <3>2, WithinRound
        <4> QED
          BY <2>2, <3>2, <4>1 DEF Advanced
      <3>3. CASE p + d = n
        <4>1. (0 + n) % n = 0
          BY OnceRound, WithinRound
        <4> QED
          BY <2>2, <3>3, <4>1 DEF Advanced
      <3> QED
        BY <3>1, <3>2, <3>3
    <2>3. CASE again /\ Left(p, d) # 0
      <3>1. After(p, d) = 0 /\ p + d > n /\ Left(p, d) = p + d - n
        BY <1>2, <2>3
      <3>2. PICK x \in Nat : x = p + d - n /\ p + d = x + n
        BY <3>1
      <3>3. (x + n) % n = x % n
        BY OnceRound
      <3>4. Advanced(n, again, p, d) = (x + n) % n
        BY <2>3, <3>2 DEF Advanced
      <3>5. Advanced(n, again, After(p, d), Left(p, d)) = x % n
        BY <2>3, <3>1, <3>2 DEF Advanced
      <3> QED
        BY <2>3, <3>3, <3>4, <3>5
    <2> QED
      BY <2>1, <2>2, <2>3
  <1> HIDE DEF Left, After
  <1>4. all = Body(all)
    <2>1. ASSUME NEW x \in D
          PROVE  all[x] = IF Left(x[1], x[2]) = 0 \/ ~again THEN After(x[1], x[2])
                          ELSE all[<<After(x[1], x[2]), Left(x[1], x[2])>>]
      <3>1. x[1] \in 0..n /\ x[2] \in 0..dest
        OBVIOUS
      <3>2. PICK p, d : p = x[1] /\ d = x[2] /\ p \in 0..n /\ d \in 0..dest
        BY <3>1
      <3>3. <<After(p, d), Left(p, d)>> \in D
        BY <1>2, <3>2
      <3>4. all[<<After(p, d), Left(p, d)>>] = Advanced(n, again, After(p, d), Left(p, d))
        BY <1>1, <3>3
      <3>5. all[x] = Advanced(n, again, p, d)
        BY <1>1, <3>2
      <3> QED
        BY <1>3, <3>2, <3>4, <3>5
    <2> QED
      BY <1>1, <2>1
  <1>5. PICK f : f = Body(f) /\ Rendered(n, again, from, dest) = f[<<from, dest>>]
    <2>1. PICK f : f = CHOOSE g : g = Body(g)
      OBVIOUS
    <2>2. f = Body(f)
      BY <1>4, <2>1
    <2>3. Rendered(n, again, from, dest) = f[<<from, dest>>]
      BY <2>1 DEF Rendered, Left, After
    <2> QED
      BY <2>2, <2>3
  <1>6. ASSUME NEW p \in 0..n, NEW d \in 0..dest
        PROVE  f[<<p, d>>] = IF Left(p, d) = 0 \/ ~again THEN After(p, d)
                             ELSE f[<<After(p, d), Left(p, d)>>]
    <2>1. <<p, d>> \in D
      OBVIOUS
    <2> QED
      BY <1>5, <2>1
  <1>7. \A d \in 0..dest : \A p \in 0..(n - 1) : f[<<p, d>>] = Advanced(n, again, p, d)
    <2> DEFINE Differ == {d \in 0..dest : \E p \in 0..(n - 1) : f[<<p, d>>] # Advanced(n, again, p, d)}
    <2> SUFFICES ASSUME Differ # {} PROVE FALSE
      OBVIOUS
    <2>1. PICK d \in Differ : \A m \in Differ : d <= m
      <3>1. Differ \in SUBSET Nat
        OBVIOUS
      <3> QED
        BY <3>1, Smallest
    <2>2. PICK p \in 0..(n - 1) : f[<<p, d>>] # Advanced(n, again, p, d)
      BY <2>1
    <2>3. p \in 0..n /\ d \in 0..dest /\ p < n
      BY <2>1
    <2>4. Left(p, d) # 0 /\ again
      BY <1>3, <1>6, <2>2, <2>3
    <2>5. After(p, d) = 0 /\ Left(p, d) = p + d - n /\ Left(p, d) \in 0..dest
      BY <1>2, <2>3, <2>4
    <2>6. Left(p, d) \in Differ
      <3>1. f[<<0, Left(p, d)>>] # Advanced(n, again, 0, Left(p, d))
        BY <1>3, <1>6, <2>2, <2>3, <2>4, <2>5
      <3>2. 0 \in 0..(n - 1)
        OBVIOUS
      <3> QED
        BY <2>5, <3>1, <3>2
    <2>7. Left(p, d) < d
      BY <2>3, <2>5
    <2> QED
      BY <2>1, <2>3, <2>5, <2>6, <2>7
  <1>8. f[<<from, dest>>] = Advanced(n, again, from, dest)
    <2>1. dest \in 0..dest /\ from \in 0..(n - 1)
      OBVIOUS
    <2> HIDE DEF Advanced
    <2> QED
      BY <1>7, <2>1, Zenon
  <1>9. Rendered(n, again, from, dest) = f[<<from, dest>>]
    BY <1>5, Zenon
  <1> QED
    BY <1>8, <1>9, Zenon

-----------------------------------------------------------------------------
(* The commands. *)

Starts == {"ONCE", "LOOP"}

LastOf(q) == q[Len(q)]

(* The last command of the chamber and the intake together, when a command *)
(* is posted, when one is executed, and when a batch is taken in.          *)
LEMMA LastPosted ==
  ASSUME NEW q \in Seq(Command), NEW r \in Seq(Command), NEW c \in Command
  PROVE  q \o Append(r, c) # <<>> /\ LastOf(q \o Append(r, c)) = c
  BY DEF LastOf

LEMMA LastOfMore ==
  ASSUME NEW s \in Seq(Command), NEW t \in Seq(Command), NEW h,
         Len(s) = Len(t) + 1, s[1] = h, \A i \in 1..Len(t) : t[i] = s[i + 1]
  PROVE  s # <<>> /\ LastOf(s) = IF t = <<>> THEN h ELSE LastOf(t)
  <1>1. CASE t = <<>>
    <2>1. Len(s) = 1
      BY <1>1
    <2>2. s # <<>> /\ s[Len(s)] = h
      BY <2>1
    <2> QED
      BY <1>1, <2>2 DEF LastOf
  <1>2. CASE t # <<>>
    <2>1. Len(t) \in 1..Len(t)
      BY <1>2
    <2> QED
      BY <1>2, <2>1 DEF LastOf
  <1> QED
    BY <1>1, <1>2

LEMMA LastExecuted ==
  ASSUME NEW q \in Seq(Command), NEW r \in Seq(Command), q # <<>>
  PROVE  /\ q \o r # <<>>
         /\ LastOf(q \o r) = IF Tail(q) \o r = <<>> THEN Head(q) ELSE LastOf(Tail(q) \o r)
  <1> DEFINE s == q \o r  t == Tail(q) \o r
  <1>1. /\ s \in Seq(Command) /\ t \in Seq(Command)
        /\ Len(s) = Len(q) + Len(r) /\ Len(t) = Len(s) - 1 /\ Len(q) >= 1
    OBVIOUS
  <1>2. s[1] = Head(q)
    OBVIOUS
  <1>3. ASSUME NEW i \in 1..Len(t) PROVE t[i] = s[i + 1]
    <2>0. Tail(q) \in Seq(Command) /\ Len(Tail(q)) = Len(q) - 1
      BY <1>1
    <2>1. CASE i <= Len(q) - 1
      <3>1. t[i] = Tail(q)[i] /\ s[i + 1] = q[i + 1]
        BY <2>0, <2>1, <1>1
      <3> QED
        BY <2>1, <3>1
    <2>2. CASE Len(q) - 1 < i
      <3>1. t[i] = r[i - (Len(q) - 1)] /\ s[i + 1] = r[i + 1 - Len(q)]
        BY <2>0, <2>2, <1>1
      <3>2. i - (Len(q) - 1) = i + 1 - Len(q)
        BY <1>1
      <3> QED
        BY <3>1, <3>2
    <2> QED
      BY <1>1, <2>1, <2>2
  <1>4. Len(s) = Len(t) + 1
    BY <1>1
  <1> HIDE DEF s, t
  <1>5. s # <<>> /\ LastOf(s) = IF t = <<>> THEN Head(q) ELSE LastOf(t)
    BY <1>1, <1>2, <1>3, <1>4, LastOfMore
  <1> QED
    BY <1>5 DEF s, t

LEMMA BatchTaken ==
  ASSUME NEW r \in Seq(Command)
  PROVE  r \o <<>> = <<>> \o r
  OBVIOUS

(* The inductive invariant: where the render thread is says what it still  *)
(* holds, and the game's flag and its GetStatus remember a command that    *)
(* started the sound.                                                      *)
FlowTypeOK ==
  /\ intake \in Seq(Command) /\ chamber \in Seq(Command)
  /\ game \in {"idle", "status"}
  /\ render \in {"wait", "execute", "rewind", "mix"}

RenderHolds ==
  /\ render \in {"wait", "mix"} => chamber = <<>>
  /\ render = "mix" => inserted
  /\ render = "rewind" => /\ chamber # <<>> /\ Head(chamber) \in Starts
                          /\ loops = (Head(chamber) = "LOOP")

FollowsLast ==
  IF InFlight # <<>>
  THEN LastOf(InFlight) = last
  ELSE inserted => last \in Starts /\ loops = (last = "LOOP")

GameAsked == (playing \/ game = "status") => last \in Starts

PlaybackInv == FlowTypeOK /\ RenderHolds /\ FollowsLast /\ GameAsked

LEMMA InvInit == Init => PlaybackInv
  BY DEF Init, PlaybackInv, FlowTypeOK, RenderHolds, FollowsLast, GameAsked, InFlight, LastOf

(* A post makes the posted command the last of those in flight.            *)
LEMMA PostFollows ==
  ASSUME PlaybackInv, NEW c \in Command, Post(c), UNCHANGED chamber
  PROVE  intake' \in Seq(Command) /\ last' = c /\ FollowsLast'
  <1>1. intake' = Append(intake, c) /\ last' = c /\ intake' \in Seq(Command)
    BY DEF Post, PlaybackInv, FlowTypeOK
  <1>2. InFlight' = chamber \o Append(intake, c)
    BY <1>1 DEF InFlight
  <1>3. InFlight' # <<>> /\ LastOf(InFlight') = c
    BY <1>2, LastPosted DEF PlaybackInv, FlowTypeOK
  <1> QED
    BY <1>1, <1>3 DEF FollowsLast, LastOf

(* A command executed leaves the last of those in flight as it was, unless *)
(* it was the last itself.                                                 *)
LEMMA ExecutionFollows ==
  ASSUME PlaybackInv, chamber # <<>>,
         chamber' = Tail(chamber), UNCHANGED <<intake, last>>,
         inserted' => Head(chamber) \in Starts /\ loops' = (Head(chamber) = "LOOP")
  PROVE  chamber' \in Seq(Command) /\ FollowsLast'
  <1>1. chamber \in Seq(Command) /\ intake \in Seq(Command)
    BY DEF PlaybackInv, FlowTypeOK
  <1>2. InFlight' = Tail(chamber) \o intake /\ Tail(chamber) \in Seq(Command)
    BY <1>1 DEF InFlight
  <1>3. LastOf(InFlight) = last
    BY <1>1, LastExecuted DEF PlaybackInv, FollowsLast, InFlight
  <1>4. last = IF InFlight' = <<>> THEN Head(chamber) ELSE LastOf(InFlight')
    BY <1>1, <1>2, <1>3, LastExecuted DEF InFlight
  <1> QED
    BY <1>2, <1>4 DEF FollowsLast, LastOf

LEMMA InvStep == PlaybackInv /\ [Next]_vars => PlaybackInv'
  <1> SUFFICES ASSUME PlaybackInv, [Next]_vars
               PROVE  PlaybackInv'
    OBVIOUS
  <1> USE DEF Starts, Command
  <1>1. ASSUME NEW loop \in BOOLEAN, Play(loop)
        PROVE  PlaybackInv'
    <2> DEFINE c == IF loop THEN "LOOP" ELSE "ONCE"
    <2>1. CASE playing
      BY <1>1, <2>1 DEF Play, Call, PlaybackInv, FlowTypeOK, RenderHolds, FollowsLast,
         GameAsked, InFlight, LastOf, renderVars, streamVars
    <2>2. CASE ~playing
      <3>1. Post(c) /\ c \in Starts /\ UNCHANGED <<game, renderVars, streamVars>>
        BY <1>1, <2>2 DEF Play
      <3>2. intake' \in Seq(Command) /\ last' = c /\ FollowsLast'
        BY <3>1, PostFollows DEF renderVars
      <3> QED
        BY <3>1, <3>2 DEF PlaybackInv, FlowTypeOK, RenderHolds, GameAsked, renderVars, streamVars
    <2> QED
      BY <2>1, <2>2
  <1>2. CASE Stop
    <2>1. intake' \in Seq(Command) /\ FollowsLast'
      BY <1>2, PostFollows DEF Stop, renderVars
    <2> QED
      BY <1>2, <2>1 DEF Stop, Call, PlaybackInv, FlowTypeOK, RenderHolds, GameAsked,
         renderVars, streamVars
  <1>3. CASE SetCurrentPosition \/ GetStatus \/ StatusReturns
    BY <1>3 DEF SetCurrentPosition, GetStatus, StatusReturns, Call, PlaybackInv, FlowTypeOK,
       RenderHolds, FollowsLast, GameAsked, InFlight, LastOf, bufferVars, renderVars, streamVars
  <1>4. CASE ServiceIntake
    <2>1. /\ chamber = <<>> /\ chamber' = intake /\ intake' = <<>> /\ intake \in Seq(Command)
          /\ render' = "execute" /\ UNCHANGED <<playing, game, inserted, loops, last>>
      BY <1>4 DEF ServiceIntake, PlaybackInv, FlowTypeOK, RenderHolds, bufferVars, streamVars
    <2>2. InFlight' = InFlight
      BY <2>1, BatchTaken DEF InFlight
    <2> QED
      BY <2>1, <2>2 DEF PlaybackInv, FlowTypeOK, RenderHolds, FollowsLast, GameAsked, LastOf
  <1>5. CASE ExecutePlay
    <2>1. chamber # <<>> /\ InFlight # <<>>
      BY <1>5, LastExecuted DEF ExecutePlay, InFlight, PlaybackInv, FlowTypeOK
    <2> QED
      BY <1>5, <2>1 DEF ExecutePlay, PlaybackInv, FlowTypeOK, RenderHolds, FollowsLast,
         GameAsked, InFlight, LastOf, bufferVars
  <1>6. CASE MixerPlay
    <2>1. /\ chamber # <<>> /\ Head(chamber) \in Starts /\ loops' = (Head(chamber) = "LOOP")
          /\ chamber' = Tail(chamber) /\ render' = "execute"
          /\ UNCHANGED <<intake, playing, game, last>>
      BY <1>6 DEF MixerPlay, PlaybackInv, RenderHolds, bufferVars
    <2>2. chamber' \in Seq(Command) /\ FollowsLast'
      BY <2>1, ExecutionFollows
    <2> QED
      BY <2>1, <2>2 DEF PlaybackInv, FlowTypeOK, RenderHolds, GameAsked
  <1>7. CASE ExecuteStop
    <2>1. /\ chamber # <<>> /\ ~inserted' /\ chamber' = Tail(chamber)
          /\ render = "execute" /\ UNCHANGED <<intake, playing, game, render, last>>
      BY <1>7 DEF ExecuteStop, bufferVars
    <2>2. chamber' \in Seq(Command) /\ FollowsLast'
      BY <2>1, ExecutionFollows
    <2> QED
      BY <2>1, <2>2 DEF PlaybackInv, FlowTypeOK, RenderHolds, GameAsked
  <1>8. CASE MixBegins
    BY <1>8 DEF MixBegins, PlaybackInv, FlowTypeOK, RenderHolds, FollowsLast, GameAsked,
       InFlight, LastOf, bufferVars, streamVars
  <1>9. CASE MixEnds
    <2>1. /\ inserted /\ chamber = <<>> /\ render' = "wait"
          /\ UNCHANGED <<intake, chamber, playing, game, loops, last>>
      BY <1>9 DEF MixEnds, PlaybackInv, RenderHolds, bufferVars
    <2> QED
      BY <2>1 DEF PlaybackInv, FlowTypeOK, RenderHolds, FollowsLast, GameAsked, InFlight, LastOf
  <1>10. CASE UNCHANGED vars
    BY <1>10 DEF vars, PlaybackInv, FlowTypeOK, RenderHolds, FollowsLast, GameAsked, InFlight,
       LastOf, bufferVars, renderVars, streamVars
  <1> QED
    BY <1>1, <1>2, <1>3, <1>4, <1>5, <1>6, <1>7, <1>8, <1>9, <1>10
    DEF Next, GameStep, RenderStep

THEOREM PlaybackInvariant == Spec => []PlaybackInv
  BY InvInit, InvStep, PTL DEF Spec

(* What is in flight last, or was executed last, is what the game asked    *)
(* for last.                                                               *)
THEOREM FollowsCommands == Spec => []StreamFollowsCommands
  <1>1. PlaybackInv => StreamFollowsCommands
    BY DEF PlaybackInv, FollowsLast, StreamFollowsCommands, Starts, LastOf
  <1> QED
    BY <1>1, PlaybackInvariant, PTL

(* A buffer is `playing` only if the game has asked for it since its last  *)
(* Stop.                                                                   *)
THEOREM OnlyAskedPlays == Spec => []PlayingWasAsked
  <1>1. PlaybackInv => PlayingWasAsked
    BY DEF PlaybackInv, GameAsked, PlayingWasAsked, Starts
  <1> QED
    BY <1>1, PlaybackInvariant, PTL

-----------------------------------------------------------------------------
(* The types.  A stream is in the mixer's list only before its end: that   *)
(* is why a period always starts inside the buffer.                        *)
PlaybackTypes == TypeOK /\ (inserted => pos < Length)

LEMMA TypesInit == Init => PlaybackTypes
  <1> SUFFICES ASSUME Init PROVE TypeOK /\ ~inserted
    BY DEF PlaybackTypes
  <1>1. <<>> \in Seq(Command)
    OBVIOUS
  <1>2. 0 \in 0..Length /\ 0 \in 0..(Length - 1) /\ 0 \in 0..MaxCalls
    BY PlaybackAssumption
  <1> QED
    BY <1>1, <1>2 DEF Init, TypeOK

LEMMA TypesStep == PlaybackTypes /\ PlaybackInv /\ [Next]_vars => PlaybackTypes'
  <1> SUFFICES ASSUME PlaybackTypes, PlaybackInv, [Next]_vars
               PROVE  PlaybackTypes'
    OBVIOUS
  <1> USE DEF PlaybackTypes, TypeOK
  <1>1. ASSUME NEW loop \in BOOLEAN, Play(loop)
        PROVE  PlaybackTypes'
    <2>1. intake' \in Seq(Command) /\ last' \in Command \union {"none"}
      <3>1. CASE playing
        BY <1>1, <3>1 DEF Play
      <3>2. CASE ~playing
        <4>1. PICK c \in Command : intake' = Append(intake, c) /\ last' = c
          BY <1>1, <3>2 DEF Play, Post, Command
        <4> QED
          BY <4>1
      <3> QED
        BY <3>1, <3>2
    <2>2. calls' \in 0..MaxCalls
      BY <1>1, PlaybackAssumption DEF Play, Call
    <2>3. playing' \in BOOLEAN /\ looping' \in BOOLEAN
      BY <1>1 DEF Play
    <2> QED
      BY <1>1, <2>1, <2>2, <2>3 DEF Play, renderVars, streamVars
  <1>2. CASE Stop
    <2>1. intake' \in Seq(Command) /\ last' \in Command \union {"none"}
      <3>1. PICK c \in Command : intake' = Append(intake, c) /\ last' = c
        BY <1>2 DEF Stop, Post, Command
      <3> QED
        BY <3>1
    <2>2. calls' \in 0..MaxCalls
      BY <1>2, PlaybackAssumption DEF Stop, Call
    <2>3. playing' \in BOOLEAN /\ looping' \in BOOLEAN
      BY <1>2 DEF Stop
    <2> QED
      BY <1>2, <2>1, <2>2, <2>3 DEF Stop, renderVars, streamVars
  <1>3. CASE SetCurrentPosition
    <2>1. calls' \in 0..MaxCalls /\ pos' \in 0..Length /\ pos' < Length
      BY <1>3, PlaybackAssumption DEF SetCurrentPosition, Call
    <2> QED
      BY <1>3, <2>1 DEF SetCurrentPosition, bufferVars, renderVars
  <1>4. CASE GetStatus
    <2>1. calls' \in 0..MaxCalls /\ game' \in {"idle", "status"}
      BY <1>4, PlaybackAssumption DEF GetStatus, Call
    <2> QED
      BY <1>4, <2>1 DEF GetStatus, bufferVars, renderVars, streamVars
  <1>5. CASE StatusReturns
    BY <1>5 DEF StatusReturns, renderVars, streamVars
  <1>6. CASE ServiceIntake
    BY <1>6 DEF ServiceIntake, bufferVars, streamVars
  <1>7. CASE ExecutePlay
    BY <1>7 DEF ExecutePlay, bufferVars
  <1>8. CASE MixerPlay
    <2>1. chamber # <<>> /\ chamber' = Tail(chamber)
      BY <1>8 DEF MixerPlay, PlaybackInv, RenderHolds
    <2>2. chamber' \in Seq(Command)
      BY <2>1
    <2>3. pos' \in 0..Length /\ pos' < Length
      BY <1>8, PlaybackAssumption DEF MixerPlay
    <2> QED
      BY <1>8, <2>2, <2>3 DEF MixerPlay, bufferVars
  <1>9. CASE ExecuteStop
    <2>1. chamber' \in Seq(Command)
      BY <1>9 DEF ExecuteStop
    <2> QED
      BY <1>9, <2>1 DEF ExecuteStop, bufferVars
  <1>10. CASE MixBegins
    <2>1. at' \in 0..(Length - 1)
      BY <1>10, PlaybackAssumption DEF MixBegins
    <2> QED
      BY <1>10, <2>1 DEF MixBegins, bufferVars, streamVars
  <1>11. CASE MixEnds
    <2>1. pos' = Advanced(Length, loops, at, Period)
      BY <1>11, PlaybackAssumption, RenderedAdvances DEF MixEnds
    <2>2. Advanced(Length, loops, at, Period) \in 0..Length
      BY PlaybackAssumption DEF Advanced
    <2>3. pos' \in 0..Length /\ at' \in 0..(Length - 1)
      BY <1>11, <2>1, <2>2, PlaybackAssumption DEF MixEnds
    <2>4. inserted' = (pos' < Length)
      BY <1>11 DEF MixEnds
    <2>5. inserted' \in BOOLEAN
      <3>1. CASE pos' < Length
        <4>1. inserted' = TRUE
          BY <2>4, <3>1, Zenon
        <4> QED
          BY <4>1, Zenon
      <3>2. CASE ~(pos' < Length)
        <4>1. (pos' < Length) = FALSE
          BY <3>2
        <4> QED
          BY <2>4, <4>1, Zenon
      <3> QED
        BY <3>1, <3>2
    <2>6. inserted' => pos' < Length
      BY <2>4, Zenon
    <2> QED
      BY <1>11, <2>3, <2>5, <2>6 DEF MixEnds, bufferVars
  <1>12. CASE UNCHANGED vars
    BY <1>12 DEF vars, bufferVars, renderVars, streamVars
  <1> QED
    BY <1>1, <1>2, <1>3, <1>4, <1>5, <1>6, <1>7, <1>8, <1>9, <1>10, <1>11, <1>12
    DEF Next, GameStep, RenderStep

(* Every variable of one sound keeps its type: its position stays in the   *)
(* buffer however often a period goes round it.                            *)
THEOREM PlaybackTypeCorrect == Spec => []TypeOK
  <1>1. PlaybackTypes => TypeOK
    BY DEF PlaybackTypes
  <1> QED
    BY <1>1, TypesInit, TypesStep, InvInit, InvStep, PTL DEF Spec

(* The loop of snd_stream_render does what it should.                      *)
LEMMA LoopIsRight == TypeOK => RendersRight
  <1> SUFFICES ASSUME loops \in BOOLEAN,
                      NEW n \in 1..5, NEW d \in 1..12, NEW p \in 0..(n - 1)
               PROVE  Rendered(n, loops, p, d) =
                        IF loops THEN (p + d) % n ELSE IF p + d > n THEN n ELSE p + d
    BY DEF TypeOK, RendersRight
  <1>1. n \in Nat \ {0} /\ d \in Nat
    OBVIOUS
  <1> QED
    BY <1>1, RenderedAdvances DEF Advanced
=============================================================================
