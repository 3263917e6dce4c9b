--------------------------- MODULE LifecycleProofs ----------------------------
(***************************************************************************)
(* What SoundLifecycle's runs check on three buffers, for any number of    *)
(* them: whatever the game, the render thread and the reaper do, nothing   *)
(* is used after it is freed.                                              *)
(*                                                                         *)
(* The argument has two halves.  The counts: a buffer's owner of samples   *)
(* has a reference as long as the buffer has one, although duplicates may  *)
(* be duplicated, because no chain of sources goes round (Acyclic).  The   *)
(* fence: a stream in the reaper's batch is silent for good once the       *)
(* batch's last STOP has been executed, because nobody but the reaper      *)
(* sends commands for it any more (Silenced).                              *)
(***************************************************************************)
EXTENDS SoundLifecycle, FiniteSetTheorems, TLAPS

Dups(h) == {d \in Handles : source[d] = h}
Submitting(h) == dying = h /\ ~handed
Queued == Items(pending) \union Items(tasks)

\* Following sources leads out of every set of buffers.
Acyclic(src) == \A S \in SUBSET Handles : S # {} => \E h \in S : src[h] \notin S

Counted ==
  /\ \A h \in Handles : rc[h] = mine[h] + Cardinality(Dups(h))
  /\ dying # NULL => rc[dying] = 0
  /\ \A h \in Handles : source[h] # NULL => rc[h] > 0 \/ h = dying

Shared ==
  /\ Acyclic(source)
  /\ \A h \in Handles : source[h] # NULL => samples[h] = samples[source[h]]
  /\ \A h \in Handles : (rc[h] > 0 \/ Submitting(h)) /\ source[h] = NULL => samples[h] = h
  /\ \A h \in Handles :
       rc[h] > 0 => rc[samples[h]] > 0 /\ samples[samples[h]] = samples[h]

Distinct(q) == \A i, j \in 1..Len(q) : q[i] = q[j] => i = j

\* A buffer's way to the reaper.
Buried ==
  /\ Distinct(pending) /\ Distinct(tasks) /\ Items(pending) \intersect Items(tasks) = {}
  /\ \A h \in Queued : h \in stream /\ rc[h] = 0 /\ ~Submitting(h)
  /\ \A h \in Handles : rc[h] > 0 \/ Submitting(h) => h \in stream
  /\ \A h \in stream : rc[h] > 0 \/ Submitting(h) \/ h \in Queued

\* Samples go with the batch of their owner, or outlive it.
Backed ==
  /\ \A h \in stream : samples[h] \in Items(tasks) => h \in Items(tasks)
  /\ \A h \in stream : samples[h] \in memory \/ (reaper = "destroy" /\ h \in Items(tasks))

RenderShape ==
  /\ render \in {"wait", "gone"} => chamber = <<>> /\ executed = 0
  /\ render \in {"callbacks", "return"} => executed = Len(chamber)
  /\ api # "up" => render = "gone"

ReaperShape ==
  /\ api = "down" => reaper = "none"
  /\ reaper \in {"none", "check", "asleep", "woken"} => tasks = <<>>
  /\ reaper \in {"fence", "reset", "destroy"} => tasks # <<>> /\ sent = Len(tasks)
  /\ reaper = "submit" /\ tasks # <<>> => sent < Len(tasks)

StopIn(q, from, h) ==
  \E k \in from..Len(q) :
    /\ q[k].op = "STOP" /\ q[k].stm = h
    /\ \A j \in (k + 1)..Len(q) : q[j].stm # h

NoneIn(q, from, h) == \A k \in from..Len(q) : q[k].stm # h

\* The last word on h is a STOP, or h is silent already.
Silenced(h) ==
  \/ StopIn(intake, 1, h)
  \/ /\ NoneIn(intake, 1, h)
     /\ \/ StopIn(chamber, executed + 1, h)
        \/ NoneIn(chamber, executed + 1, h) /\ h \notin mixer

Gone(h) == h \notin mixer /\ NoneIn(intake, 1, h) /\ NoneIn(chamber, executed + 1, h)

FenceInIntake == \E k \in 1..Len(intake) : intake[k].fenced
FenceInChamber ==
  render \in {"execute", "callbacks"} /\ \E k \in 1..Len(chamber) : chamber[k].fenced

Fenced ==
  /\ fence => reaper \in {"fence", "reset"}
  /\ FenceInIntake \/ FenceInChamber => reaper = "fence" /\ ~fence
  /\ FenceInChamber => ~FenceInIntake /\ \A h \in Items(tasks) : NoneIn(intake, 1, h)
  /\ \A i \in 1..sent : Silenced(tasks[i])
  /\ fence \/ reaper \in {"reset", "destroy"} => \A h \in Items(tasks) : Gone(h)

Used ==
  /\ mixer \subseteq stream
  /\ \A k \in 1..Len(intake) : intake[k].stm \in stream
  /\ \A k \in (executed + 1)..Len(chamber) : chamber[k].stm \in stream

LifecycleInv ==
  /\ TypeOK /\ Counted /\ Shared /\ Buried /\ Backed /\ RenderShape /\ ReaperShape
  /\ Fenced /\ Used

-----------------------------------------------------------------------------
(* Each part of the invariant depends on some of the variables only. *)
LEMMA Frames ==
  /\ Counted /\ UNCHANGED <<rc, mine, source, dying>> => Counted'
  /\ Shared /\ UNCHANGED <<rc, source, samples, dying, handed>> => Shared'
  /\ Buried /\ UNCHANGED <<rc, stream, dying, handed, pending, tasks>> => Buried'
  /\ Backed /\ UNCHANGED <<stream, memory, samples, tasks, reaper>> => Backed'
  /\ RenderShape /\ UNCHANGED <<api, chamber, executed, render>> => RenderShape'
  /\ ReaperShape /\ UNCHANGED <<api, tasks, sent, reaper>> => ReaperShape'
  /\ Fenced /\ UNCHANGED <<intake, chamber, executed, mixer, render, tasks, sent, reaper, fence>>
       => Fenced'
  /\ Used /\ UNCHANGED <<intake, chamber, executed, mixer, stream>> => Used'
  <1>1. Counted /\ UNCHANGED <<rc, mine, source, dying>> => Counted'
    BY DEF Counted, Dups
  <1>2. Shared /\ UNCHANGED <<rc, source, samples, dying, handed>> => Shared'
    BY DEF Shared, Acyclic, Submitting
  <1>3. Buried /\ UNCHANGED <<rc, stream, dying, handed, pending, tasks>> => Buried'
    BY DEF Buried, Distinct, Queued, Items, Submitting
  <1>4. Backed /\ UNCHANGED <<stream, memory, samples, tasks, reaper>> => Backed'
    BY DEF Backed, Items
  <1>5. RenderShape /\ UNCHANGED <<api, chamber, executed, render>> => RenderShape'
    BY DEF RenderShape
  <1>6. ReaperShape /\ UNCHANGED <<api, tasks, sent, reaper>> => ReaperShape'
    BY DEF ReaperShape
  <1>7. Fenced /\ UNCHANGED <<intake, chamber, executed, mixer, render, tasks, sent, reaper, fence>>
          => Fenced'
    BY DEF Fenced, FenceInIntake, FenceInChamber, Silenced, Gone, StopIn, NoneIn, Items
  <1>8. Used /\ UNCHANGED <<intake, chamber, executed, mixer, stream>> => Used'
    BY DEF Used
  <1> QED
    BY <1>1, <1>2, <1>3, <1>4, <1>5, <1>6, <1>7, <1>8

-----------------------------------------------------------------------------
(* Counting duplicates. *)

LEMMA DupsFinite ==
  ASSUME NEW h \in Handles
  PROVE  IsFiniteSet(Dups(h)) /\ Cardinality(Dups(h)) \in Nat
  BY LifecycleAssumption, FS_Subset, FS_CardinalityType DEF Dups

LEMMA NoDups ==
  ASSUME NEW h \in Handles
  PROVE  Cardinality(Dups(h)) = 0 <=> \A d \in Handles : source[d] # h
  BY DupsFinite, FS_EmptySet DEF Dups

\* A handle nobody counts on.
LEMMA Unreferenced ==
  ASSUME TypeOK, Counted, NEW h \in Handles, rc[h] = 0
  PROVE  mine[h] = 0 /\ \A d \in Handles : source[d] # h
  <1>1. mine[h] = 0 /\ Cardinality(Dups(h)) = 0
    BY DupsFinite, LifecycleAssumption DEF TypeOK, Counted
  <1> QED
    BY <1>1, NoDups

LEMMA CountsAreReferences ==
  ASSUME TypeOK, Counted, NEW h \in Handles
  PROVE  /\ mine[h] > 0 => rc[h] > 0
         /\ \A d \in Handles : source[d] = h => rc[h] > 0
         /\ rc[h] > 0 => rc[h] - 1 \in Nat
  <1>1. rc[h] \in Nat /\ mine[h] \in Nat
    BY LifecycleAssumption DEF TypeOK
  <1>2. mine[h] > 0 => rc[h] > 0
    BY <1>1, DupsFinite DEF Counted
  <1>3. rc[h] = 0 => \A d \in Handles : source[d] # h
    BY Unreferenced
  <1> QED
    BY <1>1, <1>2, <1>3

LEMMA LifecycleInvInit == Init => LifecycleInv
  <1> SUFFICES ASSUME Init PROVE LifecycleInv
    OBVIOUS
  <1> USE LifecycleAssumption DEF Init
  <1>1. TypeOK
    <2>1. rc \in [Handles -> Nat] /\ mine \in [Handles -> 0..MaxRefs]
      OBVIOUS
    <2>2. intake \in Seq(Command) /\ chamber \in Seq(Command) /\ executed \in 0..Len(chamber)
      OBVIOUS
    <2>3. pending \in Seq(Handles) /\ tasks \in Seq(Handles) /\ sent \in 0..Len(tasks)
      OBVIOUS
    <2>4. handover \in [reaper : BOOLEAN, task : BOOLEAN]
      OBVIOUS
    <2>5. source \in [Handles -> Handles \union {NULL}] /\ samples \in [Handles -> Handles]
      OBVIOUS
    <2> QED
      BY <2>1, <2>2, <2>3, <2>4, <2>5 DEF TypeOK
  <1>2. Counted
    <2>1. \A h \in Handles : Cardinality(Dups(h)) = 0
      BY NoDups
    <2>2. \A h \in Handles : rc[h] = 0 /\ mine[h] = 0
      OBVIOUS
    <2> QED
      BY <2>1, <2>2 DEF Counted
  <1>3. Shared
    BY DEF Shared, Acyclic, Submitting
  <1>4. Buried /\ Backed
    BY DEF Buried, Backed, Distinct, Queued, Items, Submitting
  <1>5. RenderShape /\ ReaperShape
    BY DEF RenderShape, ReaperShape
  <1>6. Fenced /\ Used
    BY DEF Fenced, FenceInIntake, FenceInChamber, Items, Used
  <1> QED
    BY <1>1, <1>2, <1>3, <1>4, <1>5, <1>6 DEF LifecycleInv

-----------------------------------------------------------------------------
(* A look at the list ends in a batch or in sleep. *)

ReaperSleeps ==
  /\ reaper = "check" /\ reaper' = "asleep"
  /\ UNCHANGED <<api, countVars, stream, memory, releaseVars, intake, renderVars, pending,
                 tasks, sent, stopping, stop, fence>>

TakeStep == ReaperTakes /\ (ReaperChecks \/ ReaperWakes)

LEMMA ChecksOrSleeps ==
  /\ ReaperChecks => ReaperTakes \/ ReaperSleeps
  /\ ReaperWakes => ReaperTakes
  BY DEF ReaperChecks, ReaperSleeps, ReaperWakes

-----------------------------------------------------------------------------
(* Types: of the counts and links between buffers, and of the rest. *)

CountTypes ==
  /\ rc \in [Handles -> Nat] /\ mine \in [Handles -> 0..MaxRefs]
  /\ source \in [Handles -> Handles \union {NULL}]
  /\ samples \in [Handles -> Handles]

OtherTypes ==
  /\ api \in {"down", "starting", "up", "joining"}
  /\ stream \subseteq Handles /\ memory \subseteq Handles /\ mixer \subseteq Handles
  /\ dying \in Handles \union {NULL} /\ handed \in BOOLEAN
  /\ handover \in [reaper : BOOLEAN, task : BOOLEAN]
  /\ intake \in Seq(Command) /\ chamber \in Seq(Command)
  /\ executed \in 0..Len(chamber) /\ sent \in 0..Len(tasks)
  /\ render \in {"wait", "execute", "callbacks", "return", "gone"}
  /\ pending \in Seq(Handles) /\ tasks \in Seq(Handles)
  /\ reaper \in {"none", "check", "asleep", "woken", "submit", "fence", "reset", "destroy"}
  /\ stop \in BOOLEAN /\ stopping \in BOOLEAN /\ fence \in BOOLEAN

LEMMA TypesSplit == TypeOK <=> CountTypes /\ OtherTypes
  BY DEF TypeOK, CountTypes, OtherTypes

LEMMA TypeKept == LifecycleInv /\ [Next]_vars => TypeOK'
  <1> SUFFICES ASSUME LifecycleInv, [Next]_vars PROVE TypeOK'
    OBVIOUS
  <1>0. TypeOK /\ Counted /\ ReaperShape /\ RenderShape
    BY DEF LifecycleInv
  <1>t. CountTypes /\ OtherTypes
    BY <1>0, TypesSplit
  <1>s. ASSUME CountTypes', OtherTypes' PROVE TypeOK'
    BY <1>s, TypesSplit, PTL
  <1> USE <1>0, LifecycleAssumption
  <1>1. CASE ApiStep
    <2>1. /\ api' \in {"down", "starting", "up", "joining"} /\ stop' \in BOOLEAN
          /\ render' \in {"wait", "execute", "callbacks", "return", "gone"}
          /\ reaper' \in {"none", "check", "asleep", "woken", "submit", "fence", "reset", "destroy"}
      BY <1>1 DEF ApiStep, StartReaper, StartWasapi, StartWasapiFails, JoinReaper, Wake, TypeOK,
         renderVars, reaperVars
    <2>2. UNCHANGED <<countVars, stream, memory, releaseVars, intake, chamber, executed, mixer,
                      pending, tasks, sent, stopping, fence>>
      BY <1>1 DEF ApiStep, StartReaper, StartWasapi, StartWasapiFails, JoinReaper,
         renderVars, reaperVars
    <2> QED
      BY <2>1, <2>2 DEF TypeOK, countVars, releaseVars
  <1>2. ASSUME NEW h \in Handles, Call(h)
        PROVE  TypeOK'
    <2>1. CASE CreateSoundBuffer(h)
      BY <2>1 DEF CreateSoundBuffer, TypeOK, releaseVars, renderVars, reaperVars
    <2>2. ASSUME NEW s \in Handles, DuplicateSoundBuffer(h, s)
          PROVE  TypeOK'
      <3>0. rc \in [Handles -> Nat] /\ mine \in [Handles -> 0..MaxRefs]
        BY DEF TypeOK
      <3>1. rc' \in [Handles -> Nat] /\ mine' \in [Handles -> 0..MaxRefs]
        BY <2>2, <3>0 DEF DuplicateSoundBuffer
      <3>2. /\ source' \in [Handles -> Handles \union {NULL}]
            /\ samples' \in [Handles -> Handles] /\ stream' \subseteq Handles
        BY <2>2 DEF DuplicateSoundBuffer, TypeOK
      <3>3. UNCHANGED <<api, memory, releaseVars, intake, renderVars, pending, reaperVars, stop, fence>>
        BY <2>2 DEF DuplicateSoundBuffer
      <3>4. CountTypes'
        BY <3>1, <3>2 DEF CountTypes
      <3>5. OtherTypes'
        BY <1>t, <3>2, <3>3 DEF OtherTypes, releaseVars, renderVars, reaperVars
      <3> QED
        BY <1>s, <3>4, <3>5
    <2>3. CASE AddRef(h)
      <3>1. rc' \in [Handles -> Nat] /\ mine' \in [Handles -> 0..MaxRefs]
        <4>1. /\ rc \in [Handles -> Nat] /\ mine \in [Handles -> 0..MaxRefs]
              /\ rc' = [rc EXCEPT ![h] = rc[h] + 1] /\ mine' = [mine EXCEPT ![h] = mine[h] + 1]
              /\ mine[h] + 1 \in 0..MaxRefs /\ rc[h] + 1 \in Nat
          BY <1>t, <2>3 DEF AddRef, CountTypes
        <4> QED
          BY <4>1
      <3>2. UNCHANGED <<api, source, samples, stream, memory, releaseVars, intake, renderVars,
                        pending, reaperVars, stop, fence>>
        BY <2>3 DEF AddRef
      <3>3. CountTypes'
        BY <1>t, <3>1, <3>2 DEF CountTypes
      <3>4. OtherTypes'
        BY <1>t, <3>2 DEF OtherTypes, releaseVars, renderVars, reaperVars
      <3> QED
        BY <1>s, <3>3, <3>4
    <2>4. ASSUME NEW op \in {"PLAY", "STOP", "SET_VOLUME"}, Method(op, h)
          PROVE  TypeOK'
      <3>1. [op |-> op, stm |-> h, fenced |-> FALSE] \in Command
        BY DEF Command
      <3>2. intake' \in Seq(Command)
        BY <2>4, <3>1 DEF Method, TypeOK
      <3> QED
        BY <2>4, <3>2 DEF Method, TypeOK, countVars, releaseVars, renderVars, reaperVars
    <2>5. CASE Release(h)
      <3>1. rc[h] - 1 \in Nat /\ mine[h] - 1 \in 0..MaxRefs
        BY <2>5, CountsAreReferences DEF Release, TypeOK
      <3>2. rc' \in [Handles -> Nat] /\ mine' \in [Handles -> 0..MaxRefs]
        BY <2>5, <3>1 DEF Release, Unref, TypeOK
      <3>3. dying' \in Handles \union {NULL} /\ handed' \in BOOLEAN
        BY <2>5 DEF Release, Unref
      <3>4. UNCHANGED <<api, source, samples, stream, memory, handover, intake, renderVars,
                        pending, reaperVars, stop, fence>>
        BY <2>5 DEF Release
      <3>5. CountTypes'
        BY <1>t, <3>2, <3>4 DEF CountTypes
      <3>6. OtherTypes'
        BY <1>t, <3>3, <3>4 DEF OtherTypes, renderVars, reaperVars
      <3> QED
        BY <1>s, <3>5, <3>6
    <2> QED
      BY <1>2, <2>1, <2>2, <2>3, <2>4, <2>5 DEF Call
  <1>3. ASSUME NEW what \in {"samples", "stream", "task"}, AllocFails(what)
        PROVE  TypeOK'
    <2>1. handover' \in [reaper : BOOLEAN, task : BOOLEAN]
      BY <1>3 DEF AllocFails
    <2> QED
      BY <1>3, <2>1 DEF AllocFails, TypeOK, countVars, renderVars, reaperVars
  <1>4. CASE SubmitTask
    <2>1. handover' \in [reaper : BOOLEAN, task : BOOLEAN] /\ pending' \in Seq(Handles)
      BY <1>4 DEF SubmitTask, TypeOK
    <2>2. /\ handed' \in BOOLEAN
          /\ reaper' \in {"none", "check", "asleep", "woken", "submit", "fence", "reset", "destroy"}
      BY <1>4 DEF SubmitTask, Wake, TypeOK
    <2>3. UNCHANGED <<api, countVars, stream, memory, dying, intake, renderVars,
                      tasks, sent, stopping, stop, fence>>
      BY <1>4 DEF SubmitTask
    <2> QED
      BY <2>1, <2>2, <2>3 DEF TypeOK, countVars, renderVars
  <1>5. CASE NotifySource
    <2>0. UNCHANGED <<api, mine, samples, stream, memory, handover, intake, renderVars,
                      pending, reaperVars, stop, fence>>
      BY <1>5 DEF NotifySource
    <2>1. CASE source[dying] = NULL
      <3>1. source' \in [Handles -> Handles \union {NULL}] /\ UNCHANGED rc
        BY <1>5, <2>1 DEF NotifySource, TypeOK
      <3>2. dying' \in Handles \union {NULL} /\ handed' \in BOOLEAN
        BY <1>5, <2>1 DEF NotifySource
      <3>3. CountTypes'
        BY <1>t, <2>0, <3>1 DEF CountTypes
      <3>4. OtherTypes'
        BY <1>t, <2>0, <3>2 DEF OtherTypes, renderVars, reaperVars
      <3> QED
        BY <1>s, <3>3, <3>4
    <2>2. CASE source[dying] # NULL
      <3>1. source[dying] \in Handles /\ rc[source[dying]] - 1 \in Nat
        BY <1>5, <2>2, CountsAreReferences DEF NotifySource, TypeOK
      <3>2. rc' \in [Handles -> Nat] /\ source' \in [Handles -> Handles \union {NULL}]
        BY <1>5, <2>2, <3>1 DEF NotifySource, Unref, TypeOK
      <3>3. dying' \in Handles \union {NULL} /\ handed' \in BOOLEAN
        BY <1>5, <2>2, <3>1 DEF NotifySource, Unref
      <3>4. CountTypes'
        BY <1>t, <2>0, <3>2 DEF CountTypes
      <3>5. OtherTypes'
        BY <1>t, <2>0, <3>3 DEF OtherTypes, renderVars, reaperVars
      <3> QED
        BY <1>s, <3>4, <3>5
    <2> QED
      BY <2>1, <2>2
  <1>6. CASE RenderStep \/ RenderExit
    <2>1. CASE ServiceIntake
      BY <2>1 DEF ServiceIntake, TypeOK, countVars, releaseVars, reaperVars
    <2>2. CASE ExecuteCommand
      <3>1. chamber[executed + 1] \in Command /\ executed + 1 \in 0..Len(chamber)
        BY <2>2 DEF ExecuteCommand, TypeOK
      <3>2. mixer' \subseteq Handles
        BY <2>2, <3>1 DEF ExecuteCommand, TypeOK, Command
      <3>3. /\ executed' \in 0..Len(chamber)
            /\ UNCHANGED <<api, countVars, stream, memory, releaseVars, intake, chamber, render,
                           pending, reaperVars, stop, fence>>
        BY <2>2, <3>1 DEF ExecuteCommand
      <3> QED
        BY <3>2, <3>3 DEF TypeOK, countVars, releaseVars, reaperVars
    <2>3. CASE Mix
      BY <2>3 DEF Mix, TypeOK, countVars, releaseVars, reaperVars
    <2>4. CASE RunCallbacks
      <3>1. fence' \in BOOLEAN
        BY <2>4 DEF RunCallbacks
      <3> QED
        BY <2>4, <3>1 DEF RunCallbacks, TypeOK, countVars, releaseVars, reaperVars
    <2>5. CASE ServiceExhaust
      <3>1. chamber' \in Seq(Command) /\ executed' \in 0..Len(chamber')
        BY <2>5 DEF ServiceExhaust
      <3> QED
        BY <2>5, <3>1 DEF ServiceExhaust, TypeOK, countVars, releaseVars, reaperVars
    <2>6. CASE RenderExit
      BY <2>6 DEF RenderExit, TypeOK, countVars, releaseVars, reaperVars
    <2> QED
      BY <1>6, <2>1, <2>2, <2>3, <2>4, <2>5, <2>6 DEF RenderStep
  <1>7. CASE ReaperStep
    <2>1. CASE ReaperTakes /\ (ReaperChecks \/ ReaperWakes)
      <3>1. pending' \in Seq(Handles) /\ tasks' \in Seq(Handles) /\ sent' \in 0..Len(tasks')
        BY <2>1 DEF ReaperTakes, TypeOK
      <3>2. reaper' = "submit" /\ stopping' = stop
        BY <2>1 DEF ReaperTakes
      <3> QED
        BY <2>1, <3>1, <3>2 DEF ReaperChecks, ReaperWakes, TypeOK, countVars, releaseVars, renderVars
    <2>5. CASE ReaperSleeps
      BY <2>5 DEF ReaperSleeps, TypeOK, countVars, releaseVars, renderVars, reaperVars
    <2>2. CASE ReaperSubmitsStop
      <3>1. [op |-> "STOP", stm |-> tasks[sent + 1], fenced |-> sent + 1 = Len(tasks)] \in Command
        BY <2>2 DEF ReaperSubmitsStop, TypeOK, Command
      <3>2. intake' \in Seq(Command) /\ sent' \in 0..Len(tasks)
        BY <2>2, <3>1 DEF ReaperSubmitsStop, TypeOK
      <3>3. reaper' \in {"fence", "submit"}
        BY <2>2 DEF ReaperSubmitsStop
      <3>4. UNCHANGED <<api, countVars, stream, memory, releaseVars, renderVars,
                        pending, tasks, stopping, stop, fence>>
        BY <2>2 DEF ReaperSubmitsStop
      <3> QED
        BY <3>2, <3>3, <3>4 DEF TypeOK, countVars, releaseVars, renderVars
    <2>3. CASE ReaperHasNothing \/ ReaperWaitsFence \/ ReaperResetsFence
      <3>1. reaper' \in {"none", "check", "reset", "destroy"} /\ fence' \in BOOLEAN
        BY <2>3 DEF ReaperHasNothing, ReaperWaitsFence, ReaperResetsFence, TypeOK
      <3>2. UNCHANGED <<api, countVars, stream, memory, releaseVars, intake, renderVars,
                        pending, tasks, sent, stopping, stop>>
        BY <2>3 DEF ReaperHasNothing, ReaperWaitsFence, ReaperResetsFence
      <3> QED
        BY <3>1, <3>2 DEF TypeOK, countVars, releaseVars, renderVars
    <2>4. CASE ReaperDestroys
      <3>1. tasks # <<>> /\ sent = Len(tasks)
        BY <2>4 DEF ReaperDestroys, ReaperShape
      <3>2. tasks' \in Seq(Handles) /\ sent' \in 0..Len(tasks')
        BY <2>4, <3>1 DEF ReaperDestroys, TypeOK
      <3>3. stream' \subseteq Handles /\ memory' \subseteq Handles
        BY <2>4 DEF ReaperDestroys, TypeOK
      <3>4. reaper' \in {"none", "check", "destroy"}
        BY <2>4 DEF ReaperDestroys
      <3>5. UNCHANGED <<api, countVars, releaseVars, intake, renderVars, pending, stopping, stop, fence>>
        BY <2>4 DEF ReaperDestroys
      <3> QED
        BY <3>2, <3>3, <3>4, <3>5 DEF TypeOK, countVars, releaseVars, renderVars
    <2> QED
      BY <1>7, <2>1, <2>2, <2>3, <2>4, <2>5, ChecksOrSleeps DEF ReaperStep
  <1>8. CASE UNCHANGED vars
    BY <1>8 DEF vars, countVars, releaseVars, renderVars, reaperVars, TypeOK
  <1> QED
    BY <1>1, <1>2, <1>3, <1>4, <1>5, <1>6, <1>7, <1>8 DEF Next

-----------------------------------------------------------------------------
(* The counts. *)

\* A step that counts, or puts a buffer on its way to the reaper.
CountStep ==
  \/ \E h \in Handles :
       \/ CreateSoundBuffer(h)
       \/ \E s \in Handles : DuplicateSoundBuffer(h, s)
       \/ AddRef(h)
       \/ Release(h)
  \/ NotifySource

LEMMA OthersCountNothing ==
  [Next]_vars /\ ~CountStep =>
    /\ UNCHANGED <<rc, mine, source, samples, dying>>
    /\ ~SubmitTask => UNCHANGED handed
  <1> DEFINE Kept == UNCHANGED <<rc, mine, source, samples, dying, handed>>
  <1>1. ApiStep => Kept
    BY DEF ApiStep, StartReaper, StartWasapi, StartWasapiFails, JoinReaper, countVars, releaseVars
  <1>2. \A h \in Handles : Call(h) /\ ~CountStep => Kept
    BY DEF Call, CountStep, Method, countVars, releaseVars
  <1>3. \A what : AllocFails(what) => Kept
    BY DEF AllocFails, countVars
  <1>4. SubmitTask => UNCHANGED <<rc, mine, source, samples, dying>>
    BY DEF SubmitTask, countVars
  <1>5. RenderStep \/ RenderExit => Kept
    BY DEF RenderStep, ServiceIntake, ExecuteCommand, Mix, RunCallbacks, ServiceExhaust, RenderExit,
       countVars, releaseVars
  <1>6. ReaperStep => Kept
    BY DEF ReaperStep, ReaperChecks, ReaperWakes, ReaperSubmitsStop, ReaperHasNothing,
       ReaperWaitsFence, ReaperResetsFence, ReaperDestroys, countVars, releaseVars
  <1>7. UNCHANGED vars => Kept
    BY DEF vars, countVars, releaseVars
  <1> QED
    BY <1>1, <1>2, <1>3, <1>4, <1>5, <1>6, <1>7 DEF Next, CountStep

\* A handle whose stream is free belongs to no buffer in any way.
LEMMA Fresh ==
  ASSUME LifecycleInv, NEW h \in Handles, h \notin stream, dying = NULL
  PROVE  /\ rc[h] = 0 /\ mine[h] = 0 /\ source[h] = NULL
         /\ \A d \in Handles : source[d] # h
         /\ \A g \in Handles : rc[g] > 0 => samples[g] # h
         /\ h \notin Queued
  <1> USE LifecycleAssumption DEF LifecycleInv
  <1>1. rc[h] = 0
    BY DEF TypeOK, Buried
  <1>2. mine[h] = 0 /\ \A d \in Handles : source[d] # h
    BY <1>1, Unreferenced
  <1>3. source[h] = NULL
    BY <1>1 DEF Counted
  <1>4. \A g \in Handles : rc[g] > 0 => samples[g] # h
    BY <1>1 DEF Shared
  <1> QED
    BY <1>1, <1>2, <1>3, <1>4 DEF Buried

LEMMA CountedKept == LifecycleInv /\ [Next]_vars => Counted'
  <1> SUFFICES ASSUME LifecycleInv, [Next]_vars PROVE Counted'
    OBVIOUS
  <1>0. /\ TypeOK /\ Counted /\ Buried
        /\ rc \in [Handles -> Nat] /\ mine \in [Handles -> 0..MaxRefs]
        /\ source \in [Handles -> Handles \union {NULL}]
        /\ dying \in Handles \union {NULL}
    BY DEF LifecycleInv, TypeOK
  <1> USE LifecycleAssumption
  <1>1. ASSUME NEW h \in Handles, CreateSoundBuffer(h)
        PROVE  Counted'
    <2>1. /\ rc' = [rc EXCEPT ![h] = 1] /\ mine' = [mine EXCEPT ![h] = 1]
          /\ source' = [source EXCEPT ![h] = NULL] /\ dying' = NULL /\ dying = NULL /\ h \notin stream
      BY <1>1 DEF CreateSoundBuffer, GameCalls, releaseVars
    <2>2. rc[h] = 0 /\ mine[h] = 0 /\ source[h] = NULL /\ \A d \in Handles : source[d] # h
      BY <2>1, Fresh
    <2>3. source' = source
      BY <1>0, <2>1, <2>2
    <2>4. \A g \in Handles : Dups(g)' = Dups(g)
      BY <2>3 DEF Dups
    <2>5. Cardinality(Dups(h)) = 0
      BY <2>2, NoDups
    <2> QED
      BY <1>0, <2>1, <2>2, <2>3, <2>4, <2>5 DEF Counted
  <1>2. ASSUME NEW h \in Handles, NEW s \in Handles, DuplicateSoundBuffer(h, s)
        PROVE  Counted'
    <2>1. /\ rc' = [rc EXCEPT ![h] = 1, ![s] = @ + 1] /\ mine' = [mine EXCEPT ![h] = 1]
          /\ source' = [source EXCEPT ![h] = s] /\ dying' = NULL /\ dying = NULL
          /\ h \notin stream /\ mine[s] > 0
      BY <1>2 DEF DuplicateSoundBuffer, GameCalls, releaseVars
    <2>2. rc[h] = 0 /\ mine[h] = 0 /\ source[h] = NULL /\ \A d \in Handles : source[d] # h
      BY <2>1, Fresh
    <2>3. s # h
      BY <2>1, <2>2
    <2>4. Dups(s)' = Dups(s) \union {h} /\ h \notin Dups(s)
      BY <1>0, <2>1, <2>2 DEF Dups
    <2>5. Cardinality(Dups(s)') = Cardinality(Dups(s)) + 1
      BY <2>4, DupsFinite, FS_AddElement
    <2>6. \A g \in Handles \ {s} : Dups(g)' = Dups(g)
      BY <1>0, <2>1, <2>2 DEF Dups
    <2>7. Cardinality(Dups(h)) = 0
      BY <2>2, NoDups
    <2>8. \A g \in Handles : rc'[g] = mine'[g] + Cardinality(Dups(g)')
      <3> TAKE g \in Handles
      <3>1. CASE g = s
        BY <1>0, <2>1, <2>3, <2>5, <3>1, DupsFinite DEF Counted
      <3>2. CASE g = h
        BY <1>0, <2>1, <2>3, <2>6, <2>7, <3>2
      <3>3. CASE g # s /\ g # h
        BY <1>0, <2>1, <2>6, <3>3 DEF Counted
      <3> QED
        BY <3>1, <3>2, <3>3
    <2>9. \A g \in Handles : source'[g] # NULL => rc'[g] > 0
      BY <1>0, <2>1, <2>2, <2>3 DEF Counted
    <2> QED
      BY <2>1, <2>8, <2>9 DEF Counted
  <1>3. ASSUME NEW h \in Handles, AddRef(h)
        PROVE  Counted'
    <2>1. \A g \in Handles : Dups(g)' = Dups(g)
      BY <1>3 DEF AddRef, Dups
    <2>2. /\ rc' = [rc EXCEPT ![h] = @ + 1] /\ mine' = [mine EXCEPT ![h] = @ + 1]
          /\ source' = source /\ dying' = NULL /\ dying = NULL
      BY <1>3 DEF AddRef, GameCalls, releaseVars
    <2> QED
      BY <1>0, <2>1, <2>2, DupsFinite DEF Counted
  <1>4. ASSUME NEW h \in Handles, Release(h)
        PROVE  Counted'
    <2>1. \A g \in Handles : Dups(g)' = Dups(g)
      BY <1>4 DEF Release, Dups
    <2>2. /\ rc' = [rc EXCEPT ![h] = @ - 1] /\ mine' = [mine EXCEPT ![h] = @ - 1]
          /\ source' = source /\ dying' = (IF rc[h] = 1 THEN h ELSE NULL) /\ dying = NULL
          /\ mine[h] > 0
      BY <1>4 DEF Release, Unref, GameCalls
    <2>3. rc[h] > 0 /\ rc[h] >= mine[h]
      BY <1>0, <2>2, DupsFinite DEF Counted
    <2>4. \A g \in Handles : rc'[g] = mine'[g] + Cardinality(Dups(g)')
      BY <1>0, <2>1, <2>2, DupsFinite DEF Counted
    <2>5. \A g \in Handles : source'[g] # NULL => rc'[g] > 0 \/ g = dying'
      BY <1>0, <2>2, <2>3 DEF Counted
    <2> QED
      BY <1>0, <2>2, <2>4, <2>5 DEF Counted
  <1>5. CASE NotifySource
    <2>0. PICK d \in Handles : d = dying
      BY <1>0, <1>5 DEF NotifySource
    <2>1. /\ source' = [source EXCEPT ![d] = NULL] /\ mine' = mine /\ rc[d] = 0
      BY <1>0, <1>5, <2>0 DEF NotifySource, Counted
    <2>2. CASE source[d] = NULL
      <3>1. source' = source /\ rc' = rc /\ dying' = NULL
        BY <1>0, <1>5, <2>0, <2>1, <2>2 DEF NotifySource
      <3>2. \A g \in Handles : Dups(g)' = Dups(g)
        BY <3>1 DEF Dups
      <3> QED
        BY <1>0, <2>0, <2>1, <2>2, <3>1, <3>2 DEF Counted
    <2>3. CASE source[d] # NULL
      <3>0. PICK s \in Handles : s = source[d]
        BY <1>0, <2>3
      <3>1. /\ rc' = [rc EXCEPT ![s] = @ - 1]
            /\ dying' = IF rc[s] = 1 THEN s ELSE NULL
        BY <1>0, <1>5, <2>0, <2>1, <3>0 DEF NotifySource, Unref
      <3>2. rc[s] > 0
        BY <1>0, <2>1, <3>0, CountsAreReferences
      <3>3. Dups(s)' = Dups(s) \ {d} /\ d \in Dups(s)
        BY <1>0, <2>1, <3>0 DEF Dups
      <3>4. Cardinality(Dups(s)') = Cardinality(Dups(s)) - 1
        BY <3>3, DupsFinite, FS_RemoveElement
      <3>5. \A g \in Handles \ {s} : Dups(g)' = Dups(g)
        BY <1>0, <2>1, <3>0 DEF Dups
      <3>6. \A g \in Handles : rc'[g] = mine'[g] + Cardinality(Dups(g)')
        <4> TAKE g \in Handles
        <4>1. CASE g = s
          BY <1>0, <2>1, <3>1, <3>4, <4>1, DupsFinite DEF Counted
        <4>2. CASE g # s
          BY <1>0, <2>1, <3>1, <3>5, <4>2 DEF Counted
        <4> QED
          BY <4>1, <4>2
      <3>7. \A g \in Handles : source'[g] # NULL => rc'[g] > 0 \/ g = dying'
        BY <1>0, <2>0, <2>1, <3>0, <3>1, <3>2 DEF Counted
      <3> QED
        BY <1>0, <3>1, <3>6, <3>7 DEF Counted
    <2> QED
      BY <2>2, <2>3
  <1>6. CASE ~CountStep
    BY <1>0, <1>6, OthersCountNothing, Frames
  <1> QED
    BY <1>1, <1>2, <1>3, <1>4, <1>5, <1>6 DEF CountStep

-----------------------------------------------------------------------------
(* Who shares samples. *)

LEMMA AcyclicGrows ==
  ASSUME NEW src \in [Handles -> Handles \union {NULL}], Acyclic(src),
         NEW h \in Handles, NEW s \in Handles, s # h,
         \A d \in Handles : src[d] # h
  PROVE  Acyclic([src EXCEPT ![h] = s])
  <1> DEFINE new == [src EXCEPT ![h] = s]
  <1> SUFFICES ASSUME NEW S \in SUBSET Handles, S # {}
               PROVE  \E g \in S : new[g] \notin S
    BY DEF Acyclic
  <1>1. new[h] = s /\ \A g \in Handles \ {h} : new[g] = src[g]
    OBVIOUS
  <1>2. CASE S = {h}
    BY <1>1, <1>2
  <1>3. CASE S # {h}
    <2>1. PICK g \in S \ {h} : src[g] \notin S \ {h}
      BY <1>3 DEF Acyclic
    <2> QED
      BY <1>1, <2>1
  <1> QED
    BY <1>2, <1>3

LEMMA AcyclicShrinks ==
  ASSUME NEW src \in [Handles -> Handles \union {NULL}], Acyclic(src), NEW d \in Handles
  PROVE  Acyclic([src EXCEPT ![d] = NULL])
  <1> DEFINE new == [src EXCEPT ![d] = NULL]
  <1> SUFFICES ASSUME NEW S \in SUBSET Handles, S # {}
               PROVE  \E g \in S : new[g] \notin S
    BY DEF Acyclic
  <1>1. PICK g \in S : src[g] \notin S
    BY DEF Acyclic
  <1>2. new[d] = NULL /\ NULL \notin S
    BY LifecycleAssumption
  <1>3. g # d => new[g] = src[g]
    OBVIOUS
  <1> QED
    BY <1>1, <1>2, <1>3

\* If none of the buffers R, nor any other, has o for its source, then none of
\* them plays the samples of o, unless it is o itself.
LEMMA OwnerOutlives ==
  ASSUME NEW src \in [Handles -> Handles \union {NULL}], Acyclic(src),
         NEW smp \in [Handles -> Handles], NEW R \in SUBSET Handles, NEW o \in Handles,
         \A g \in R : src[g] = NULL => smp[g] = g,
         \A g \in R : src[g] # NULL => src[g] \in R /\ smp[g] = smp[src[g]],
         \A g \in Handles : src[g] # o
  PROVE  \A g \in R : smp[g] = o => g = o
  <1> DEFINE S == {g \in R : smp[g] = o /\ g # o}
  <1> SUFFICES ASSUME S # {} PROVE FALSE
    OBVIOUS
  <1>1. PICK g \in S : src[g] \notin S
    BY DEF Acyclic
  <1>2. src[g] # NULL
    BY <1>1
  <1>3. src[g] \in R /\ smp[src[g]] = o /\ src[g] # o
    BY <1>1, <1>2
  <1> QED
    BY <1>1, <1>3

LEMMA LastReference ==
  ASSUME TypeOK, Counted, NEW h \in Handles, rc[h] = 1
  PROVE  /\ mine[h] > 0 => \A g \in Handles : source[g] # h
         /\ \A d, g \in Handles : source[d] = h /\ source[g] = h => d = g
  <1>1. rc[h] = mine[h] + Cardinality(Dups(h)) /\ mine[h] \in Nat
    BY LifecycleAssumption DEF TypeOK, Counted
  <1>2. ASSUME mine[h] > 0
        PROVE  \A g \in Handles : source[g] # h
    BY <1>1, <1>2, DupsFinite, NoDups
  <1>3. ASSUME NEW d \in Handles, NEW g \in Handles, source[d] = h, source[g] = h, d # g
        PROVE  FALSE
    <2>1. d \in Dups(h) /\ g \in Dups(h) \ {d}
      BY <1>3 DEF Dups
    <2>2. IsFiniteSet(Dups(h) \ {d}) /\ Cardinality(Dups(h) \ {d}) = Cardinality(Dups(h)) - 1
      BY <2>1, DupsFinite, FS_RemoveElement
    <2>3. Cardinality(Dups(h) \ {d}) # 0
      BY <2>1, <2>2, FS_EmptySet
    <2>4. Cardinality(Dups(h) \ {d}) \in Nat
      BY <2>2, FS_CardinalityType
    <2> QED
      BY <1>1, <2>2, <2>3, <2>4, DupsFinite
  <1> QED
    BY <1>2, <1>3

LEMMA SharedKept == LifecycleInv /\ [Next]_vars => Shared'
  <1> SUFFICES ASSUME LifecycleInv, [Next]_vars PROVE Shared'
    OBVIOUS
  <1>0. /\ TypeOK /\ Counted /\ Shared /\ Buried
        /\ rc \in [Handles -> Nat] /\ samples \in [Handles -> Handles]
        /\ source \in [Handles -> Handles \union {NULL}]
        /\ dying \in Handles \union {NULL}
    BY DEF LifecycleInv, TypeOK
  <1> USE LifecycleAssumption
  <1>1. ASSUME NEW h \in Handles, CreateSoundBuffer(h)
        PROVE  Shared'
    <2>1. /\ rc' = [rc EXCEPT ![h] = 1] /\ samples' = [samples EXCEPT ![h] = h]
          /\ source' = [source EXCEPT ![h] = NULL] /\ dying' = NULL /\ dying = NULL /\ h \notin stream
      BY <1>1 DEF CreateSoundBuffer, GameCalls, releaseVars
    <2>2. /\ source[h] = NULL /\ \A d \in Handles : source[d] # h
          /\ \A g \in Handles : rc[g] > 0 => samples[g] # h
      BY <2>1, Fresh
    <2>3. source' = source
      BY <1>0, <2>1, <2>2
    <2> QED
      BY <1>0, <2>1, <2>2, <2>3 DEF Shared, Acyclic, Submitting
  <1>2. ASSUME NEW h \in Handles, NEW s \in Handles, DuplicateSoundBuffer(h, s)
        PROVE  Shared'
    <2>1. /\ rc' = [rc EXCEPT ![h] = 1, ![s] = @ + 1]
          /\ samples' = [samples EXCEPT ![h] = samples[s]]
          /\ source' = [source EXCEPT ![h] = s] /\ dying' = NULL /\ dying = NULL
          /\ h \notin stream /\ mine[s] > 0
      BY <1>2 DEF DuplicateSoundBuffer, GameCalls, releaseVars
    <2>2. /\ source[h] = NULL /\ \A d \in Handles : source[d] # h
          /\ \A g \in Handles : rc[g] > 0 => samples[g] # h
          /\ mine[h] = 0 /\ rc[h] = 0
      BY <2>1, Fresh
    <2>3. s # h /\ rc[s] > 0
      BY <1>0, <2>1, <2>2, CountsAreReferences
    <2>4. Acyclic(source')
      BY <1>0, <2>1, <2>2, <2>3, AcyclicGrows DEF Shared
    <2>5. \A g \in Handles \ {h} : samples'[g] = samples[g] /\ source'[g] = source[g]
      BY <1>0, <2>1
    <2>6. /\ samples'[h] = samples[s] /\ source'[h] = s /\ rc'[h] = 1 /\ rc'[s] = rc[s] + 1
          /\ \A g \in Handles \ {h, s} : rc'[g] = rc[g]
      BY <1>0, <2>1, <2>3
    <2>7. \A g \in Handles : source'[g] # NULL => samples'[g] = samples'[source'[g]]
      BY <1>0, <2>2, <2>3, <2>5, <2>6 DEF Shared
    <2>8. \A g \in Handles : (rc'[g] > 0 \/ Submitting(g)') /\ source'[g] = NULL => samples'[g] = g
      BY <1>0, <2>1, <2>3, <2>5, <2>6 DEF Shared, Submitting
    <2>9. samples[s] # h /\ rc[samples[s]] > 0 /\ samples[samples[s]] = samples[s]
      BY <1>0, <2>2, <2>3 DEF Shared
    <2>10. \A g \in Handles :
             rc'[g] > 0 => rc'[samples'[g]] > 0 /\ samples'[samples'[g]] = samples'[g]
      <3> SUFFICES ASSUME NEW g \in Handles, rc'[g] > 0
                   PROVE  rc'[samples'[g]] > 0 /\ samples'[samples'[g]] = samples'[g]
        OBVIOUS
      <3>1. \A o \in Handles : rc[o] > 0 => rc'[o] > 0
        BY <1>0, <2>2, <2>3, <2>6
      <3>2. CASE g = h
        BY <1>0, <2>5, <2>6, <2>9, <3>1, <3>2
      <3>3. CASE g # h
        <4>1. rc[g] > 0
          BY <1>0, <2>3, <2>6, <3>3
        <4>2. samples[g] # h /\ rc[samples[g]] > 0 /\ samples[samples[g]] = samples[g]
          BY <1>0, <2>2, <4>1 DEF Shared
        <4> QED
          BY <1>0, <2>5, <3>1, <3>3, <4>2
      <3> QED
        BY <3>2, <3>3
    <2> QED
      BY <2>4, <2>7, <2>8, <2>10 DEF Shared
  <1>3. ASSUME NEW h \in Handles, AddRef(h)
        PROVE  Shared'
    <2>1. /\ rc' = [rc EXCEPT ![h] = @ + 1] /\ UNCHANGED <<source, samples>>
          /\ dying' = NULL /\ dying = NULL /\ mine[h] > 0
      BY <1>3 DEF AddRef, GameCalls, releaseVars
    <2>2. rc[h] > 0
      BY <1>0, <2>1, CountsAreReferences
    <2>3. \A g \in Handles : rc'[g] > 0 <=> rc[g] > 0
      BY <1>0, <2>1, <2>2
    <2> QED
      BY <1>0, <2>1, <2>3 DEF Shared, Acyclic, Submitting
  <1>4. ASSUME NEW h \in Handles, Release(h)
        PROVE  Shared'
    <2>1. /\ rc' = [rc EXCEPT ![h] = @ - 1] /\ UNCHANGED <<source, samples>>
          /\ dying' = (IF rc[h] = 1 THEN h ELSE NULL) /\ dying = NULL /\ mine[h] > 0
      BY <1>4 DEF Release, Unref, GameCalls
    <2>2. rc[h] > 0
      BY <1>0, <2>1, CountsAreReferences
    <2>3. CASE rc[h] # 1
      <3>1. \A g \in Handles : rc'[g] > 0 <=> rc[g] > 0
        BY <1>0, <2>1, <2>2, <2>3
      <3> QED
        BY <1>0, <2>1, <2>3, <3>1 DEF Shared, Acyclic, Submitting
    <2>4. CASE rc[h] = 1
      <3> DEFINE R == {g \in Handles : g # h /\ rc[g] > 0}
      <3>1. \A g \in Handles : source[g] # h
        BY <1>0, <2>1, <2>4, LastReference
      <3>2. \A g \in Handles : rc'[g] > 0 <=> g \in R
        BY <1>0, <2>1, <2>4
      <3>3. \A g \in R : source[g] # NULL => source[g] \in R /\ samples[g] = samples[source[g]]
        BY <1>0, <3>1, CountsAreReferences DEF Shared
      <3>4. \A g \in R : source[g] = NULL => samples[g] = g
        BY <1>0 DEF Shared
      <3>5. Acyclic(source)
        BY <1>0 DEF Shared
      <3>6. \A g \in R : samples[g] # h
        <4> HIDE DEF R
        <4>1. R \in SUBSET Handles
          BY DEF R
        <4>2. \A g \in R : samples[g] = h => g = h
          BY <1>0, <3>1, <3>3, <3>4, <3>5, <4>1, OwnerOutlives
        <4> QED
          BY <4>2 DEF R
      <3>7. \A g \in R : samples[g] \in R /\ samples[samples[g]] = samples[g]
        BY <1>0, <3>6 DEF Shared
      <3> HIDE DEF R
      <3>8. \A g \in Handles : rc'[g] > 0 \/ Submitting(g)' => rc[g] > 0
        BY <1>0, <2>1, <2>2, <3>2 DEF R, Submitting
      <3> QED
        BY <1>0, <2>1, <3>2, <3>7, <3>8 DEF Shared
    <2> QED
      BY <2>3, <2>4
  <1>5. CASE NotifySource
    <2>0. PICK d \in Handles : d = dying
      BY <1>0, <1>5 DEF NotifySource
    <2>1. /\ source' = [source EXCEPT ![d] = NULL] /\ samples' = samples /\ rc[d] = 0 /\ handed
      BY <1>0, <1>5, <2>0 DEF NotifySource, Counted
    <2>2. /\ Acyclic(source') /\ source'[d] = NULL
          /\ \A g \in Handles \ {d} : source'[g] = source[g]
      BY <1>0, <2>1, AcyclicShrinks DEF Shared
    <2>3. CASE source[d] = NULL
      <3>1. rc' = rc /\ dying' = NULL
        BY <1>5, <2>0, <2>3 DEF NotifySource
      <3> QED
        BY <1>0, <2>1, <2>2, <3>1 DEF Shared, Submitting
    <2>4. CASE source[d] # NULL
      <3>0. PICK s \in Handles : s = source[d]
        BY <1>0, <2>4
      <3>1. rc' = [rc EXCEPT ![s] = @ - 1] /\ dying' = (IF rc[s] = 1 THEN s ELSE NULL)
        BY <1>5, <2>0, <2>4, <3>0 DEF NotifySource, Unref
      <3>2. rc[s] > 0 /\ s # d
        BY <1>0, <2>1, <3>0, CountsAreReferences
      <3>3. \A g \in Handles : source'[g] # NULL => samples'[g] = samples'[source'[g]]
        BY <1>0, <2>1, <2>2 DEF Shared
      <3>4. \A g \in Handles : rc'[g] > 0 \/ Submitting(g)' => rc[g] > 0
        BY <1>0, <3>1, <3>2 DEF Submitting
      <3>5. \A g \in Handles : rc[g] > 0 => g # d
        BY <2>1
      <3>6. \A g \in Handles : (rc'[g] > 0 \/ Submitting(g)') /\ source'[g] = NULL => samples'[g] = g
        BY <1>0, <2>1, <2>2, <3>4, <3>5 DEF Shared
      <3>7. CASE rc[s] # 1
        <4>1. \A g \in Handles : rc'[g] > 0 <=> rc[g] > 0
          BY <1>0, <3>1, <3>2, <3>7
        <4> QED
          BY <1>0, <2>1, <2>2, <3>3, <3>6, <4>1 DEF Shared
      <3>8. CASE rc[s] = 1
        <4> DEFINE R == {g \in Handles : g # s /\ rc[g] > 0}
        <4>1. \A g \in Handles : source'[g] # s
          BY <1>0, <2>2, <3>0, <3>8, LastReference, LifecycleAssumption
        <4>2. \A g \in Handles : rc'[g] > 0 <=> g \in R
          BY <1>0, <3>1, <3>8
        <4>3. \A g \in R : source'[g] # NULL =>
                source'[g] \in R /\ samples[g] = samples[source'[g]]
          BY <1>0, <2>2, <3>5, <4>1, CountsAreReferences DEF Shared
        <4>4. \A g \in R : source'[g] = NULL => samples[g] = g
          BY <1>0, <2>2, <3>5 DEF Shared
        <4>5. source' \in [Handles -> Handles \union {NULL}]
          BY <1>0, <2>1
        <4>6. \A g \in R : samples[g] # s
          <5> HIDE DEF R
          <5>1. R \in SUBSET Handles
            BY DEF R
          <5>2. \A g \in R : samples[g] = s => g = s
            BY <1>0, <2>2, <4>1, <4>3, <4>4, <4>5, <5>1, OwnerOutlives
          <5> QED
            BY <5>2 DEF R
        <4>7. \A g \in R : samples[g] \in R /\ samples[samples[g]] = samples[g]
          BY <1>0, <4>6 DEF Shared
        <4> HIDE DEF R
        <4> QED
          BY <1>0, <2>1, <2>2, <3>3, <3>6, <4>2, <4>7 DEF Shared
      <3> QED
        BY <3>7, <3>8
    <2> QED
      BY <2>3, <2>4
  <1>6. CASE SubmitTask
    BY <1>0, <1>6 DEF SubmitTask, Shared, Acyclic, Submitting, countVars
  <1>7. CASE ~CountStep /\ ~SubmitTask
    <2>1. UNCHANGED <<rc, source, samples, dying>>
      BY <1>7, OthersCountNothing
    <2>2. UNCHANGED handed
      BY <1>7, OthersCountNothing
    <2> QED
      BY <1>0, <2>1, <2>2, Frames
  <1> QED
    BY <1>1, <1>2, <1>3, <1>4, <1>5, <1>6, <1>7 DEF CountStep

-----------------------------------------------------------------------------
(* The way to the reaper. *)

LEMMA ItemsAppend ==
  ASSUME NEW S, NEW q \in Seq(S), NEW x \in S
  PROVE  /\ Items(Append(q, x)) = Items(q) \union {x}
         /\ Distinct(q) /\ x \notin Items(q) => Distinct(Append(q, x))
  <1>1. /\ Len(Append(q, x)) = Len(q) + 1 /\ Append(q, x)[Len(q) + 1] = x /\ Len(q) \in Nat
        /\ \A i \in 1..Len(q) : Append(q, x)[i] = q[i]
    OBVIOUS
  <1>2. Items(Append(q, x)) = Items(q) \union {x}
    BY <1>1 DEF Items
  <1>3. ASSUME Distinct(q), x \notin Items(q)
        PROVE  Distinct(Append(q, x))
    BY <1>1, <1>3 DEF Distinct, Items
  <1> QED
    BY <1>2, <1>3

LEMMA ItemsTail ==
  ASSUME NEW S, NEW q \in Seq(S), q # <<>>
  PROVE  /\ Items(q) = Items(Tail(q)) \union {Head(q)}
         /\ Distinct(q) => Distinct(Tail(q)) /\ Head(q) \notin Items(Tail(q))
  <1>1. /\ Len(q) \in Nat \ {0} /\ Len(Tail(q)) = Len(q) - 1 /\ Head(q) = q[1]
        /\ \A i \in 1..(Len(q) - 1) : Tail(q)[i] = q[i + 1]
    OBVIOUS
  <1>2. Items(Tail(q)) \union {Head(q)} \subseteq Items(q)
    BY <1>1 DEF Items
  <1>3. Items(q) \subseteq Items(Tail(q)) \union {Head(q)}
    <2> SUFFICES ASSUME NEW i \in 1..Len(q)
                 PROVE  q[i] \in Items(Tail(q)) \union {Head(q)}
      BY DEF Items
    <2>1. CASE i = 1
      BY <1>1, <2>1
    <2>2. CASE i # 1
      <3>1. i - 1 \in 1..Len(Tail(q)) /\ Tail(q)[i - 1] = q[i]
        BY <1>1, <2>2
      <3> QED
        BY <3>1 DEF Items
    <2> QED
      BY <2>1, <2>2
  <1>4. ASSUME Distinct(q)
        PROVE  Distinct(Tail(q)) /\ Head(q) \notin Items(Tail(q))
    BY <1>1, <1>4 DEF Distinct, Items
  <1> QED
    BY <1>2, <1>3, <1>4

LEMMA ItemsType ==
  ASSUME NEW S, NEW q \in Seq(S)
  PROVE  Items(q) \subseteq S
  BY DEF Items

LEMMA OthersBuryNothing ==
  [Next]_vars /\ ~CountStep /\ ~SubmitTask /\ ~TakeStep /\ ~ReaperDestroys =>
    UNCHANGED <<stream, memory, pending, tasks>>
  <1> DEFINE Kept == UNCHANGED <<stream, memory, pending, tasks>>
  <1>1. ApiStep => Kept
    BY DEF ApiStep, StartReaper, StartWasapi, StartWasapiFails, JoinReaper, reaperVars
  <1>2. \A h \in Handles : Call(h) /\ ~CountStep => Kept
    BY DEF Call, CountStep, Method, reaperVars
  <1>3. \A what : AllocFails(what) => Kept
    BY DEF AllocFails, reaperVars
  <1>4. RenderStep \/ RenderExit => Kept
    BY DEF RenderStep, ServiceIntake, ExecuteCommand, Mix, RunCallbacks, ServiceExhaust, RenderExit,
       reaperVars
  <1>5. ReaperStep /\ ~TakeStep /\ ~ReaperDestroys => Kept
    BY ChecksOrSleeps DEF ReaperStep, TakeStep, ReaperSleeps, ReaperSubmitsStop, ReaperHasNothing,
       ReaperWaitsFence, ReaperResetsFence
  <1>6. UNCHANGED vars => Kept
    BY DEF vars, reaperVars
  <1> QED
    BY <1>1, <1>2, <1>3, <1>4, <1>5, <1>6 DEF Next, CountStep

LEMMA BatchTaken ==
  ASSUME TakeStep, ReaperShape
  PROVE  /\ reaper \in {"check", "asleep", "woken"} /\ tasks = <<>>
         /\ tasks' = pending /\ pending' = <<>> /\ sent' = 0 /\ reaper' = "submit"
         /\ UNCHANGED <<api, rc, mine, source, samples, stream, memory, dying, handed, intake,
                        chamber, executed, mixer, render, stop, fence>>
  BY DEF TakeStep, ReaperTakes, ReaperChecks, ReaperWakes, ReaperShape, countVars, releaseVars,
     renderVars

LEMMA FirstDestroyed ==
  ASSUME ReaperDestroys, TypeOK, ReaperShape
  PROVE  /\ reaper = "destroy" /\ tasks # <<>> /\ Head(tasks) \in Handles
         /\ stream' = stream \ {Head(tasks)} /\ tasks' = Tail(tasks)
         /\ memory' = IF samples[Head(tasks)] = Head(tasks) THEN memory \ {Head(tasks)}
                                                            ELSE memory
         /\ sent = Len(tasks) /\ sent' = sent - 1
         /\ reaper' = "destroy" <=> Tail(tasks) # <<>>
         /\ Tail(tasks) = <<>> => reaper' \in {"none", "check"}
         /\ UNCHANGED <<api, rc, mine, source, samples, dying, handed, intake, chamber, executed,
                        mixer, render, pending, stop, fence>>
  <1>1. tasks # <<>> /\ tasks \in Seq(Handles) /\ reaper = "destroy" /\ sent = Len(tasks)
    BY DEF ReaperDestroys, ReaperShape, TypeOK
  <1>2. Head(tasks) \in Handles /\ (Len(tasks) > 1 <=> Tail(tasks) # <<>>)
    BY <1>1
  <1>3. /\ stream' = stream \ {Head(tasks)} /\ tasks' = Tail(tasks) /\ sent' = sent - 1
        /\ memory' = IF samples[Head(tasks)] = Head(tasks) THEN memory \ {Head(tasks)}
                                                           ELSE memory
    BY DEF ReaperDestroys
  <1>4. /\ reaper' = "destroy" <=> Tail(tasks) # <<>>
        /\ Tail(tasks) = <<>> => reaper' \in {"none", "check"}
    BY <1>2 DEF ReaperDestroys
  <1>5. UNCHANGED <<api, rc, mine, source, samples, dying, handed, intake, chamber, executed,
                    mixer, render, pending, stop, fence>>
    BY DEF ReaperDestroys, countVars, releaseVars, renderVars
  <1> QED
    BY <1>1, <1>2, <1>3, <1>4, <1>5

LEMMA QueuesAlone ==
  ASSUME Buried, UNCHANGED <<pending, tasks>>, stream \subseteq stream',
         \A h \in Queued : rc'[h] = 0 /\ ~Submitting(h)',
         \A h \in Handles : rc'[h] > 0 \/ Submitting(h)' => h \in stream',
         \A h \in stream' : rc'[h] > 0 \/ Submitting(h)' \/ h \in Queued
  PROVE  Buried'
  <1>1. Items(pending)' = Items(pending) /\ Items(tasks)' = Items(tasks) /\ Queued' = Queued
    BY DEF Items, Queued
  <1>2. Distinct(pending)' /\ Distinct(tasks)'
    BY DEF Distinct, Buried
  <1> QED
    BY <1>1, <1>2 DEF Buried

LEMMA BuriedKept == LifecycleInv /\ [Next]_vars => Buried'
  <1> SUFFICES ASSUME LifecycleInv, [Next]_vars PROVE Buried'
    OBVIOUS
  <1>0. /\ TypeOK /\ Counted /\ Buried /\ ReaperShape
        /\ rc \in [Handles -> Nat] /\ stream \subseteq Handles
        /\ source \in [Handles -> Handles \union {NULL}]
        /\ dying \in Handles \union {NULL}
        /\ pending \in Seq(Handles) /\ tasks \in Seq(Handles)
    BY DEF LifecycleInv, TypeOK
  <1> USE LifecycleAssumption
  <1>1. ASSUME NEW h \in Handles, CreateSoundBuffer(h)
        PROVE  Buried'
    <2>1. /\ rc' = [rc EXCEPT ![h] = 1] /\ stream' = stream \union {h} /\ h \notin stream
          /\ dying' = NULL /\ dying = NULL /\ UNCHANGED <<pending, tasks>>
      BY <1>1 DEF CreateSoundBuffer, GameCalls, releaseVars, reaperVars
    <2>2. h \notin Queued
      BY <2>1, Fresh
    <2> QED
      BY <1>0, <2>1, <2>2, QueuesAlone DEF Buried, Submitting
  <1>2. ASSUME NEW h \in Handles, NEW s \in Handles, DuplicateSoundBuffer(h, s)
        PROVE  Buried'
    <2>1. /\ rc' = [rc EXCEPT ![h] = 1, ![s] = @ + 1] /\ stream' = stream \union {h}
          /\ h \notin stream /\ mine[s] > 0
          /\ dying' = NULL /\ dying = NULL /\ UNCHANGED <<pending, tasks>>
      BY <1>2 DEF DuplicateSoundBuffer, GameCalls, releaseVars, reaperVars
    <2>2. h \notin Queued /\ mine[h] = 0
      BY <2>1, Fresh
    <2>3. rc[s] > 0 /\ s # h
      BY <1>0, <2>1, <2>2, CountsAreReferences
    <2>4. /\ rc'[h] > 0 /\ rc'[s] > 0
          /\ \A g \in Handles \ {h, s} : rc'[g] = rc[g]
      BY <1>0, <2>1, <2>3
    <2> QED
      BY <1>0, <2>1, <2>2, <2>3, <2>4, QueuesAlone DEF Buried, Submitting
  <1>3. ASSUME NEW h \in Handles, AddRef(h)
        PROVE  Buried'
    <2>1. /\ rc' = [rc EXCEPT ![h] = @ + 1] /\ mine[h] > 0
          /\ dying' = NULL /\ dying = NULL /\ UNCHANGED <<stream, pending, tasks>>
      BY <1>3 DEF AddRef, GameCalls, releaseVars, reaperVars
    <2>2. rc[h] > 0
      BY <1>0, <2>1, CountsAreReferences
    <2>3. rc'[h] > 0 /\ \A g \in Handles \ {h} : rc'[g] = rc[g]
      BY <1>0, <2>1, <2>2
    <2> QED
      BY <1>0, <2>1, <2>2, <2>3, QueuesAlone DEF Buried, Submitting
  <1>4. ASSUME NEW h \in Handles, Release(h)
        PROVE  Buried'
    <2>1. /\ rc' = [rc EXCEPT ![h] = @ - 1] /\ mine[h] > 0
          /\ dying' = (IF rc[h] = 1 THEN h ELSE NULL) /\ dying = NULL /\ ~handed'
          /\ UNCHANGED <<stream, pending, tasks>>
      BY <1>4 DEF Release, Unref, GameCalls, reaperVars
    <2>2. rc[h] > 0
      BY <1>0, <2>1, CountsAreReferences
    <2>3. \A g \in Handles : rc'[g] > 0 \/ Submitting(g)' <=> rc[g] > 0
      BY <1>0, <2>1, <2>2 DEF Submitting
    <2>4. \A g \in Handles : rc[g] = 0 => rc'[g] = 0
      BY <1>0, <2>1, <2>2
    <2> QED
      BY <1>0, <2>1, <2>3, <2>4, QueuesAlone DEF Buried, Submitting
  <1>5. CASE NotifySource
    <2>0. PICK d \in Handles : d = dying
      BY <1>0, <1>5 DEF NotifySource
    <2>1. rc[d] = 0 /\ handed /\ UNCHANGED <<stream, pending, tasks>>
      BY <1>0, <1>5, <2>0 DEF NotifySource, Counted, reaperVars
    <2>2. CASE source[d] = NULL
      <3>1. rc' = rc /\ dying' = NULL
        BY <1>5, <2>0, <2>2 DEF NotifySource
      <3> QED
        BY <1>0, <2>1, <3>1, QueuesAlone DEF Buried, Submitting
    <2>3. CASE source[d] # NULL
      <3>0. PICK s \in Handles : s = source[d]
        BY <1>0, <2>3
      <3>1. rc' = [rc EXCEPT ![s] = @ - 1] /\ dying' = (IF rc[s] = 1 THEN s ELSE NULL) /\ ~handed'
        BY <1>5, <2>0, <2>3, <3>0 DEF NotifySource, Unref
      <3>2. rc[s] > 0
        BY <1>0, <2>1, <3>0, CountsAreReferences
      <3>3. \A g \in Handles : rc'[g] > 0 \/ Submitting(g)' <=> rc[g] > 0
        BY <1>0, <3>1, <3>2 DEF Submitting
      <3>4. \A g \in Handles : rc[g] = 0 => rc'[g] = 0
        BY <1>0, <3>1, <3>2
      <3> QED
        BY <1>0, <2>1, <3>3, <3>4, QueuesAlone DEF Buried, Submitting
    <2> QED
      BY <2>2, <2>3
  <1>6. CASE SubmitTask
    <2>1. /\ dying \in Handles /\ ~handed /\ handed' /\ pending' = Append(pending, dying)
          /\ UNCHANGED <<rc, stream, tasks, dying>>
      BY <1>0, <1>6 DEF SubmitTask, countVars
    <2>2. dying \notin Queued /\ rc[dying] = 0 /\ dying \in stream
      BY <1>0, <2>1 DEF Buried, Submitting, Counted
    <2>3. Items(pending') = Items(pending) \union {dying} /\ Distinct(pending')
      BY <1>0, <2>1, <2>2, ItemsAppend DEF Buried, Queued
    <2>4. Queued' = Queued \union {dying}
      BY <2>1, <2>3 DEF Queued
    <2>5. Distinct(tasks') /\ Items(pending') \intersect Items(tasks') = {}
      BY <1>0, <2>1, <2>2, <2>3 DEF Buried, Queued
    <2>6. \A g : Submitting(g) <=> g = dying
      BY <2>1 DEF Submitting
    <2>7. \A g : ~Submitting(g)'
      BY <2>1 DEF Submitting
    <2> QED
      BY <1>0, <2>1, <2>2, <2>3, <2>4, <2>5, <2>6, <2>7 DEF Buried
  <1>7. CASE TakeStep
    <2>1. /\ tasks' = pending /\ pending' = <<>> /\ tasks = <<>>
          /\ UNCHANGED <<rc, stream, dying, handed>>
      BY <1>0, <1>7, BatchTaken
    <2>2. Items(tasks) = {} /\ Items(pending') = {}
      BY <2>1 DEF Items
    <2>3. Queued' = Queued /\ Distinct(pending')
      BY <2>1, <2>2 DEF Queued, Distinct
    <2> QED
      BY <1>0, <2>1, <2>2, <2>3 DEF Buried, Submitting
  <1>8. CASE ReaperDestroys
    <2>1. /\ tasks # <<>> /\ stream' = stream \ {Head(tasks)} /\ tasks' = Tail(tasks)
          /\ UNCHANGED <<rc, dying, handed, pending>>
      BY <1>0, <1>8, FirstDestroyed
    <2>2. /\ Items(tasks) = Items(tasks') \union {Head(tasks)}
          /\ Distinct(tasks') /\ Head(tasks) \notin Items(tasks')
      BY <1>0, <2>1, ItemsTail DEF Buried
    <2>3. Queued' = Queued \ {Head(tasks)} /\ Head(tasks) \in Queued
      BY <1>0, <2>1, <2>2 DEF Queued, Buried
    <2>4. Distinct(pending') /\ Items(pending') \intersect Items(tasks') = {}
      BY <1>0, <2>1, <2>2 DEF Buried
    <2>5. \A g : Submitting(g)' <=> Submitting(g)
      BY <2>1 DEF Submitting
    <2> QED
      BY <1>0, <2>1, <2>2, <2>3, <2>4, <2>5 DEF Buried
  <1>9. CASE ~CountStep /\ ~SubmitTask /\ ~TakeStep /\ ~ReaperDestroys
    BY <1>0, <1>9, OthersCountNothing, OthersBuryNothing, Frames
  <1> QED
    BY <1>1, <1>2, <1>3, <1>4, <1>5, <1>6, <1>7, <1>8, <1>9 DEF CountStep

-----------------------------------------------------------------------------
(* Samples and their owners. *)

LEMMA OwnersLast ==
  ASSUME LifecycleInv, NEW h \in stream, samples[h] \in Queued
  PROVE  h \in Queued
  <1>0. /\ Counted /\ Shared /\ Buried /\ TypeOK
        /\ h \in Handles /\ source \in [Handles -> Handles \union {NULL}]
    BY DEF LifecycleInv, TypeOK
  <1>1. rc[samples[h]] = 0 /\ ~Submitting(samples[h])
    BY <1>0 DEF Buried
  <1>2. ~(rc[h] > 0)
    BY <1>0, <1>1 DEF Shared
  <1>3. ASSUME Submitting(h)
        PROVE  FALSE
    <2>1. CASE source[h] = NULL
      BY <1>0, <1>1, <1>3, <2>1 DEF Shared
    <2>2. CASE source[h] # NULL
      <3>1. samples[h] = samples[source[h]] /\ source[h] \in Handles /\ rc[source[h]] > 0
        BY <1>0, <2>2, CountsAreReferences DEF Shared
      <3> QED
        BY <1>0, <1>1, <3>1 DEF Shared
    <2> QED
      BY <2>1, <2>2
  <1> QED
    BY <1>0, <1>2, <1>3 DEF Buried

LEMMA OthersKeepDestroying ==
  LifecycleInv /\ [Next]_vars /\ ~ReaperDestroys /\ reaper = "destroy" => reaper' = "destroy"
  <1> SUFFICES ASSUME ReaperShape, [Next]_vars, ~ReaperDestroys, reaper = "destroy"
               PROVE  reaper' = "destroy"
    BY DEF LifecycleInv
  <1>1. CASE ApiStep
    BY <1>1 DEF ApiStep, StartReaper, StartWasapi, StartWasapiFails, JoinReaper, Wake, ReaperShape,
       reaperVars
  <1>2. CASE \E h \in Handles : Call(h)
    BY <1>2 DEF Call, CreateSoundBuffer, DuplicateSoundBuffer, AddRef, Method, Release, reaperVars
  <1>3. CASE \E what : AllocFails(what)
    BY <1>3 DEF AllocFails, reaperVars
  <1>4. CASE SubmitTask \/ NotifySource
    BY <1>4 DEF SubmitTask, Wake, NotifySource, reaperVars
  <1>5. CASE RenderStep \/ RenderExit
    BY <1>5 DEF RenderStep, ServiceIntake, ExecuteCommand, Mix, RunCallbacks, ServiceExhaust,
       RenderExit, reaperVars
  <1>6. CASE ReaperStep
    BY <1>6 DEF ReaperStep, ReaperChecks, ReaperWakes, ReaperSubmitsStop, ReaperHasNothing,
       ReaperWaitsFence, ReaperResetsFence
  <1>7. CASE UNCHANGED vars
    BY <1>7 DEF vars, reaperVars
  <1> QED
    BY <1>1, <1>2, <1>3, <1>4, <1>5, <1>6, <1>7 DEF Next

LEMMA BackedKept == LifecycleInv /\ [Next]_vars => Backed'
  <1> SUFFICES ASSUME LifecycleInv, [Next]_vars PROVE Backed'
    OBVIOUS
  <1>0. /\ TypeOK /\ Counted /\ Shared /\ Buried /\ Backed /\ ReaperShape
        /\ rc \in [Handles -> Nat] /\ samples \in [Handles -> Handles] /\ stream \subseteq Handles
        /\ pending \in Seq(Handles) /\ tasks \in Seq(Handles)
    BY DEF LifecycleInv, TypeOK
  <1>1. ASSUME NEW h \in Handles, CreateSoundBuffer(h)
        PROVE  Backed'
    <2>1. /\ stream' = stream \union {h} /\ samples' = [samples EXCEPT ![h] = h]
          /\ memory' = memory \union {h} /\ dying = NULL /\ h \notin stream
          /\ UNCHANGED <<tasks, reaper>>
      BY <1>1 DEF CreateSoundBuffer, GameCalls, reaperVars
    <2>2. h \notin Items(tasks) /\ Items(tasks)' = Items(tasks)
      BY <2>1, Fresh DEF Queued, Items
    <2> QED
      BY <1>0, <2>1, <2>2 DEF Backed
  <1>2. ASSUME NEW h \in Handles, NEW s \in Handles, DuplicateSoundBuffer(h, s)
        PROVE  Backed'
    <2>1. /\ stream' = stream \union {h} /\ samples' = [samples EXCEPT ![h] = samples[s]]
          /\ dying = NULL /\ h \notin stream /\ mine[s] > 0
          /\ UNCHANGED <<memory, tasks, reaper>>
      BY <1>2 DEF DuplicateSoundBuffer, GameCalls, reaperVars
    <2>2. Items(tasks)' = Items(tasks)
      BY <2>1 DEF Items
    <2>3. rc[s] > 0 /\ rc[samples[s]] > 0
      BY <1>0, <2>1, CountsAreReferences DEF Shared
    <2>4. s \in stream /\ s \notin Items(tasks) /\ samples[s] \notin Items(tasks)
      BY <1>0, <2>3 DEF Buried, Queued
    <2> QED
      BY <1>0, <2>1, <2>2, <2>4 DEF Backed
  <1>3. CASE TakeStep
    <2>1. /\ tasks' = pending /\ tasks = <<>> /\ reaper # "destroy"
          /\ UNCHANGED <<samples, stream, memory>>
      BY <1>0, <1>3, BatchTaken
    <2>2. Items(tasks)' = Queued
      BY <2>1 DEF Items, Queued
    <2> QED
      BY <1>0, <2>1, <2>2, OwnersLast DEF Backed
  <1>4. CASE ReaperDestroys
    <2> DEFINE o == Head(tasks)
    <2>1. /\ tasks # <<>> /\ o \in Handles /\ stream' = stream \ {o} /\ tasks' = Tail(tasks)
          /\ memory \ {o} \subseteq memory'
          /\ reaper = "destroy"
          /\ reaper' = "destroy" <=> Tail(tasks) # <<>>
          /\ samples' = samples
      BY <1>0, <1>4, FirstDestroyed
    <2>2. Items(tasks) = Items(Tail(tasks)) \union {o} /\ Items(tasks)' = Items(Tail(tasks))
      BY <1>0, <2>1, ItemsTail DEF Items
    <2>3. Items(Tail(tasks)) # {} => reaper' = "destroy"
      <3>1. Items(<<>>) = {}
        BY DEF Items
      <3> QED
        BY <2>1, <3>1
    <2> HIDE DEF o
    <2>4. \A h \in stream' : samples'[h] \in Items(tasks)' => h \in Items(tasks)'
      BY <1>0, <2>1, <2>2 DEF Backed
    <2>5. \A h \in stream' : samples'[h] \in memory' \/ (reaper' = "destroy" /\ h \in Items(tasks)')
      <3> SUFFICES ASSUME NEW h \in stream', h \notin Items(tasks)'
                   PROVE  samples'[h] \in memory'
        BY <2>2, <2>3
      <3>1. h \in stream /\ h \notin Items(tasks)
        BY <2>1, <2>2
      <3>2. samples[h] # o
        BY <1>0, <2>2, <3>1 DEF Backed
      <3> QED
        BY <1>0, <2>1, <3>1, <3>2 DEF Backed
    <2> QED
      BY <2>4, <2>5 DEF Backed
  <1>5. CASE /\ UNCHANGED <<stream, memory, samples, tasks>>
             /\ reaper = "destroy" => reaper' = "destroy"
    <2>1. Items(tasks)' = Items(tasks)
      BY <1>5 DEF Items
    <2> QED
      BY <1>0, <1>5, <2>1 DEF Backed
  <1>6. CASE (\E h \in Handles : AddRef(h) \/ Release(h)) \/ NotifySource \/ SubmitTask
    <2>1. UNCHANGED <<stream, memory, samples, tasks>> /\ (reaper = "destroy" => reaper' = "destroy")
      BY <1>6 DEF AddRef, Release, NotifySource, SubmitTask, Wake, reaperVars, countVars
    <2> QED
      BY <1>5, <2>1
  <1>7. CASE ~CountStep /\ ~SubmitTask /\ ~TakeStep /\ ~ReaperDestroys
    BY <1>5, <1>7, OthersCountNothing, OthersBuryNothing, OthersKeepDestroying
  <1> QED
    BY <1>1, <1>2, <1>3, <1>4, <1>6, <1>7 DEF CountStep

-----------------------------------------------------------------------------
(* The threads' states. *)

LEMMA RenderShapeKept == LifecycleInv /\ [Next]_vars => RenderShape'
  <1> SUFFICES ASSUME RenderShape, executed \in 0..Len(chamber), chamber \in Seq(Command), [Next]_vars
               PROVE  RenderShape'
    BY DEF LifecycleInv, TypeOK
  <1>1. CASE ApiStep
    BY <1>1 DEF ApiStep, StartReaper, StartWasapi, StartWasapiFails, JoinReaper, RenderShape,
       renderVars
  <1>2. CASE \E h \in Handles : Call(h)
    BY <1>2, Frames DEF Call, CreateSoundBuffer, DuplicateSoundBuffer, AddRef, Method, Release,
       renderVars
  <1>3. CASE (\E what : AllocFails(what)) \/ SubmitTask \/ NotifySource
    BY <1>3, Frames DEF AllocFails, SubmitTask, NotifySource, renderVars
  <1>4. CASE ServiceIntake \/ ExecuteCommand \/ Mix
    BY <1>4 DEF ServiceIntake, ExecuteCommand, Mix, RenderShape
  <1>5. CASE RunCallbacks \/ ServiceExhaust \/ RenderExit
    BY <1>5 DEF RunCallbacks, ServiceExhaust, RenderExit, RenderShape
  <1>6. CASE ReaperStep
    BY <1>6, Frames DEF ReaperStep, ReaperChecks, ReaperWakes, ReaperSubmitsStop, ReaperHasNothing,
       ReaperWaitsFence, ReaperResetsFence, ReaperDestroys, renderVars
  <1>7. CASE UNCHANGED vars
    BY <1>7, Frames DEF vars, renderVars
  <1> QED
    BY <1>1, <1>2, <1>3, <1>4, <1>5, <1>6, <1>7 DEF Next, RenderStep

LEMMA ReaperShapeKept == LifecycleInv /\ [Next]_vars => ReaperShape'
  <1> SUFFICES ASSUME TypeOK, ReaperShape, [Next]_vars PROVE ReaperShape'
    BY DEF LifecycleInv
  <1>0. pending \in Seq(Handles) /\ tasks \in Seq(Handles) /\ sent \in 0..Len(tasks)
    BY DEF TypeOK
  <1>1. CASE ApiStep
    BY <1>1 DEF ApiStep, StartReaper, StartWasapi, StartWasapiFails, JoinReaper, Wake, ReaperShape,
       reaperVars
  <1>2. CASE \E h \in Handles : Call(h)
    BY <1>2, Frames DEF Call, CreateSoundBuffer, DuplicateSoundBuffer, AddRef, Method, Release,
       reaperVars
  <1>3. CASE (\E what : AllocFails(what)) \/ NotifySource
    BY <1>3, Frames DEF AllocFails, NotifySource, reaperVars
  <1>4. CASE SubmitTask
    BY <1>4 DEF SubmitTask, Wake, ReaperShape
  <1>5. CASE RenderStep \/ RenderExit
    BY <1>5, Frames DEF RenderStep, ServiceIntake, ExecuteCommand, Mix, RunCallbacks,
       ServiceExhaust, RenderExit, reaperVars
  <1>6. CASE TakeStep
    <2>1. Len(pending) \in Nat /\ (pending # <<>> => 0 < Len(pending))
      BY <1>0
    <2> QED
      BY <1>6, <2>1, BatchTaken DEF ReaperShape
  <1>7. CASE ReaperSleeps
    BY <1>7 DEF ReaperSleeps, ReaperShape
  <1>8. CASE ReaperSubmitsStop
    <2>1. sent + 1 = Len(tasks) \/ sent + 1 < Len(tasks)
      BY <1>0, <1>8 DEF ReaperSubmitsStop
    <2>2. tasks # <<>>
      BY <1>0, <1>8 DEF ReaperSubmitsStop
    <2> QED
      BY <1>8, <2>1, <2>2 DEF ReaperSubmitsStop, ReaperShape
  <1>9. CASE ReaperHasNothing \/ ReaperWaitsFence \/ ReaperResetsFence
    BY <1>9 DEF ReaperHasNothing, ReaperWaitsFence, ReaperResetsFence, ReaperShape
  <1>10. CASE ReaperDestroys
    <2>1. Len(Tail(tasks)) = Len(tasks) - 1
      BY <1>0, <1>10, FirstDestroyed
    <2> QED
      BY <1>10, <2>1, FirstDestroyed DEF ReaperShape
  <1>11. CASE UNCHANGED vars
    BY <1>11, Frames DEF vars, reaperVars
  <1> QED
    BY <1>1, <1>2, <1>3, <1>4, <1>5, <1>6, <1>7, <1>8, <1>9, <1>10, <1>11, ChecksOrSleeps
    DEF Next, ReaperStep, TakeStep

-----------------------------------------------------------------------------
(* The fence. *)

LEMMA AppendedCommand ==
  ASSUME NEW q \in Seq(Command), NEW c \in Command, NEW h
  PROVE  /\ c.stm # h /\ StopIn(q, 1, h) => StopIn(Append(q, c), 1, h)
         /\ c.stm # h /\ NoneIn(q, 1, h) => NoneIn(Append(q, c), 1, h)
         /\ c.stm = h /\ c.op = "STOP" => StopIn(Append(q, c), 1, h)
  <1>1. /\ Len(Append(q, c)) = Len(q) + 1 /\ Append(q, c)[Len(q) + 1] = c /\ Len(q) \in Nat
        /\ \A i \in 1..Len(q) : Append(q, c)[i] = q[i]
    OBVIOUS
  <1>2. ASSUME c.stm # h, StopIn(q, 1, h)
        PROVE  StopIn(Append(q, c), 1, h)
    <2>1. PICK k \in 1..Len(q) :
            q[k].op = "STOP" /\ q[k].stm = h /\ \A j \in (k + 1)..Len(q) : q[j].stm # h
      BY <1>2 DEF StopIn
    <2>2. \A j \in (k + 1)..Len(Append(q, c)) : Append(q, c)[j].stm # h
      BY <1>1, <1>2, <2>1
    <2> QED
      BY <1>1, <2>1, <2>2 DEF StopIn
  <1>3. c.stm # h /\ NoneIn(q, 1, h) => NoneIn(Append(q, c), 1, h)
    BY <1>1 DEF NoneIn
  <1>4. c.stm = h /\ c.op = "STOP" => StopIn(Append(q, c), 1, h)
    BY <1>1 DEF StopIn
  <1> QED
    BY <1>2, <1>3, <1>4

\* Between batches, and while a batch is being submitted, there is no fence.
LEMMA NoFence ==
  ASSUME Fenced, reaper # "fence", reaper # "reset"
  PROVE  ~fence /\ ~FenceInIntake /\ ~FenceInChamber
  BY DEF Fenced

LEMMA FencedAsleep ==
  ASSUME Fenced, reaper \notin {"fence", "reset", "destroy"},
         reaper' \notin {"fence", "reset", "destroy"},
         UNCHANGED <<intake, chamber, executed, mixer, render, tasks, sent, fence>>
  PROVE  Fenced'
  BY NoFence DEF Fenced, FenceInIntake, FenceInChamber, Silenced, StopIn, NoneIn

LEMMA Living ==
  ASSUME LifecycleInv, NEW h \in Handles, mine[h] > 0
  PROVE  h \in stream /\ \A i \in 1..Len(tasks) : tasks[i] # h
  BY CountsAreReferences DEF LifecycleInv, Buried, Queued, Items

LEMMA FencedMethod ==
  ASSUME LifecycleInv, NEW op \in {"PLAY", "STOP", "SET_VOLUME"}, NEW h \in Handles, Method(op, h)
  PROVE  Fenced'
  <1> DEFINE c == [op |-> op, stm |-> h, fenced |-> FALSE]
  <1>0. TypeOK /\ Fenced /\ intake \in Seq(Command) /\ sent \in 0..Len(tasks) /\ tasks \in Seq(Handles)
    BY DEF LifecycleInv, TypeOK
  <1>1. /\ c \in Command /\ c.stm = h /\ ~c.fenced /\ intake' = Append(intake, c) /\ mine[h] > 0
        /\ UNCHANGED <<chamber, executed, mixer, render, tasks, sent, reaper, fence>>
    BY DEF Method, Command, renderVars, reaperVars
  <1> HIDE DEF c
  <1>2. FenceInIntake' <=> FenceInIntake
    BY <1>0, <1>1 DEF FenceInIntake
  <1>3. FenceInChamber' <=> FenceInChamber
    BY <1>1 DEF FenceInChamber
  <1>4. \A g \in Items(tasks) : g # h
    BY <1>1, Living DEF Items
  <1>5. \A g \in Items(tasks) : NoneIn(intake, 1, g) => NoneIn(intake', 1, g)
    BY <1>0, <1>1, <1>4, AppendedCommand
  <1>6. \A g \in Items(tasks) : StopIn(intake, 1, g) => StopIn(intake', 1, g)
    BY <1>0, <1>1, <1>4, AppendedCommand
  <1>7. Items(tasks)' = Items(tasks)
    BY <1>1 DEF Items
  <1>8. \A i \in 1..sent : Silenced(tasks[i])'
    <2> SUFFICES ASSUME NEW i \in 1..sent PROVE Silenced(tasks[i])'
      BY <1>1
    <2>1. Silenced(tasks[i]) /\ tasks[i] \in Items(tasks)
      BY <1>0 DEF Fenced, Items
    <2> QED
      BY <1>1, <1>5, <1>6, <2>1 DEF Silenced
  <1>9. \A g \in Items(tasks) : Gone(g) => Gone(g)'
    BY <1>1, <1>5 DEF Gone, NoneIn
  <1> QED
    BY <1>0, <1>1, <1>2, <1>3, <1>5, <1>7, <1>8, <1>9 DEF Fenced

\* A batch of commands is taken from the intake: the chamber was empty.
LEMMA FencedService ==
  ASSUME LifecycleInv, ServiceIntake
  PROVE  Fenced'
  <1>0. /\ Fenced /\ intake \in Seq(Command) /\ chamber = <<>> /\ executed = 0 /\ render = "wait"
        /\ chamber' = intake /\ intake' = <<>> /\ executed' = 0 /\ render' = "execute"
        /\ UNCHANGED <<mixer, tasks, sent, reaper, fence>>
    BY DEF LifecycleInv, TypeOK, RenderShape, ServiceIntake, reaperVars
  <1>1. \A h : NoneIn(<<>>, 1, h) /\ ~StopIn(<<>>, 1, h)
    BY DEF NoneIn, StopIn
  <1>2. FenceInChamber' <=> FenceInIntake
    BY <1>0 DEF FenceInChamber, FenceInIntake
  <1>3. ~FenceInIntake'
    BY <1>0 DEF FenceInIntake
  <1>4. \A h : Silenced(h) => Silenced(h)'
    BY <1>0, <1>1 DEF Silenced
  <1>5. \A h : Gone(h) => Gone(h)'
    BY <1>0, <1>1 DEF Gone
  <1>6. \A i \in 1..sent' : Silenced(tasks[i])'
    BY <1>0, <1>4 DEF Fenced
  <1> QED
    BY <1>0, <1>1, <1>2, <1>3, <1>5, <1>6 DEF Fenced

LEMMA FencedExecute ==
  ASSUME LifecycleInv, ExecuteCommand
  PROVE  Fenced'
  <1> DEFINE c == chamber[executed + 1]
  <1>0. /\ Fenced /\ chamber \in Seq(Command) /\ executed \in Nat /\ executed < Len(chamber)
        /\ executed' = executed + 1 /\ c \in Command
        /\ mixer' = CASE c.op = "PLAY"       -> mixer \union {c.stm}
                      [] c.op = "STOP"       -> mixer \ {c.stm}
                      [] c.op = "SET_VOLUME" -> mixer
        /\ UNCHANGED <<intake, chamber, render, tasks, sent, reaper, fence>>
    BY DEF LifecycleInv, TypeOK, ExecuteCommand, reaperVars
  <1>1. \A h : NoneIn(chamber, executed + 1, h) => c.stm # h /\ NoneIn(chamber, executed + 2, h)
    BY <1>0 DEF NoneIn
  <1>2. \A h : c.stm # h => (h \in mixer' <=> h \in mixer)
    BY <1>0 DEF Command
  <1>3. ASSUME NEW h, StopIn(chamber, executed + 1, h)
        PROVE  \/ StopIn(chamber, executed + 2, h)
               \/ NoneIn(chamber, executed + 2, h) /\ h \notin mixer'
    <2>1. PICK k \in (executed + 1)..Len(chamber) :
            /\ chamber[k].op = "STOP" /\ chamber[k].stm = h
            /\ \A j \in (k + 1)..Len(chamber) : chamber[j].stm # h
      BY <1>3 DEF StopIn
    <2>2. CASE k = executed + 1
      <3>1. NoneIn(chamber, executed + 2, h)
        BY <1>0, <2>1, <2>2 DEF NoneIn
      <3>2. c.op = "STOP" /\ c.stm = h
        BY <2>1, <2>2
      <3> QED
        BY <1>0, <3>1, <3>2
    <2>3. CASE k # executed + 1
      BY <1>0, <2>1, <2>3 DEF StopIn
    <2> QED
      BY <2>2, <2>3
  <1>4. executed' + 1 = executed + 2
    BY <1>0
  <1> HIDE DEF c
  <1>5. \A h : Silenced(h) => Silenced(h)'
    BY <1>0, <1>1, <1>2, <1>3, <1>4 DEF Silenced
  <1>6. \A h : Gone(h) => Gone(h)'
    BY <1>0, <1>1, <1>2, <1>4 DEF Gone
  <1>7. (FenceInIntake' <=> FenceInIntake) /\ (FenceInChamber' <=> FenceInChamber)
    BY <1>0 DEF FenceInIntake, FenceInChamber
  <1>8. \A i \in 1..sent' : Silenced(tasks[i])'
    BY <1>0, <1>5 DEF Fenced
  <1> QED
    BY <1>0, <1>6, <1>7, <1>8 DEF Fenced

LEMMA FencedMix ==
  ASSUME LifecycleInv, Mix \/ ServiceExhaust \/ RenderExit
  PROVE  Fenced'
  <1>0. /\ Fenced /\ executed \in 0..Len(chamber) /\ chamber \in Seq(Command)
        /\ mixer' \subseteq mixer
        /\ UNCHANGED <<intake, tasks, sent, reaper, fence>>
    BY DEF LifecycleInv, TypeOK, Mix, ServiceExhaust, RenderExit, reaperVars
  <1>1. FenceInIntake' <=> FenceInIntake
    BY <1>0 DEF FenceInIntake
  <1>2. FenceInChamber' => FenceInChamber
    BY DEF FenceInChamber, Mix, ServiceExhaust, RenderExit
  <1>3. \A h : /\ NoneIn(chamber, executed + 1, h) => NoneIn(chamber', executed' + 1, h)
               /\ StopIn(chamber, executed + 1, h) => StopIn(chamber', executed' + 1, h)
    <2>1. CASE UNCHANGED <<chamber, executed>>
      BY <2>1
    <2>2. CASE ServiceExhaust
      <3>1. chamber' = <<>> /\ executed' = 0 /\ executed = Len(chamber)
        BY <2>2 DEF ServiceExhaust, LifecycleInv, RenderShape
      <3>2. \A h : ~StopIn(chamber, executed + 1, h)
        BY <1>0, <3>1 DEF StopIn
      <3>3. \A h : NoneIn(chamber', executed' + 1, h)
        BY <3>1 DEF NoneIn
      <3> QED
        BY <3>2, <3>3
    <2> QED
      BY <2>1, <2>2 DEF Mix, RenderExit
  <1>4. \A h : Silenced(h) => Silenced(h)'
    BY <1>0, <1>3 DEF Silenced
  <1>5. \A h : Gone(h) => Gone(h)'
    BY <1>0, <1>3 DEF Gone
  <1>6. \A i \in 1..sent' : Silenced(tasks[i])'
    BY <1>0, <1>4 DEF Fenced
  <1> QED
    BY <1>0, <1>1, <1>2, <1>5, <1>6 DEF Fenced

\* The fence goes up only when every command of its batch has been executed,
\* and none for the reaper's streams has come since.
LEMMA FencedCallbacks ==
  ASSUME LifecycleInv, RunCallbacks
  PROVE  Fenced'
  <1>0. /\ Fenced /\ ReaperShape /\ chamber \in Seq(Command) /\ executed = Len(chamber)
        /\ tasks \in Seq(Handles)
        /\ render = "callbacks" /\ render' = "return"
        /\ UNCHANGED <<intake, chamber, executed, mixer, tasks, sent, reaper>>
    BY DEF LifecycleInv, TypeOK, RenderShape, RunCallbacks, reaperVars
  <1>1. (fence' <=> fence \/ FenceInChamber) /\ fence' \in BOOLEAN /\ fence \in BOOLEAN
    BY <1>0 DEF RunCallbacks, FenceInChamber, Items, LifecycleInv, TypeOK
  <1>2. ~FenceInChamber' /\ (FenceInIntake' <=> FenceInIntake)
    BY <1>0 DEF FenceInChamber, FenceInIntake
  <1>3. \A h : NoneIn(chamber, executed + 1, h) /\ ~StopIn(chamber, executed + 1, h)
    BY <1>0 DEF NoneIn, StopIn
  <1>4. ASSUME FenceInChamber
        PROVE  \A h \in Items(tasks) : Gone(h)
    <2>1. \A h \in Items(tasks) : Silenced(h) /\ NoneIn(intake, 1, h)
      <3>1. reaper = "fence" /\ sent = Len(tasks)
        BY <1>0, <1>4 DEF Fenced, ReaperShape
      <3> QED
        BY <1>0, <1>4, <3>1 DEF Fenced, Items
    <2>2. \A h \in Items(tasks) : ~StopIn(intake, 1, h)
      BY <1>0, <2>1 DEF StopIn, NoneIn
    <2> QED
      BY <1>3, <2>1, <2>2 DEF Silenced, Gone
  <1>5. \A h : (Gone(h) => Gone(h)') /\ (Silenced(h) => Silenced(h)')
    BY <1>0 DEF Gone, Silenced
  <1>6. \A i \in 1..sent' : Silenced(tasks[i])'
    BY <1>0, <1>5 DEF Fenced
  <1>7. FenceInIntake => ~FenceInChamber
    BY <1>0 DEF Fenced
  <1>8. fence' \/ reaper' \in {"reset", "destroy"} => \A h \in Items(tasks)' : Gone(h)'
    <2>1. fence \/ FenceInChamber \/ reaper \in {"reset", "destroy"} =>
            \A h \in Items(tasks) : Gone(h)
      BY <1>0, <1>4 DEF Fenced
    <2> QED
      BY <1>0, <1>1, <1>5, <2>1
  <1>9. FenceInIntake' => reaper' = "fence" /\ ~fence'
    BY <1>0, <1>1, <1>2, <1>7 DEF Fenced
  <1>10. fence' => reaper' \in {"fence", "reset"}
    BY <1>0, <1>1 DEF Fenced
  <1> QED
    BY <1>2, <1>6, <1>8, <1>9, <1>10 DEF Fenced

LEMMA FencedTake ==
  ASSUME LifecycleInv, TakeStep
  PROVE  Fenced'
  <1>0. /\ Fenced /\ ReaperShape
    BY DEF LifecycleInv
  <1>1. /\ reaper \in {"check", "asleep", "woken"} /\ sent' = 0 /\ reaper' = "submit"
        /\ UNCHANGED <<intake, chamber, render, fence>>
    BY <1>0, BatchTaken
  <1>2. ~fence /\ ~FenceInIntake /\ ~FenceInChamber
    BY <1>0, <1>1, NoFence
  <1>3. ~fence' /\ ~FenceInIntake' /\ ~FenceInChamber'
    BY <1>1, <1>2 DEF FenceInIntake, FenceInChamber
  <1> QED
    BY <1>1, <1>3 DEF Fenced

LEMMA FencedSubmit ==
  ASSUME LifecycleInv, ReaperSubmitsStop
  PROVE  Fenced'
  <1> DEFINE c == [op |-> "STOP", stm |-> tasks[sent + 1], fenced |-> sent + 1 = Len(tasks)]
  <1>0. /\ Fenced /\ Buried /\ intake \in Seq(Command) /\ tasks \in Seq(Handles)
        /\ sent \in 0..Len(tasks) /\ sent < Len(tasks) /\ reaper = "submit"
        /\ intake' = Append(intake, c) /\ sent' = sent + 1
        /\ reaper' = (IF sent + 1 = Len(tasks) THEN "fence" ELSE "submit")
        /\ UNCHANGED <<chamber, executed, mixer, render, tasks, fence>>
    BY DEF LifecycleInv, TypeOK, ReaperSubmitsStop, renderVars
  <1>1. /\ c \in Command /\ c.stm = tasks[sent + 1] /\ c.op = "STOP"
        /\ c.fenced <=> sent + 1 = Len(tasks)
    <2>1. tasks[sent + 1] \in Handles /\ (sent + 1 = Len(tasks)) \in BOOLEAN
      BY <1>0
    <2> QED
      BY <2>1 DEF Command
  <1>2. ~fence /\ ~FenceInIntake /\ ~FenceInChamber
    BY <1>0, NoFence
  <1> HIDE DEF c
  <1>3. ~FenceInChamber'
    BY <1>0, <1>2 DEF FenceInChamber
  <1>4. FenceInIntake' => c.fenced
    BY <1>0, <1>1, <1>2 DEF FenceInIntake
  <1>5. \A i \in 1..sent' : Silenced(tasks[i])'
    <2> SUFFICES ASSUME NEW i \in 1..(sent + 1) PROVE Silenced(tasks[i])'
      BY <1>0
    <2>1. CASE i = sent + 1
      <3>1. StopIn(intake', 1, tasks[i])
        BY <1>0, <1>1, <2>1, AppendedCommand
      <3> QED
        BY <1>0, <3>1 DEF Silenced
    <2>2. CASE i # sent + 1
      <3>1. i \in 1..sent
        BY <1>0, <2>2
      <3>2. tasks[i] # c.stm
        BY <1>0, <1>1, <3>1 DEF Buried, Distinct
      <3>3. Silenced(tasks[i])
        BY <1>0, <3>1 DEF Fenced
      <3>4. /\ StopIn(intake, 1, tasks[i]) => StopIn(intake', 1, tasks[i])
            /\ NoneIn(intake, 1, tasks[i]) => NoneIn(intake', 1, tasks[i])
        BY <1>0, <1>1, <3>2, AppendedCommand
      <3> QED
        BY <1>0, <3>3, <3>4 DEF Silenced
    <2> QED
      BY <2>1, <2>2
  <1> QED
    BY <1>0, <1>1, <1>2, <1>3, <1>4, <1>5 DEF Fenced

LEMMA FencedWaits ==
  ASSUME LifecycleInv, ReaperWaitsFence \/ ReaperResetsFence
  PROVE  Fenced'
  <1>0. /\ Fenced
        /\ UNCHANGED <<intake, chamber, executed, mixer, render, tasks, sent>>
    BY DEF LifecycleInv, ReaperWaitsFence, ReaperResetsFence, renderVars
  <1>1. /\ FenceInIntake' <=> FenceInIntake
        /\ FenceInChamber' <=> FenceInChamber
        /\ \A h : (Gone(h)' <=> Gone(h)) /\ (Silenced(h)' <=> Silenced(h))
    BY <1>0 DEF FenceInIntake, FenceInChamber, Gone, Silenced
  <1>2. \A i \in 1..sent' : Silenced(tasks[i])'
    BY <1>0, <1>1 DEF Fenced
  <1>3. /\ ~FenceInIntake /\ ~FenceInChamber
        /\ \A h \in Items(tasks) : Gone(h)
    BY <1>0 DEF Fenced, ReaperWaitsFence, ReaperResetsFence
  <1>4. fence' => reaper' = "reset"
    BY DEF ReaperWaitsFence, ReaperResetsFence
  <1> QED
    BY <1>0, <1>1, <1>2, <1>3, <1>4 DEF Fenced

LEMMA FencedDestroys ==
  ASSUME LifecycleInv, ReaperDestroys
  PROVE  Fenced'
  <1>0. Fenced /\ TypeOK /\ ReaperShape /\ tasks \in Seq(Handles)
    BY DEF LifecycleInv, TypeOK
  <1>1. /\ reaper = "destroy" /\ tasks # <<>> /\ tasks' = Tail(tasks)
        /\ sent = Len(tasks) /\ sent' = sent - 1 /\ reaper' \in {"destroy", "none", "check"}
        /\ UNCHANGED <<intake, chamber, executed, mixer, render, fence>>
    BY <1>0, FirstDestroyed
  <1>2. ~fence' /\ ~FenceInIntake' /\ ~FenceInChamber'
    <2>1. ~fence /\ ~FenceInIntake /\ ~FenceInChamber
      BY <1>0, <1>1, NoFence
    <2> QED
      BY <1>1, <2>1 DEF FenceInIntake, FenceInChamber
  <1>3. Items(Tail(tasks)) \subseteq Items(tasks)
    BY <1>0, <1>1, ItemsTail
  <1>4. \A h : (Gone(h) => Gone(h)') /\ (Silenced(h) => Silenced(h)')
    BY <1>1 DEF Gone, Silenced
  <1>5. \A i \in 1..sent' : Silenced(tasks[i])'
    <2> SUFFICES ASSUME NEW i \in 1..(sent - 1) PROVE Silenced(tasks[i])'
      BY <1>1
    <2>1. Tail(tasks)[i] = tasks[i + 1] /\ i + 1 \in 1..sent
      BY <1>0, <1>1
    <2>2. Silenced(tasks[i + 1])
      BY <1>0, <2>1 DEF Fenced
    <2> QED
      BY <1>1, <2>1, <2>2 DEF Silenced
  <1>6. \A h \in Items(tasks)' : Gone(h)'
    BY <1>0, <1>1, <1>3, <1>4 DEF Fenced
  <1> QED
    BY <1>2, <1>5, <1>6 DEF Fenced

LEMMA FencedKept == LifecycleInv /\ [Next]_vars => Fenced'
  <1> SUFFICES ASSUME LifecycleInv, [Next]_vars PROVE Fenced'
    OBVIOUS
  <1>0. Fenced /\ ReaperShape /\ RenderShape
    BY DEF LifecycleInv
  <1>1. CASE ApiStep
    <2>1. CASE StartWasapi
      <3>1. chamber = <<>>
        BY <1>0, <2>1 DEF StartWasapi, RenderShape
      <3>2. ~FenceInChamber /\ ~FenceInChamber'
        BY <2>1, <3>1 DEF FenceInChamber, StartWasapi
      <3>3. UNCHANGED <<intake, chamber, executed, mixer, tasks, sent, reaper, fence>>
        BY <2>1 DEF StartWasapi, reaperVars
      <3> QED
        BY <1>0, <3>2, <3>3 DEF Fenced, FenceInIntake, Silenced, Gone, StopIn, NoneIn, Items
    <2>2. CASE StartReaper
      BY <1>0, <2>2, FencedAsleep DEF StartReaper, ReaperShape, renderVars
    <2>3. CASE StartWasapiFails \/ JoinReaper
      BY <1>0, <2>3, FencedAsleep, Frames DEF StartWasapiFails, JoinReaper, Wake, renderVars,
         reaperVars
    <2> QED
      BY <1>1, <2>1, <2>2, <2>3 DEF ApiStep
  <1>2. CASE \E h \in Handles : Call(h)
    BY <1>0, <1>2, FencedMethod, Frames DEF Call, CreateSoundBuffer, DuplicateSoundBuffer, AddRef,
       Release, renderVars, reaperVars
  <1>3. CASE (\E what : AllocFails(what)) \/ NotifySource
    BY <1>0, <1>3, Frames DEF AllocFails, NotifySource, renderVars, reaperVars
  <1>4. CASE SubmitTask
    BY <1>0, <1>4, FencedAsleep, Frames DEF SubmitTask, Wake, renderVars
  <1>5. CASE RenderStep \/ RenderExit
    BY <1>5, FencedService, FencedExecute, FencedMix, FencedCallbacks DEF RenderStep
  <1>6. CASE ReaperSleeps
    BY <1>0, <1>6, FencedAsleep DEF ReaperSleeps, renderVars
  <1>7. CASE ReaperHasNothing
    BY <1>0, <1>7, FencedAsleep DEF ReaperHasNothing, renderVars
  <1>8. CASE UNCHANGED vars
    BY <1>0, <1>8, Frames DEF vars, renderVars, reaperVars
  <1> QED
    BY <1>1, <1>2, <1>3, <1>4, <1>5, <1>6, <1>7, <1>8, ChecksOrSleeps, FencedTake, FencedSubmit,
       FencedWaits, FencedDestroys
    DEF Next, ReaperStep, TakeStep

-----------------------------------------------------------------------------
(* What is used is there. *)

LEMMA UsedKept == LifecycleInv /\ [Next]_vars => Used'
  <1> SUFFICES ASSUME LifecycleInv, [Next]_vars PROVE Used'
    OBVIOUS
  <1>0. /\ TypeOK /\ Used /\ Fenced /\ Buried /\ ReaperShape /\ RenderShape
        /\ intake \in Seq(Command) /\ chamber \in Seq(Command) /\ tasks \in Seq(Handles)
        /\ executed \in 0..Len(chamber) /\ sent \in 0..Len(tasks)
    BY DEF LifecycleInv, TypeOK
  <1>1. CASE stream \subseteq stream' /\ UNCHANGED <<intake, chamber, executed, mixer>>
    BY <1>0, <1>1 DEF Used
  <1>2. CASE ApiStep \/ (\E what : AllocFails(what)) \/ SubmitTask \/ NotifySource
    BY <1>1, <1>2 DEF ApiStep, StartReaper, StartWasapi, StartWasapiFails, JoinReaper, AllocFails,
       SubmitTask, NotifySource, renderVars
  <1>3. CASE \E h \in Handles :
               \/ CreateSoundBuffer(h) \/ AddRef(h) \/ Release(h)
               \/ \E s \in Handles : DuplicateSoundBuffer(h, s)
    BY <1>1, <1>3 DEF CreateSoundBuffer, DuplicateSoundBuffer, AddRef, Release, renderVars
  <1>4. ASSUME NEW h \in Handles, NEW op \in {"PLAY", "STOP", "SET_VOLUME"}, Method(op, h)
        PROVE  Used'
    <2>1. /\ mine[h] > 0 /\ intake' = Append(intake, [op |-> op, stm |-> h, fenced |-> FALSE])
          /\ UNCHANGED <<stream, chamber, executed, mixer>>
      BY <1>4 DEF Method, renderVars
    <2>2. h \in stream
      BY <2>1, Living
    <2> QED
      BY <1>0, <2>1, <2>2 DEF Used
  <1>5. CASE ServiceIntake
    BY <1>0, <1>5 DEF ServiceIntake, Used
  <1>6. CASE ExecuteCommand
    <2>1. chamber[executed + 1].stm \in stream /\ chamber[executed + 1] \in Command
      BY <1>0, <1>6 DEF ExecuteCommand, Used
    <2>2. mixer' \subseteq mixer \union {chamber[executed + 1].stm}
      BY <1>6, <2>1 DEF ExecuteCommand, Command
    <2>3. executed' = executed + 1 /\ UNCHANGED <<stream, intake, chamber>>
      BY <1>6 DEF ExecuteCommand
    <2> QED
      BY <1>0, <2>1, <2>2, <2>3 DEF Used
  <1>7. CASE Mix \/ RunCallbacks \/ ServiceExhaust \/ RenderExit
    BY <1>0, <1>7 DEF Mix, RunCallbacks, ServiceExhaust, RenderExit, Used
  <1>8. CASE TakeStep \/ ReaperSleeps \/ ReaperHasNothing \/ ReaperWaitsFence \/ ReaperResetsFence
    BY <1>0, <1>1, <1>8, BatchTaken DEF ReaperSleeps, ReaperHasNothing, ReaperWaitsFence,
       ReaperResetsFence, renderVars
  <1>9. CASE ReaperSubmitsStop
    <2>1. /\ sent < Len(tasks)
          /\ intake' = Append(intake, [op |-> "STOP", stm |-> tasks[sent + 1],
                                       fenced |-> sent + 1 = Len(tasks)])
          /\ UNCHANGED <<stream, chamber, executed, mixer>>
      BY <1>9 DEF ReaperSubmitsStop, renderVars
    <2>2. tasks[sent + 1] \in stream
      BY <1>0, <2>1 DEF Buried, Queued, Items
    <2> QED
      BY <1>0, <2>1, <2>2 DEF Used
  <1>10. CASE ReaperDestroys
    <2> DEFINE o == Head(tasks)
    <2>1. /\ reaper = "destroy" /\ tasks # <<>> /\ stream' = stream \ {o}
          /\ UNCHANGED <<intake, chamber, executed, mixer>>
      BY <1>0, <1>10, FirstDestroyed
    <2>2. Gone(o)
      BY <1>0, <2>1, ItemsTail DEF Fenced
    <2> HIDE DEF o
    <2> QED
      BY <1>0, <2>1, <2>2 DEF Used, Gone, NoneIn
  <1>11. CASE UNCHANGED vars
    BY <1>1, <1>11 DEF vars, renderVars
  <1> QED
    BY <1>2, <1>3, <1>4, <1>5, <1>6, <1>7, <1>8, <1>9, <1>10, <1>11, ChecksOrSleeps
    DEF Next, Call, RenderStep, ReaperStep, TakeStep

-----------------------------------------------------------------------------
(* The results. *)

LEMMA LifecycleInvKept == LifecycleInv /\ [Next]_vars => LifecycleInv'
  BY TypeKept, CountedKept, SharedKept, BuriedKept, BackedKept, RenderShapeKept, ReaperShapeKept,
     FencedKept, UsedKept
  DEF LifecycleInv

LEMMA LifecycleInvHolds == Spec => []LifecycleInv
  BY LifecycleInvInit, LifecycleInvKept, PTL DEF Spec

(* Every variable keeps its type; in particular no reference count falls   *)
(* below zero, however often duplicates are duplicated and released.       *)
THEOREM CountsStayNatural == Spec => []TypeOK
  <1>1. LifecycleInv => TypeOK
    BY DEF LifecycleInv
  <1> QED
    BY <1>1, LifecycleInvHolds, PTL

(* Nothing is used after it is freed: not by the mixer, not by a command   *)
(* still to be executed, not by a method of a buffer the game holds.       *)
THEOREM NothingIsUsedAfterFree == Spec => []NoUseAfterFree
  <1>1. LifecycleInv => NoUseAfterFree
    <2> SUFFICES ASSUME LifecycleInv PROVE NoUseAfterFree
      OBVIOUS
    <2>0. /\ Used /\ Fenced /\ Buried /\ Backed /\ mixer \subseteq Handles /\ stream \subseteq Handles
          /\ intake \in Seq(Command) /\ chamber \in Seq(Command) /\ executed \in 0..Len(chamber)
      BY DEF LifecycleInv, TypeOK
    <2>1. \A h \in mixer : h \in stream /\ samples[h] \in memory
      BY <2>0 DEF Used, Fenced, Gone, Backed
    <2>2. \A cmd \in Unexecuted : cmd.stm \in stream
      BY <2>0 DEF Unexecuted, Used, Items
    <2>3. \A h \in Handles : rc[h] > 0 => h \in stream /\ samples[h] \in memory
      <3> SUFFICES ASSUME NEW h \in Handles, rc[h] > 0
                   PROVE  h \in stream /\ samples[h] \in memory
        OBVIOUS
      <3>1. h \in stream /\ h \notin Queued
        BY <2>0 DEF Buried
      <3> QED
        BY <2>0, <3>1 DEF Backed, Queued
    <2> QED
      BY <2>1, <2>2, <2>3 DEF NoUseAfterFree
  <1> QED
    BY <1>1, LifecycleInvHolds, PTL

(* A dead buffer is handed to the reaper once, and only when nobody refers *)
(* to it any more.                                                         *)
THEOREM BuriedOnce == Spec => []TasksOnce
  <1>1. LifecycleInv => TasksOnce
    <2> SUFFICES ASSUME LifecycleInv PROVE TasksOnce
      OBVIOUS
    <2>0. Buried /\ pending \in Seq(Handles) /\ tasks \in Seq(Handles)
      BY DEF LifecycleInv, TypeOK
    <2>0a. Distinct(pending) /\ Distinct(tasks) /\ Items(pending) \intersect Items(tasks) = {}
      BY <2>0 DEF Buried
    <2> DEFINE all == pending \o tasks
               P == Len(pending)
    <2>1. /\ P \in Nat /\ Len(tasks) \in Nat /\ Len(all) = P + Len(tasks)
          /\ \A i \in 1..P : all[i] = pending[i]
          /\ \A i \in (P + 1)..Len(all) : all[i] = tasks[i - P] /\ i - P \in 1..Len(tasks)
      BY <2>0
    <2>2. \A i \in 1..P : all[i] \in Items(pending)
      BY <2>1 DEF Items
    <2>3. \A i \in (P + 1)..Len(all) : all[i] \in Items(tasks)
      BY <2>1 DEF Items
    <2> HIDE DEF all, P
    <2>4. \A i \in 1..Len(all) : i \in 1..P \/ i \in (P + 1)..Len(all)
      BY <2>1
    <2>5. \A i, j \in 1..Len(all) : all[i] = all[j] => i = j
      <3> SUFFICES ASSUME NEW i \in 1..Len(all), NEW j \in 1..Len(all), all[i] = all[j]
                   PROVE  i = j
        OBVIOUS
      <3>1. CASE i \in 1..P /\ j \in 1..P
        BY <2>0a, <2>1, <3>1 DEF Distinct, P
      <3>2. CASE i \in (P + 1)..Len(all) /\ j \in (P + 1)..Len(all)
        <4>1. tasks[i - P] = tasks[j - P]
          BY <2>1, <3>2
        <4>2. i - P = j - P
          BY <2>0, <2>1, <3>2, <4>1 DEF Buried, Distinct
        <4> QED
          BY <2>1, <4>2
      <3>3. CASE (i \in 1..P /\ j \in (P + 1)..Len(all)) \/ (j \in 1..P /\ i \in (P + 1)..Len(all))
        BY <2>0, <2>2, <2>3, <3>3 DEF Buried
      <3> QED
        BY <2>4, <3>1, <3>2, <3>3
    <2>6. \A i \in 1..Len(all) : rc[all[i]] = 0
      BY <2>0, <2>2, <2>3, <2>4 DEF Buried, Queued
    <2> QED
      BY <2>5, <2>6 DEF TasksOnce, all
  <1> QED
    BY <1>1, LifecycleInvHolds, PTL

(* The reaper's wait for the fence lasts until its last STOP command has   *)
(* been executed.                                                          *)
THEOREM FenceIsWaitedFor == Spec => []FenceIsFresh
  <1>1. LifecycleInv => FenceIsFresh
    <2> SUFFICES ASSUME LifecycleInv PROVE FenceIsFresh
      OBVIOUS
    <2>0. Fenced /\ chamber \in Seq(Command) /\ executed \in 0..Len(chamber)
      BY DEF LifecycleInv, TypeOK
    <2>1. fence => \A cmd \in Unexecuted : cmd.stm \notin Items(tasks)
      <3> SUFFICES ASSUME fence, NEW cmd \in Unexecuted, cmd.stm \in Items(tasks)
                   PROVE  FALSE
        OBVIOUS
      <3>1. Gone(cmd.stm)
        BY <2>0 DEF Fenced
      <3> QED
        BY <3>1 DEF Gone, NoneIn, Unexecuted, Items
    <2> QED
      BY <2>0, <2>1 DEF FenceIsFresh, Fenced
  <1> QED
    BY <1>1, LifecycleInvHolds, PTL
=============================================================================
