--------------------------- MODULE SoundLifecycle ---------------------------
(***************************************************************************)
(* Birth and death of a DirectSound buffer in Hypersonik: the game's       *)
(* reference counts (ds-api.c, ds-buffer.c), the render thread's mixer     *)
(* (wasapi.c, snd-service.c, snd-mixer.c) and the reaper that frees what   *)
(* the game has released (reaper.c).                                       *)
(*                                                                         *)
(* Three threads run here.  The game calls the DirectSound methods, one at *)
(* a time; its calls post commands to the render thread's intake, a FIFO   *)
(* (see CommandChannel).  The render thread executes each batch, mixes,    *)
(* runs the callbacks.  The reaper takes the streams of dead buffers,      *)
(* stops them through the same intake, waits on a fence, and frees them.   *)
(*                                                                         *)
(* A handle names one ds_buffer together with its snd_stream and its       *)
(* reaper task; sample memory is named by the handle that allocated it.    *)
(* A name is free for a new buffer once its stream has been freed.         *)
(***************************************************************************)
EXTENDS Naturals, Sequences, FiniteSets

CONSTANTS
  Handles,
  NULL,
  MaxRefs,     \* bound: references the game holds on one buffer
  MaxIntake,   \* bound: the game posts nothing while this many commands wait
  AllocCanFail \* whether the allocations of ds_buffer_alloc may fail

ASSUME LifecycleAssumption ==
  /\ IsFiniteSet(Handles) /\ NULL \notin Handles
  /\ MaxRefs \in Nat \ {0} /\ MaxIntake \in Nat \ {0}
  /\ AllocCanFail \in BOOLEAN

VARIABLES
  api,      \* the DirectSound object: "down", "starting", "up", "joining"
  rc,       \* rc[h]: the reference count; 0 when no ds_buffer exists
  mine,     \* mine[h]: how many of those references the game holds
  source,   \* source[h]: the buffer h duplicates and holds a reference on
  samples,  \* samples[h]: whose sample memory h plays
  stream,   \* handles whose snd_stream is allocated
  memory,   \* handles whose sample memory is allocated
  dying,    \* the ds_buffer whose last unref is running, or NULL
  handed,   \* whether that unref has submitted the reaper task
  handover, \* were the arguments of the last reaper_submit_task not NULL?
  intake,   \* cmds_intake
  chamber,  \* cmds_chamber
  executed, \* how many commands of the chamber have been executed
  mixer,    \* streams inserted in the mixer's list
  render,   \* the render thread
  pending,  \* reaper->tasks_pending
  tasks,    \* reaper->tasks
  sent,     \* how many STOP commands of this batch have been submitted
  reaper,   \* the reaper thread
  stopping, \* its copy of stop, made when it took the batch
  stop,     \* reaper->stop
  fence     \* reaper->fence, a manual-reset event

countVars == <<rc, mine, source, samples>>
releaseVars == <<dying, handed, handover>>
renderVars == <<chamber, executed, mixer, render>>
reaperVars == <<tasks, sent, reaper, stopping>>
vars == <<api, countVars, stream, memory, releaseVars, intake, renderVars,
          pending, reaperVars, stop, fence>>

Command == [op : {"PLAY", "STOP", "SET_VOLUME"}, stm : Handles, fenced : BOOLEAN]

Items(q) == {q[i] : i \in 1..Len(q)}

TypeOK ==
  /\ api \in {"down", "starting", "up", "joining"}
  /\ rc \in [Handles -> Nat] /\ mine \in [Handles -> 0..MaxRefs]
  /\ source \in [Handles -> Handles \union {NULL}]
  /\ samples \in [Handles -> Handles]
  /\ stream \subseteq Handles /\ memory \subseteq Handles /\ mixer \subseteq Handles
  /\ dying \in Handles \union {NULL} /\ handed \in BOOLEAN
  /\ handover \in [reaper : BOOLEAN, task : BOOLEAN]
  /\ intake \in Seq(Command) /\ chamber \in Seq(Command)
  /\ executed \in 0..Len(chamber) /\ sent \in 0..Len(tasks)
  /\ render \in {"wait", "execute", "callbacks", "return", "gone"}
  /\ pending \in Seq(Handles) /\ tasks \in Seq(Handles)
  /\ reaper \in {"none", "check", "asleep", "woken", "submit", "fence", "reset", "destroy"}
  /\ stop \in BOOLEAN /\ stopping \in BOOLEAN /\ fence \in BOOLEAN

Init ==
  /\ api = "down"
  /\ rc = [h \in Handles |-> 0] /\ mine = [h \in Handles |-> 0]
  /\ source = [h \in Handles |-> NULL] /\ samples = [h \in Handles |-> h]
  /\ stream = {} /\ memory = {} /\ mixer = {}
  /\ dying = NULL /\ handed = FALSE
  /\ handover = [reaper |-> TRUE, task |-> TRUE]
  /\ intake = <<>> /\ chamber = <<>> /\ executed = 0 /\ render = "gone"
  /\ pending = <<>> /\ tasks = <<>> /\ sent = 0 /\ reaper = "none"
  /\ stop = FALSE /\ stopping = FALSE /\ fence = FALSE

-----------------------------------------------------------------------------
(* The DirectSound object. *)

\* WakeConditionVariable reaches the reaper only if it is asleep.
Wake == reaper' = IF reaper = "asleep" THEN "woken" ELSE reaper

\* ds_api_start: the reaper first, then the WASAPI thread.
StartReaper ==
  /\ api = "down"
  /\ api' = "starting"
  /\ reaper' = "check" /\ stop' = FALSE
  /\ UNCHANGED <<countVars, stream, memory, releaseVars, intake, renderVars,
                 pending, tasks, sent, stopping, fence>>

StartWasapi ==
  /\ api = "starting"
  /\ api' = "up"
  /\ render' = "wait"
  /\ UNCHANGED <<countVars, stream, memory, releaseVars, intake, chamber, executed,
                 mixer, pending, reaperVars, stop, fence>>

\* Mutant: the stop flag is set without waking the reaper.
StartWasapiFailsSilently ==
  /\ api = "starting"
  /\ api' = "joining"
  /\ stop' = TRUE
  /\ UNCHANGED <<countVars, stream, memory, releaseVars, intake, renderVars,
                 pending, reaperVars, fence>>

\* The WASAPI thread does not start: reaper_free tells the reaper to stop ...
StartWasapiFails ==
  /\ api = "starting"
  /\ api' = "joining"
  /\ stop' = TRUE
  /\ Wake
  /\ UNCHANGED <<countVars, stream, memory, releaseVars, intake, renderVars,
                 pending, tasks, sent, stopping, fence>>

\* ... and waits for its thread to end.
JoinReaper ==
  /\ api = "joining" /\ reaper = "none"
  /\ api' = "down"
  /\ UNCHANGED <<countVars, stream, memory, releaseVars, intake, renderVars,
                 pending, reaperVars, stop, fence>>

-----------------------------------------------------------------------------
(* The game's thread. *)

\* It makes one call at a time: none starts while a release is under way.
GameCalls == api = "up" /\ dying = NULL

\* ds_buffer_alloc pre-allocates everything its death will need.
CreateSoundBuffer(h) ==
  /\ GameCalls /\ h \notin stream
  /\ rc' = [rc EXCEPT ![h] = 1]
  /\ mine' = [mine EXCEPT ![h] = 1]
  /\ source' = [source EXCEPT ![h] = NULL]
  /\ samples' = [samples EXCEPT ![h] = h]
  /\ stream' = stream \union {h}
  /\ memory' = memory \union {h}
  /\ UNCHANGED <<api, releaseVars, intake, renderVars, pending, reaperVars, stop, fence>>

\* Mutant: the duplicate holds no reference on its source.
DuplicateUncounted(h, s) ==
  /\ GameCalls /\ h \notin stream /\ mine[s] > 0
  /\ rc' = [rc EXCEPT ![h] = 1]
  /\ mine' = [mine EXCEPT ![h] = 1]
  /\ source' = [source EXCEPT ![h] = s]
  /\ samples' = [samples EXCEPT ![h] = samples[s]]
  /\ stream' = stream \union {h}
  /\ UNCHANGED <<api, memory, releaseVars, intake, renderVars, pending, reaperVars,
                 stop, fence>>

\* The duplicate plays the samples of s and holds a reference on s.
DuplicateSoundBuffer(h, s) ==
  /\ GameCalls /\ h \notin stream /\ mine[s] > 0
  /\ rc' = [rc EXCEPT ![h] = 1, ![s] = @ + 1]
  /\ mine' = [mine EXCEPT ![h] = 1]
  /\ source' = [source EXCEPT ![h] = s]
  /\ samples' = [samples EXCEPT ![h] = samples[s]]
  /\ stream' = stream \union {h}
  /\ UNCHANGED <<api, memory, releaseVars, intake, renderVars, pending, reaperVars,
                 stop, fence>>

\* The sample memory, the stream or the task cannot be allocated: "end:" drops
\* the only reference, and the unref hands the reaper what the buffer holds.
\* The reaper is stored just before the task is allocated.
AllocFails(what) ==
  /\ AllocCanFail /\ GameCalls
  /\ handover' = [reaper |-> what = "task", task |-> FALSE]
  /\ UNCHANGED <<api, countVars, stream, memory, dying, handed, intake, renderVars,
                 pending, reaperVars, stop, fence>>

AddRef(h) ==
  /\ GameCalls /\ mine[h] \in 1..(MaxRefs - 1)
  /\ rc' = [rc EXCEPT ![h] = @ + 1]
  /\ mine' = [mine EXCEPT ![h] = @ + 1]
  /\ UNCHANGED <<api, source, samples, stream, memory, releaseVars, intake, renderVars,
                 pending, reaperVars, stop, fence>>

\* Play, Stop, SetVolume and SetPan of a buffer the game holds.
Method(op, h) ==
  /\ GameCalls /\ mine[h] > 0
  /\ Len(intake) < MaxIntake
  /\ intake' = Append(intake, [op |-> op, stm |-> h, fenced |-> FALSE])
  /\ UNCHANGED <<api, countVars, stream, memory, releaseVars, renderVars,
                 pending, reaperVars, stop, fence>>

\* Mutant: the count is compared before the last reference is gone.
UnrefEarly(h) ==
  /\ rc' = [rc EXCEPT ![h] = @ - 1]
  /\ dying' = IF rc[h] <= 2 THEN h ELSE NULL
  /\ handed' = FALSE

\* refcount_dec: a count that reaches zero starts the destruction of h.
Unref(h) ==
  /\ rc' = [rc EXCEPT ![h] = @ - 1]
  /\ dying' = IF rc[h] = 1 THEN h ELSE NULL
  /\ handed' = FALSE

Release(h) ==
  /\ GameCalls /\ mine[h] > 0
  /\ Unref(h)
  /\ mine' = [mine EXCEPT ![h] = @ - 1]
  /\ UNCHANGED <<api, source, samples, stream, memory, handover, intake, renderVars,
                 pending, reaperVars, stop, fence>>

\* Mutant: the thread is woken only when the list was not empty.
SubmitTaskWakingLate ==
  /\ dying # NULL /\ ~handed
  /\ handed' = TRUE
  /\ handover' = [reaper |-> TRUE, task |-> TRUE]
  /\ pending' = Append(pending, dying)
  /\ IF pending # <<>> THEN Wake ELSE UNCHANGED reaper
  /\ UNCHANGED <<api, countVars, stream, memory, dying, intake, renderVars,
                 tasks, sent, stopping, stop, fence>>

\* reaper_submit_task, under the reaper's lock: the thread is woken only when
\* the list was empty.
SubmitTask ==
  /\ dying # NULL /\ ~handed
  /\ handed' = TRUE
  /\ handover' = [reaper |-> TRUE, task |-> TRUE]
  /\ pending' = Append(pending, dying)
  /\ IF pending = <<>> THEN Wake ELSE UNCHANGED reaper
  /\ UNCHANGED <<api, countVars, stream, memory, dying, intake, renderVars,
                 tasks, sent, stopping, stop, fence>>

\* dtor_notify: a duplicate gives back its reference on its source, whose own
\* destruction may follow in the same call.
NotifySource ==
  LET s == source[dying] IN
  /\ dying # NULL /\ handed
  /\ source' = [source EXCEPT ![dying] = NULL]
  /\ IF s = NULL THEN dying' = NULL /\ handed' = FALSE /\ UNCHANGED rc ELSE Unref(s)
  /\ UNCHANGED <<api, mine, samples, stream, memory, handover, intake, renderVars,
                 pending, reaperVars, stop, fence>>

-----------------------------------------------------------------------------
(* The render thread, once per buffer the audio device asks for. *)

ServiceIntake ==
  /\ render = "wait"
  /\ render' = "execute"
  /\ chamber' = intake /\ intake' = <<>> /\ executed' = 0
  /\ UNCHANGED <<api, countVars, stream, memory, releaseVars, mixer,
                 pending, reaperVars, stop, fence>>

ExecuteCommand ==
  LET cmd == chamber[executed + 1] IN
  /\ render = "execute" /\ executed < Len(chamber)
  /\ executed' = executed + 1
  /\ mixer' = CASE cmd.op = "PLAY"       -> mixer \union {cmd.stm}
                [] cmd.op = "STOP"       -> mixer \ {cmd.stm}
                [] cmd.op = "SET_VOLUME" -> mixer
  /\ UNCHANGED <<api, countVars, stream, memory, releaseVars, intake, chamber, render,
                 pending, reaperVars, stop, fence>>

\* Every inserted stream is rendered; those that have reached their end leave.
Mix ==
  /\ render = "execute" /\ executed = Len(chamber)
  /\ render' = "callbacks"
  /\ \E finished \in SUBSET mixer : mixer' = mixer \ finished
  /\ UNCHANGED <<api, countVars, stream, memory, releaseVars, intake, chamber, executed,
                 pending, reaperVars, stop, fence>>

\* The only callback there is signals the reaper's fence.
RunCallbacks ==
  /\ render = "callbacks"
  /\ render' = "return"
  /\ fence' = (fence \/ \E cmd \in Items(chamber) : cmd.fenced)
  /\ UNCHANGED <<api, countVars, stream, memory, releaseVars, intake, chamber, executed,
                 mixer, pending, reaperVars, stop>>

ServiceExhaust ==
  /\ render = "return"
  /\ render' = "wait"
  /\ chamber' = <<>> /\ executed' = 0
  /\ UNCHANGED <<api, countVars, stream, memory, releaseVars, intake, mixer,
                 pending, reaperVars, stop, fence>>

\* The device fails, in WaitForMultipleObjects, GetBuffer or ReleaseBuffer.
RenderExit ==
  /\ render = "wait"
  /\ render' = "gone"
  /\ UNCHANGED <<api, countVars, stream, memory, releaseVars, intake, chamber, executed,
                 mixer, pending, reaperVars, stop, fence>>

-----------------------------------------------------------------------------
(* The reaper's thread. *)

ReaperTakes ==
  /\ tasks' = pending /\ pending' = <<>> /\ sent' = 0
  /\ stopping' = stop
  /\ reaper' = "submit"

\* One look at the list, under the lock; SleepConditionVariableCS releases it.
ReaperChecks ==
  /\ reaper = "check"
  /\ IF ~stop /\ pending = <<>>
     THEN reaper' = "asleep" /\ UNCHANGED <<pending, tasks, sent, stopping>>
     ELSE ReaperTakes
  /\ UNCHANGED <<api, countVars, stream, memory, releaseVars, intake, renderVars,
                 stop, fence>>

\* A condition variable may also wake its sleeper for no reason: the list is
\* taken all the same, empty or not.
ReaperWakes ==
  /\ reaper \in {"asleep", "woken"}
  /\ ReaperTakes
  /\ UNCHANGED <<api, countVars, stream, memory, releaseVars, intake, renderVars,
                 stop, fence>>

\* Mutant: the first STOP carries the fence.
ReaperFencesFirst ==
  /\ reaper = "submit" /\ sent < Len(tasks)
  /\ intake' = Append(intake, [op |-> "STOP", stm |-> tasks[sent + 1],
                               fenced |-> sent = 0])
  /\ sent' = sent + 1
  /\ reaper' = IF sent + 1 = Len(tasks) THEN "fence" ELSE "submit"
  /\ UNCHANGED <<api, countVars, stream, memory, releaseVars, renderVars,
                 pending, tasks, stopping, stop, fence>>

\* reaper_thread_submit_commands: the last STOP carries the fence.
ReaperSubmitsStop ==
  /\ reaper = "submit" /\ sent < Len(tasks)
  /\ intake' = Append(intake, [op |-> "STOP", stm |-> tasks[sent + 1],
                               fenced |-> sent + 1 = Len(tasks)])
  /\ sent' = sent + 1
  /\ reaper' = IF sent + 1 = Len(tasks) THEN "fence" ELSE "submit"
  /\ UNCHANGED <<api, countVars, stream, memory, releaseVars, renderVars,
                 pending, tasks, stopping, stop, fence>>

\* A batch of none has nothing to wait for and nothing to destroy.
ReaperHasNothing ==
  /\ reaper = "submit" /\ tasks = <<>>
  /\ reaper' = IF stopping THEN "none" ELSE "check"
  /\ UNCHANGED <<api, countVars, stream, memory, releaseVars, intake, renderVars,
                 pending, tasks, sent, stopping, stop, fence>>

ReaperWaitsFence ==
  /\ reaper = "fence" /\ fence
  /\ reaper' = "reset"
  /\ UNCHANGED <<api, countVars, stream, memory, releaseVars, intake, renderVars,
                 pending, tasks, sent, stopping, stop, fence>>

\* Mutant: the fence is left up.
ReaperKeepsFence ==
  /\ reaper = "reset"
  /\ reaper' = "destroy"
  /\ UNCHANGED <<api, countVars, stream, memory, releaseVars, intake, renderVars,
                 pending, tasks, sent, stopping, stop, fence>>

ReaperResetsFence ==
  /\ reaper = "reset"
  /\ fence' = FALSE
  /\ reaper' = "destroy"
  /\ UNCHANGED <<api, countVars, stream, memory, releaseVars, intake, renderVars,
                 pending, tasks, sent, stopping, stop>>

\* reaper_thread_destroy_resources: the stream, and the samples if owned.
ReaperDestroys ==
  LET h == Head(tasks) IN
  /\ reaper = "destroy"
  /\ stream' = stream \ {h}
  /\ memory' = IF samples[h] = h THEN memory \ {h} ELSE memory
  /\ tasks' = Tail(tasks)
  /\ sent' = sent - 1
  /\ reaper' = IF Len(tasks) > 1 THEN "destroy" ELSE IF stopping THEN "none" ELSE "check"
  /\ UNCHANGED <<api, countVars, releaseVars, intake, renderVars, pending, stopping,
                 stop, fence>>

-----------------------------------------------------------------------------
ApiStep == StartReaper \/ StartWasapi \/ StartWasapiFails \/ JoinReaper

Call(h) ==
  \/ CreateSoundBuffer(h)
  \/ \E s \in Handles : DuplicateSoundBuffer(h, s)
  \/ AddRef(h)
  \/ \E op \in {"PLAY", "STOP", "SET_VOLUME"} : Method(op, h)
  \/ Release(h)

RenderStep ==
  ServiceIntake \/ ExecuteCommand \/ Mix \/ RunCallbacks \/ ServiceExhaust

ReaperStep ==
  \/ ReaperChecks \/ ReaperWakes \/ ReaperSubmitsStop \/ ReaperHasNothing
  \/ ReaperWaitsFence \/ ReaperResetsFence \/ ReaperDestroys

(* reaper_submit_task is never passed a NULL reaper or a NULL task          *)
(* (reaper.c:254-255, "assert(reaper != NULL); assert(task != NULL);").    *)
(* Passing one is fatal, with or without assertions: the program stops.    *)
HandoverIsComplete == handover.reaper /\ handover.task

Next ==
  /\ HandoverIsComplete
  /\ \/ ApiStep
     \/ \E h \in Handles : Call(h)
     \/ \E what \in {"samples", "stream", "task"} : AllocFails(what)
     \/ SubmitTask \/ NotifySource
     \/ RenderStep \/ RenderExit
     \/ ReaperStep

Spec == Init /\ [][Next]_vars

\* A release that has begun is carried through; the device keeps asking for
\* buffers while it works; the reaper runs whenever it is not asleep.  Nobody
\* owes it a spurious wake-up.
Fairness ==
  /\ WF_vars(SubmitTask \/ NotifySource \/ JoinReaper)
  /\ WF_vars(RenderStep)
  /\ WF_vars(ReaperStep /\ reaper # "asleep")

FairSpec == Spec /\ Fairness

-----------------------------------------------------------------------------
(* Nothing is used after it is freed: not by the mixer, which reads the    *)
(* samples of every inserted stream, not by a command still to be          *)
(* executed, not by a method of a buffer the game holds.                   *)
Unexecuted ==
  Items(intake) \union {chamber[i] : i \in (executed + 1)..Len(chamber)}

NoUseAfterFree ==
  /\ \A h \in mixer : h \in stream /\ samples[h] \in memory
  /\ \A cmd \in Unexecuted : cmd.stm \in stream
  /\ \A h \in Handles : rc[h] > 0 => h \in stream /\ samples[h] \in memory

(* A task is in the reaper's lists at most once, and only when the last    *)
(* reference is gone (reaper.c:256, "assert(!list_node_is_inserted(...))"). *)
TasksOnce ==
  LET all == pending \o tasks IN
  /\ \A i, j \in 1..Len(all) : all[i] = all[j] => i = j
  /\ \A i \in 1..Len(all) : rc[all[i]] = 0

(* The fence is never already up when the reaper starts to wait for it, so *)
(* the wait really lasts until its last STOP command has been executed.    *)
FenceIsFresh ==
  /\ fence => reaper \in {"fence", "reset"}
  /\ fence /\ reaper = "fence" => \A cmd \in Unexecuted : cmd.stm \notin Items(tasks)

(* A buffer nobody refers to any more is freed in the end, unless the      *)
(* render thread has gone: no wake-up of the reaper is lost.               *)
ReleasedIsFreed ==
  \A h \in Handles :
    (h \in stream /\ rc[h] = 0) ~> (h \notin stream \/ render = "gone")

(* reaper_free gets its thread back: the stop flag is never missed.        *)
ReaperJoins == api = "joining" ~> api = "down"
=============================================================================
