--------------------------- MODULE CommandChannel ---------------------------
(***************************************************************************)
(* What the sound command channel of Hypersonik (queue.c, snd-service.c)   *)
(* promises to the threads that use it.                                    *)
(*                                                                         *)
(* Commands are heap objects that travel round a loop: a client takes one  *)
(* (recycled if it can, from the allocator if it must), submits it to the  *)
(* service's intake; the render thread moves the whole intake into its     *)
(* chamber, executes it, and gives the chamber back through the exhaust,   *)
(* from which any client may refill its private pool.                      *)
(*                                                                         *)
(* Every queue is a sequence here, oldest command first, and every         *)
(* operation is one step.  LockFreeQueue implements this with linked       *)
(* stacks and compare-and-swap loops.                                      *)
(***************************************************************************)
EXTENDS Naturals, Sequences

CONSTANTS Commands,  \* the command objects the heap can supply
          Clients    \* snd_client objects

VARIABLES
  free,     \* commands that are not allocated
  open,     \* clients that exist
  held,     \* held[c]: commands client c has allocated and not submitted
  leaked,   \* commands whose client went away while it still held them
  pool,     \* pool[c]: cmd_pool, the client's private recycling queue
  intake,   \* cmds_intake
  chamber,  \* cmds_chamber, private to the render thread
  exhaust,  \* cmds_exhaust
  render    \* where the render thread is: between batches, in one, or gone

channelVars == <<free, open, held, leaked, pool, intake, chamber, exhaust, render>>

Items(q) == {q[i] : i \in 1..Len(q)}

Distinct(q) == \A i, j \in 1..Len(q) : q[i] = q[j] => i = j

ChannelTypeOK ==
  /\ free \subseteq Commands
  /\ open \subseteq Clients
  /\ held \in [Clients -> SUBSET Commands]
  /\ leaked \subseteq Commands
  /\ pool \in [Clients -> Seq(Commands)]
  /\ intake \in Seq(Commands)
  /\ chamber \in Seq(Commands)
  /\ exhaust \in Seq(Commands)
  /\ render \in {"idle", "batch", "gone"}

Init ==
  /\ free = Commands
  /\ open = {}
  /\ held = [c \in Clients |-> {}]
  /\ leaked = {}
  /\ pool = [c \in Clients |-> <<>>]
  /\ intake = <<>>
  /\ chamber = <<>>
  /\ exhaust = <<>>
  /\ render = "idle"

-----------------------------------------------------------------------------
(* Clients. *)

OpenClient(c) ==
  /\ c \notin open
  /\ open' = open \union {c}
  /\ UNCHANGED <<free, held, leaked, pool, intake, chamber, exhaust, render>>

\* The pool's commands go back to the heap.  A command the client still holds
\* (ds_buffer_play allocates one it does not submit when the sound is already
\* playing) is leaked: nothing points to it any more.
CloseClient(c) ==
  /\ c \in open
  /\ open' = open \ {c}
  /\ free' = free \union Items(pool[c])
  /\ pool' = [pool EXCEPT ![c] = <<>>]
  /\ held' = [held EXCEPT ![c] = {}]
  /\ leaked' = leaked \union held[c]
  /\ UNCHANGED <<intake, chamber, exhaust, render>>

\* First step of an allocation that finds the private pool empty.
SpillExhaust(c) ==
  /\ c \in open
  /\ pool[c] = <<>>
  /\ pool' = [pool EXCEPT ![c] = exhaust]
  /\ exhaust' = <<>>
  /\ UNCHANGED <<free, open, held, leaked, intake, chamber, render>>

AllocRecycled(c) ==
  /\ c \in open
  /\ pool[c] # <<>>
  /\ held' = [held EXCEPT ![c] = @ \union {Head(pool[c])}]
  /\ pool' = [pool EXCEPT ![c] = Tail(@)]
  /\ UNCHANGED <<free, open, leaked, intake, chamber, exhaust, render>>

AllocNew(c, cmd) ==
  /\ c \in open
  /\ pool[c] = <<>>
  /\ cmd \in free
  /\ free' = free \ {cmd}
  /\ held' = [held EXCEPT ![c] = @ \union {cmd}]
  /\ UNCHANGED <<open, leaked, pool, intake, chamber, exhaust, render>>

Submit(c, cmd) ==
  /\ c \in open
  /\ cmd \in held[c]
  /\ held' = [held EXCEPT ![c] = @ \ {cmd}]
  /\ intake' = Append(intake, cmd)
  /\ UNCHANGED <<free, open, leaked, pool, chamber, exhaust, render>>

-----------------------------------------------------------------------------
(* The render thread. *)

ServiceIntake ==
  /\ render = "idle"
  /\ render' = "batch"
  /\ chamber' = intake
  /\ intake' = <<>>
  /\ UNCHANGED <<free, open, held, leaked, pool, exhaust>>

ServiceExhaust ==
  /\ render = "batch"
  /\ render' = "idle"
  /\ exhaust' = exhaust \o chamber
  /\ chamber' = <<>>
  /\ UNCHANGED <<free, open, held, leaked, pool, intake>>

\* The audio device failed, or the thread was told to stop: both are noticed
\* only between batches.
RenderExit ==
  /\ render = "idle"
  /\ render' = "gone"
  /\ UNCHANGED <<free, open, held, leaked, pool, intake, chamber, exhaust>>

-----------------------------------------------------------------------------
ClientStep(c) ==
  \/ OpenClient(c)
  \/ CloseClient(c)
  \/ SpillExhaust(c)
  \/ AllocRecycled(c)
  \/ \E cmd \in Commands : AllocNew(c, cmd) \/ Submit(c, cmd)

Next ==
  \/ \E c \in Clients : ClientStep(c)
  \/ ServiceIntake
  \/ ServiceExhaust
  \/ RenderExit

Spec == Init /\ [][Next]_channelVars

-----------------------------------------------------------------------------
(* Every command is in exactly one place, and there exactly once: no       *)
(* client can be given a command that is still queued, being executed or   *)
(* in another client's hands, no queue can be entered twice                *)
(* (snd-service.c:103, "assert(!qitem_is_queued(&cmd->qi))"), and no       *)
(* command is dropped on its way round.                                    *)
Owned(c) == held[c] \union Items(pool[c])

Shared == Items(intake) \union Items(chamber) \union Items(exhaust)

QueuesDistinct ==
  /\ Distinct(intake) /\ Distinct(chamber) /\ Distinct(exhaust)
  /\ \A c \in Clients : Distinct(pool[c])

SharedPlacesDisjoint ==
  /\ Items(intake) \cap Items(chamber) = {}
  /\ Items(intake) \cap Items(exhaust) = {}
  /\ Items(chamber) \cap Items(exhaust) = {}
  /\ free \cap leaked = {}
  /\ (free \union leaked) \cap Shared = {}

ClientPlacesDisjoint ==
  \A c \in Clients :
    /\ held[c] \cap Items(pool[c]) = {}
    /\ Owned(c) \cap (free \union leaked \union Shared) = {}
    /\ \A d \in Clients : c # d => Owned(c) \cap Owned(d) = {}

NothingLost ==
  \A cmd \in Commands :
    cmd \in free \union leaked \union Shared \/ \E c \in Clients : cmd \in Owned(c)

OwnedOnce ==
  QueuesDistinct /\ SharedPlacesDisjoint /\ ClientPlacesDisjoint /\ NothingLost

\* The chamber is empty whenever the render thread is not inside a batch:
\* queue.c:115, "assert(qp->head == NULL)" when the next batch is moved in.
ChamberEmptyBetweenBatches == render # "batch" => chamber = <<>>

\* A submitted command is executed, unless the render thread has gone.
SubmittedIsExecuted ==
  \A cmd \in Commands :
    cmd \in Items(intake) ~> (cmd \in Items(exhaust) \/ render = "gone")
=============================================================================
