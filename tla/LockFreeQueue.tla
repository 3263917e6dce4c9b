---------------------------- MODULE LockFreeQueue ----------------------------
(***************************************************************************)
(* queue.c and the callers in snd-service.c, one step per access to memory *)
(* that two threads share.                                                 *)
(*                                                                         *)
(* A shared queue is a linked stack with an atomic tail pointer; a private *)
(* queue is a linked list in submission order.  Links live in the command  *)
(* objects themselves: a command that is in no queue points to itself, and *)
(* the last one of a chain points to NULL.  Objects are recycled, so a     *)
(* tail pointer read by one thread may come back with another chain below  *)
(* it before that thread's compare-and-swap.                               *)
(*                                                                         *)
(* A client's allocations come from one thread and its submissions from    *)
(* one thread, not always the same: the reaper's commands are allocated by *)
(* the game's thread and submitted by the reaper's.                        *)
(***************************************************************************)
EXTENDS Naturals, FiniteSets, SequencesExt

CONSTANTS Commands, Clients, NULL

ASSUME QueueAssumption == IsFiniteSet(Commands) /\ NULL \notin Commands

VARIABLES
  free, open, held, leaked,   \* as in CommandChannel
  next,         \* next[i]: the link field of command i (struct qitem)
  tail,         \* the atomic tail of each queue_shared
  poolHead,     \* head of each client's queue_private
  chamberHead,  \* head of the service's queue_private
  allocPc, allocTail,         \* an allocation in progress on each client
  submitPc, submitTail, submitCmd, \* a submission in progress on each client
  renderPc, renderTail, revHead    \* the render thread

vars == <<free, open, held, leaked, next, tail, poolHead, chamberHead,
          allocPc, allocTail, submitPc, submitTail, submitCmd,
          renderPc, renderTail, revHead>>

clientVars == <<allocPc, allocTail, submitPc, submitTail, submitCmd>>
renderVars == <<chamberHead, renderPc, renderTail, revHead>>

Pointer == Commands \union {NULL}

Init ==
  /\ free = Commands /\ leaked = {} /\ open = {}
  /\ held = [c \in Clients |-> {}]
  /\ next = [i \in Commands |-> i]
  /\ tail = [q \in {"intake", "exhaust"} |-> NULL]
  /\ poolHead = [c \in Clients |-> NULL]
  /\ chamberHead = NULL
  /\ allocPc = [c \in Clients |-> "ready"]
  /\ submitPc = [c \in Clients |-> "ready"]
  /\ allocTail = [c \in Clients |-> NULL]
  /\ submitTail = [c \in Clients |-> NULL]
  /\ submitCmd = [c \in Clients |-> NULL]
  /\ renderPc = "wait" /\ renderTail = NULL /\ revHead = NULL

-----------------------------------------------------------------------------
(* Chains. *)

\* The commands met by following the links from h, up to and including stop:
\* met[n] is the n-th of them, NULL after the last.
ChainTo(links, h, stop) ==
  LET most == Cardinality(Commands)
      met[n \in 1..most] ==
        IF n = 1 THEN h
        ELSE LET last == met[n - 1]
             IN  IF last \in {stop, NULL} THEN NULL ELSE links[last]
  IN  [n \in 1..Cardinality({m \in 1..most : met[m] # NULL}) |-> met[n]]

Chain(h) == ChainTo(next, h, NULL)

\* qitem_chain_reverse on the chain that starts at h: its last command is the
\* new head.
ReversedHead(h) == IF h = NULL THEN NULL ELSE Last(Chain(h))

ReversedLinks(h) ==
  LET chain == Chain(h)
  IN  [i \in Commands |->
         IF \E k \in DOMAIN chain : chain[k] = i
         THEN LET k == CHOOSE k \in DOMAIN chain : chain[k] = i
              IN  IF k = 1 THEN NULL ELSE chain[k - 1]
         ELSE next[i]]

-----------------------------------------------------------------------------
(* Clients: snd_client_alloc, snd_client_free. *)

OpenClient(c) ==
  /\ c \notin open
  /\ open' = open \union {c}
  /\ UNCHANGED <<free, held, leaked, next, tail, poolHead, clientVars, renderVars>>

CloseClient(c) ==
  LET pooled == ToSet(Chain(poolHead[c])) IN
  /\ c \in open
  /\ allocPc[c] = "ready" /\ submitPc[c] = "ready"
  /\ open' = open \ {c}
  /\ free' = free \union pooled
  /\ next' = [i \in Commands |-> IF i \in pooled THEN i ELSE next[i]]
  /\ poolHead' = [poolHead EXCEPT ![c] = NULL]
  /\ leaked' = leaked \union held[c]
  /\ held' = [held EXCEPT ![c] = {}]
  /\ UNCHANGED <<tail, clientVars, renderVars>>

(* snd_client_cmd_alloc. *)

\* The private pool serves the allocation if it can; else the exhaust's tail
\* is read, to take the whole stack.
AllocBegin(c) ==
  /\ c \in open
  /\ allocPc[c] = "ready"
  /\ IF poolHead[c] # NULL
     THEN /\ allocPc' = [allocPc EXCEPT ![c] = "take"]
          /\ UNCHANGED allocTail
     ELSE /\ allocPc' = [allocPc EXCEPT ![c] = "spill"]
          /\ allocTail' = [allocTail EXCEPT ![c] = tail["exhaust"]]
  /\ UNCHANGED <<free, open, held, leaked, next, tail, poolHead,
                 submitPc, submitTail, submitCmd, renderVars>>

\* Mutant: the exhaust keeps what the client has taken.
AllocSpillCopies(c) ==
  /\ allocPc[c] = "spill"
  /\ IF tail["exhaust"] = allocTail[c]
     THEN allocPc' = [allocPc EXCEPT ![c] = "reverse"] /\ UNCHANGED allocTail
     ELSE allocTail' = [allocTail EXCEPT ![c] = tail["exhaust"]] /\ UNCHANGED allocPc
  /\ UNCHANGED <<free, open, held, leaked, next, tail, poolHead,
                 submitPc, submitTail, submitCmd, renderVars>>

\* The compare-and-swap of queue_private_move_from_shared; read again if lost.
AllocSpill(c) ==
  /\ allocPc[c] = "spill"
  /\ IF tail["exhaust"] = allocTail[c]
     THEN /\ tail' = [tail EXCEPT !["exhaust"] = NULL]
          /\ allocPc' = [allocPc EXCEPT ![c] = "reverse"]
          /\ UNCHANGED allocTail
     ELSE /\ allocTail' = [allocTail EXCEPT ![c] = tail["exhaust"]]
          /\ UNCHANGED <<tail, allocPc>>
  /\ UNCHANGED <<free, open, held, leaked, next, poolHead,
                 submitPc, submitTail, submitCmd, renderVars>>

AllocReverse(c) ==
  /\ allocPc[c] = "reverse"
  /\ next' = ReversedLinks(allocTail[c])
  /\ poolHead' = [poolHead EXCEPT ![c] = ReversedHead(allocTail[c])]
  /\ allocTail' = [allocTail EXCEPT ![c] = NULL]
  /\ allocPc' = [allocPc EXCEPT ![c] = "take"]
  /\ UNCHANGED <<free, open, held, leaked, tail,
                 submitPc, submitTail, submitCmd, renderVars>>

\* Mutant: the popped command's link is left in place.
AllocPopLinked(c) ==
  LET cmd == poolHead[c] IN
  /\ allocPc[c] = "take"
  /\ cmd # NULL
  /\ poolHead' = [poolHead EXCEPT ![c] = next[cmd]]
  /\ held' = [held EXCEPT ![c] = @ \union {cmd}]
  /\ allocPc' = [allocPc EXCEPT ![c] = "ready"]
  /\ UNCHANGED <<free, open, leaked, next, tail, allocTail,
                 submitPc, submitTail, submitCmd, renderVars>>

\* queue_private_pop, then snd_command_clear.
AllocPop(c) ==
  LET cmd == poolHead[c] IN
  /\ allocPc[c] = "take"
  /\ cmd # NULL
  /\ poolHead' = [poolHead EXCEPT ![c] = next[cmd]]
  /\ next' = [next EXCEPT ![cmd] = cmd]
  /\ held' = [held EXCEPT ![c] = @ \union {cmd}]
  /\ allocPc' = [allocPc EXCEPT ![c] = "ready"]
  /\ UNCHANGED <<free, open, leaked, tail, allocTail,
                 submitPc, submitTail, submitCmd, renderVars>>

\* Mutant: that no memory is left goes unnoticed.
AllocFromHeapUnchecked(c) ==
  /\ allocPc[c] = "take"
  /\ poolHead[c] = NULL
  /\ allocPc' = [allocPc EXCEPT ![c] = "ready"]
  /\ \/ \E cmd \in free :
          /\ free' = free \ {cmd}
          /\ next' = [next EXCEPT ![cmd] = cmd]
          /\ held' = [held EXCEPT ![c] = @ \union {cmd}]
     \/ held' = [held EXCEPT ![c] = @ \union {NULL}] /\ UNCHANGED <<free, next>>
  /\ UNCHANGED <<open, leaked, tail, poolHead, allocTail,
                 submitPc, submitTail, submitCmd, renderVars>>

\* snd_command_alloc: a new object, or -ENOMEM.
AllocFromHeap(c) ==
  /\ allocPc[c] = "take"
  /\ poolHead[c] = NULL
  /\ allocPc' = [allocPc EXCEPT ![c] = "ready"]
  /\ \/ \E cmd \in free :
          /\ free' = free \ {cmd}
          /\ next' = [next EXCEPT ![cmd] = cmd]
          /\ held' = [held EXCEPT ![c] = @ \union {cmd}]
     \/ UNCHANGED <<free, next, held>>
  /\ UNCHANGED <<open, leaked, tail, poolHead, allocTail,
                 submitPc, submitTail, submitCmd, renderVars>>

(* snd_client_cmd_submit: queue_shared_push. *)

SubmitBegin(c, cmd) ==
  /\ c \in open
  /\ submitPc[c] = "ready"
  /\ cmd \in held[c]
  /\ submitCmd' = [submitCmd EXCEPT ![c] = cmd]
  /\ submitTail' = [submitTail EXCEPT ![c] = tail["intake"]]
  /\ next' = [next EXCEPT ![cmd] = tail["intake"]]
  /\ submitPc' = [submitPc EXCEPT ![c] = "push"]
  /\ UNCHANGED <<free, open, held, leaked, tail, poolHead,
                 allocPc, allocTail, renderVars>>

\* Mutant: after a lost compare-and-swap the command is not linked again.
SubmitCasStaleLink(c) ==
  LET cmd == submitCmd[c] IN
  /\ submitPc[c] = "push"
  /\ IF tail["intake"] = submitTail[c]
     THEN /\ tail' = [tail EXCEPT !["intake"] = cmd]
          /\ held' = [held EXCEPT ![c] = @ \ {cmd}]
          /\ submitPc' = [submitPc EXCEPT ![c] = "ready"]
          /\ submitCmd' = [submitCmd EXCEPT ![c] = NULL]
          /\ submitTail' = [submitTail EXCEPT ![c] = NULL]
     ELSE /\ submitTail' = [submitTail EXCEPT ![c] = tail["intake"]]
          /\ UNCHANGED <<tail, held, submitPc, submitCmd>>
  /\ UNCHANGED <<free, open, leaked, next, poolHead, allocPc, allocTail, renderVars>>

SubmitCas(c) ==
  LET cmd == submitCmd[c] IN
  /\ submitPc[c] = "push"
  /\ IF tail["intake"] = submitTail[c]
     THEN /\ tail' = [tail EXCEPT !["intake"] = cmd]
          /\ held' = [held EXCEPT ![c] = @ \ {cmd}]
          /\ submitPc' = [submitPc EXCEPT ![c] = "ready"]
          /\ submitCmd' = [submitCmd EXCEPT ![c] = NULL]
          /\ submitTail' = [submitTail EXCEPT ![c] = NULL]
          /\ UNCHANGED next
     ELSE /\ submitTail' = [submitTail EXCEPT ![c] = tail["intake"]]
          /\ next' = [next EXCEPT ![cmd] = tail["intake"]]
          /\ UNCHANGED <<tail, held, submitPc, submitCmd>>
  /\ UNCHANGED <<free, open, leaked, poolHead, allocPc, allocTail, renderVars>>

-----------------------------------------------------------------------------
(* The render thread: snd_service_intake and snd_service_exhaust. *)

IntakeBegin ==
  /\ renderPc = "wait"
  /\ renderTail' = tail["intake"]
  /\ renderPc' = "intake"
  /\ UNCHANGED <<free, open, held, leaked, next, tail, poolHead,
                 clientVars, chamberHead, revHead>>

\* Mutant: the tail is not read again after a lost compare-and-swap.
IntakeCasStale ==
  /\ renderPc = "intake"
  /\ IF tail["intake"] = renderTail
     THEN /\ tail' = [tail EXCEPT !["intake"] = NULL]
          /\ renderPc' = "reverse"
     ELSE UNCHANGED <<tail, renderPc>>
  /\ UNCHANGED <<free, open, held, leaked, next, poolHead,
                 clientVars, chamberHead, renderTail, revHead>>

IntakeCas ==
  /\ renderPc = "intake"
  /\ IF tail["intake"] = renderTail
     THEN /\ tail' = [tail EXCEPT !["intake"] = NULL]
          /\ renderPc' = "reverse"
          /\ UNCHANGED renderTail
     ELSE /\ renderTail' = tail["intake"]
          /\ UNCHANGED <<tail, renderPc>>
  /\ UNCHANGED <<free, open, held, leaked, next, poolHead,
                 clientVars, chamberHead, revHead>>

\* Mutant: the batch is left in the stack's order.
IntakeUnreversed ==
  /\ renderPc = "reverse"
  /\ chamberHead' = renderTail
  /\ renderTail' = NULL
  /\ renderPc' = "batch"
  /\ UNCHANGED <<free, open, held, leaked, next, tail, poolHead, clientVars, revHead>>

IntakeReverse ==
  /\ renderPc = "reverse"
  /\ next' = ReversedLinks(renderTail)
  /\ chamberHead' = ReversedHead(renderTail)
  /\ renderTail' = NULL
  /\ renderPc' = "batch"
  /\ UNCHANGED <<free, open, held, leaked, tail, poolHead, clientVars, revHead>>

\* The batch is executed and mixed here.  queue_shared_move_from_private
\* returns at once when the chamber is empty.
ExhaustBegin ==
  /\ renderPc = "batch"
  /\ IF chamberHead = NULL
     THEN /\ renderPc' = "wait"
          /\ UNCHANGED <<next, renderTail, revHead>>
     ELSE /\ revHead' = ReversedHead(chamberHead)
          /\ renderTail' = tail["exhaust"]
          /\ next' = [ReversedLinks(chamberHead) EXCEPT ![chamberHead] = tail["exhaust"]]
          /\ renderPc' = "exhaust"
  /\ UNCHANGED <<free, open, held, leaked, tail, poolHead, clientVars, chamberHead>>

\* Mutant: the chamber keeps what it has handed over.
ExhaustCasKeeping ==
  /\ renderPc = "exhaust"
  /\ IF tail["exhaust"] = renderTail
     THEN /\ tail' = [tail EXCEPT !["exhaust"] = revHead]
          /\ revHead' = NULL
          /\ renderTail' = NULL
          /\ renderPc' = "wait"
          /\ UNCHANGED next
     ELSE /\ renderTail' = tail["exhaust"]
          /\ next' = [next EXCEPT ![chamberHead] = tail["exhaust"]]
          /\ UNCHANGED <<tail, revHead, renderPc>>
  /\ UNCHANGED <<free, open, held, leaked, poolHead, clientVars, chamberHead>>

ExhaustCas ==
  /\ renderPc = "exhaust"
  /\ IF tail["exhaust"] = renderTail
     THEN /\ tail' = [tail EXCEPT !["exhaust"] = revHead]
          /\ chamberHead' = NULL
          /\ revHead' = NULL
          /\ renderTail' = NULL
          /\ renderPc' = "wait"
          /\ UNCHANGED next
     ELSE /\ renderTail' = tail["exhaust"]
          /\ next' = [next EXCEPT ![chamberHead] = tail["exhaust"]]
          /\ UNCHANGED <<tail, chamberHead, revHead, renderPc>>
  /\ UNCHANGED <<free, open, held, leaked, poolHead, clientVars>>

\* Stop event or device failure: noticed only between batches.
RenderExit ==
  /\ renderPc = "wait"
  /\ renderPc' = "gone"
  /\ UNCHANGED <<free, open, held, leaked, next, tail, poolHead,
                 clientVars, chamberHead, renderTail, revHead>>

-----------------------------------------------------------------------------
ClientStep(c) ==
  \/ OpenClient(c) \/ CloseClient(c)
  \/ AllocBegin(c) \/ AllocSpill(c) \/ AllocReverse(c)
  \/ AllocPop(c) \/ AllocFromHeap(c)
  \/ \E cmd \in Commands : SubmitBegin(c, cmd)
  \/ SubmitCas(c)

RenderStep ==
  IntakeBegin \/ IntakeCas \/ IntakeReverse \/ ExhaustBegin \/ ExhaustCas

Next == (\E c \in Clients : ClientStep(c)) \/ RenderStep \/ RenderExit

Spec == Init /\ [][Next]_vars

\* Only the render thread has to run: it is woken by the audio device.
FairSpec == Spec /\ WF_vars(RenderStep)

-----------------------------------------------------------------------------
(* The queues these links stand for. *)

Pool == [c \in Clients |-> IF allocPc[c] = "reverse" THEN Reverse(Chain(allocTail[c]))
                                                    ELSE Chain(poolHead[c])]

Intake == Reverse(Chain(tail["intake"]))
Exhaust == Reverse(Chain(tail["exhaust"]))

Chamber ==
  CASE renderPc = "reverse" -> Reverse(Chain(renderTail))
    [] renderPc = "exhaust" -> Reverse(ChainTo(next, revHead, chamberHead))
    [] OTHER                -> Chain(chamberHead)

Render ==
  CASE renderPc \in {"wait", "intake"} -> "idle"
    [] renderPc = "gone"               -> "gone"
    [] OTHER                           -> "batch"

Channel == INSTANCE CommandChannel WITH
  pool <- Pool, intake <- Intake, chamber <- Chamber, exhaust <- Exhaust, render <- Render

TypeOK ==
  /\ next \in [Commands -> Pointer]
  /\ tail \in [{"intake", "exhaust"} -> Pointer]
  /\ poolHead \in [Clients -> Pointer] /\ chamberHead \in Pointer
  /\ allocPc \in [Clients -> {"ready", "take", "spill", "reverse"}]
  /\ allocTail \in [Clients -> Pointer]
  /\ submitPc \in [Clients -> {"ready", "push"}]
  /\ submitTail \in [Clients -> Pointer] /\ submitCmd \in [Clients -> Pointer]
  /\ renderPc \in {"wait", "intake", "reverse", "batch", "exhaust", "gone"}
  /\ renderTail \in Pointer /\ revHead \in Pointer

\* The variables keep their types, as do the queues they stand for.
QueueTypeOK == TypeOK /\ Channel!ChannelTypeOK

(* Every command is in one place, once, through every interleaving: no     *)
(* client is given one that is queued, executed or in another's hands, no  *)
(* queue is entered twice, and none is dropped on its way round by the     *)
(* queues (queue.c; snd-service.c:103). What a client has allocated it may *)
(* keep: ds_buffer_play does, when the buffer plays already.               *)
OwnedOnce == Channel!OwnedOnce

\* The render thread takes a batch into an empty chamber (asserted in
\* queue.c:115), however its exchanges with clients go.
ChamberEmptyBetweenBatches == Channel!ChamberEmptyBetweenBatches

\* The linked stacks behave as first-in, first-out queues that lose, repeat
\* and reorder nothing, whatever the interleaving of the loops.
ImplementsChannel == Channel!Spec

\* qitem_is_queued answers FALSE for every command a client has in its hands
\* and is not pushing (asserted by snd_command_clear and qitem_fini).
HeldAreUnqueued ==
  \A c \in Clients : \A cmd \in held[c] :
    next[cmd] = cmd \/ (submitPc[c] = "push" /\ submitCmd[c] = cmd)

\* The compare-and-swap loops do not starve the render thread: what has been
\* submitted is executed, unless the thread has gone.
SubmittedIsExecuted == Channel!SubmittedIsExecuted
=============================================================================
