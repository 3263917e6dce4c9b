------------------------------ MODULE PortInput ------------------------------
(***************************************************************************)
(* How a press on the player's controller reaches the I/O ports the EZ2DJ  *)
(* or EZ2Dancer game reads (ez2dj_io_input.cpp, ez2dancer_io_input.cpp,    *)
(* with the report handler and callback of input_manager.cpp).             *)
(*                                                                         *)
(* Two threads run updatePortCache, one step here per access to memory the *)
(* other may touch: "poll", once a millisecond, and "pump", as a callback  *)
(* after every HID report.  Nothing orders them.  The game's thread reads  *)
(* the ports; EZ2DJ's read of the coin port consumes the pending coin.     *)
(*                                                                         *)
(* A port stands for one control bound to it (held or not): the bits of a  *)
(* port are computed alike and stored together. The turntables' ports are  *)
(* modelled in Turntable.                                                  *)
(***************************************************************************)
EXTENDS Naturals, SequencesExt

CONSTANTS
  HidDevices, \* HID devices
  Setups,     \* the devices a player may have connected, and the bindings
  MaxPresses  \* bound: presses of the coin button

DjPorts == {"system", "coin", "p1", "p2"}
DancerPorts == {"pads1", "pads2", "sensors"}
Inputs == DjPorts \union DancerPorts
Threads == {"poll", "pump"}

ASSUME PortInputAssumption ==
  /\ IsFiniteSet(HidDevices)
  /\ HidDevices \intersect (Inputs \union {"note", "mark", "keyboard"}) = {}
  /\ \A s \in Setups :
       /\ s.connected \subseteq HidDevices
       /\ DOMAIN s.source \subseteq DjPorts \/ DOMAIN s.source \subseteq DancerPorts
       /\ s.source \in [DOMAIN s.source -> HidDevices \union {"keyboard"}]
  /\ MaxPresses \in Nat

VARIABLES
  connected, \* the devices that are connected (no hot-plugging here)
  source,    \* source[c]: the device control c is bound to, or "keyboard"
  input,     \* input[c]: buttonStates of a device, or GetAsyncKeyState
  cache,     \* s_portCache
  wasHeld,   \* s_coinWasHeld, a plain bool both threads use
  pending,   \* s_coinPending
  callback,  \* inputCallback and its user data: "none", "fn" only, "ready"
  alive,     \* FALSE once a NULL BindingStore has been used
  todo,      \* todo[t]: what is left of the updatePortCache t is running
  snapshot,  \* snapshot[t]: deviceSnapshots, here by control
  coinHeld,  \* coinHeld[t]: the local of that name
  presses,   \* history: presses of the coin button
  rest,      \* history: the program has noted that the coin button is up
  due,       \* history: a press after such a rest has not set s_coinPending yet
  coins      \* history: coins the game has read

controlVars == <<input, presses>>
portVars == <<cache, wasHeld, pending>>
threadVars == <<todo, snapshot, coinHeld>>
setup == <<connected, source>>
portInputVars == <<setup, controlVars, portVars, callback, alive, threadVars, rest, due, coins>>

Controls == DOMAIN source
Ports == Controls \ {"coin"}

\* s_boundDevices: the devices the bindings name.
BoundDevices == SetToSeq({source[c] : c \in Controls} \ {"keyboard"})

\* updatePortCache: snapshot the bound devices one after another, then store
\* the ports.  "coin" is looked at, perhaps followed by "mark", then noted.
StoresOf(ports) == IF ports[1] \in Controls THEN ports ELSE <<>>

Script ==
  BoundDevices \o StoresOf(<<"system">>) \o StoresOf(<<"coin", "note">>)
               \o StoresOf(<<"p1">>) \o StoresOf(<<"p2">>)
               \o StoresOf(<<"pads1">>) \o StoresOf(<<"pads2">>) \o StoresOf(<<"sensors">>)

PortInputTypeOK ==
  /\ connected \subseteq HidDevices
  /\ Controls \subseteq Inputs
  /\ source \in [Controls -> HidDevices \union {"keyboard"}]
  /\ input \in [Controls -> BOOLEAN]
  /\ cache \in [Ports -> BOOLEAN]
  /\ wasHeld \in BOOLEAN /\ pending \in BOOLEAN
  /\ callback \in {"none", "fn", "ready"} /\ alive \in BOOLEAN
  /\ todo \in [Threads -> Seq(ToSet(Script) \union {"mark"})]
  /\ snapshot \in [Threads -> [Controls -> BOOLEAN]]
  /\ coinHeld \in [Threads -> BOOLEAN]
  /\ presses \in 0..MaxPresses /\ coins \in Nat
  /\ rest \in BOOLEAN /\ due \in BOOLEAN

NothingHeld == [c \in Controls |-> FALSE]

PortInputInit ==
  /\ \E s \in Setups : connected = s.connected /\ source = s.source
  /\ input = NothingHeld
  /\ cache = [p \in Ports |-> FALSE]
  /\ wasHeld = FALSE /\ pending = FALSE
  /\ callback = "none" /\ alive = TRUE
  /\ todo = [t \in Threads |-> <<>>]
  /\ snapshot = [t \in Threads |-> NothingHeld]
  /\ coinHeld = [t \in Threads |-> FALSE]
  /\ presses = 0 /\ coins = 0 /\ rest = TRUE /\ due = FALSE

-----------------------------------------------------------------------------
(* The controls. *)

\* The program can see that the controls have changed to new.
Sees(new) ==
  LET down == "coin" \in Controls /\ new["coin"]
      pressed == down /\ ~input["coin"]
  IN
  /\ input' = new
  /\ presses' = IF pressed THEN presses + 1 ELSE presses
  /\ presses' <= MaxPresses
  /\ rest' = (rest /\ ~pressed)
  /\ due' = (down /\ IF pressed THEN rest ELSE due)

KeyChanges(c) ==
  /\ source[c] = "keyboard"
  /\ Sees([input EXCEPT ![c] = ~@])
  /\ UNCHANGED <<setup, portVars, callback, alive, threadVars, coins>>

Begin(t) ==
  /\ todo' = [todo EXCEPT ![t] = Script]
  /\ snapshot' = [snapshot EXCEPT ![t] = NothingHeld]

\* handleWmInput: the report of device d is stored under the device's lock;
\* then, all locks released, the callback is called, with the user data there
\* is.  Any device reports, bound or not.
HidReport(d) ==
  /\ todo["pump"] = <<>>
  /\ \E new \in [Controls -> BOOLEAN] :
       /\ \A c \in Controls : source[c] # d => new[c] = input[c]
       /\ Sees(new)
  /\ IF callback = "ready" THEN Begin("pump") ELSE UNCHANGED <<todo, snapshot>>
  /\ alive' = (callback # "fn")
  /\ UNCHANGED <<setup, portVars, callback, coinHeld, coins>>

-----------------------------------------------------------------------------
(* The poll thread: initPortCache, then updatePortCache for ever. *)

\* setInputCallback stores the function first ...
SetCallback ==
  /\ callback = "none"
  /\ callback' = "fn"
  /\ UNCHANGED <<setup, controlVars, portVars, alive, threadVars, rest, due, coins>>

\* ... and what it is to be called with next.
SetCallbackData ==
  /\ callback = "fn"
  /\ callback' = "ready"
  /\ UNCHANGED <<setup, controlVars, portVars, alive, threadVars, rest, due, coins>>

PollWakes ==
  /\ callback = "ready" /\ todo["poll"] = <<>>
  /\ Begin("poll")
  /\ UNCHANGED <<setup, controlVars, portVars, callback, alive, coinHeld, rest, due, coins>>

-----------------------------------------------------------------------------
(* updatePortCache on thread t. *)

Doing(t, step) == todo[t] # <<>> /\ Head(todo[t]) = step

Done(t) == todo' = [todo EXCEPT ![t] = Tail(@)]

\* snapshotDevice, atomic under the device's lock.
SnapshotDevice(t, d) ==
  /\ Doing(t, d) /\ Done(t)
  /\ snapshot' = [snapshot EXCEPT ![t] =
                    [c \in Controls |-> IF source[c] = d THEN input[c] ELSE @[c]]]
  /\ UNCHANGED <<setup, controlVars, portVars, callback, alive, coinHeld, rest, due, coins>>

\* isHeldSnapshot: a key is asked of the system now, a button of the snapshot.
IsHeld(t, c) == IF source[c] = "keyboard" THEN input[c] ELSE snapshot[t][c]

\* Mutant: the bits are computed from the port's old value.
StorePortCumulative(t, p) ==
  /\ Doing(t, p) /\ Done(t)
  /\ cache' = [cache EXCEPT ![p] = @ \/ IsHeld(t, p)]
  /\ UNCHANGED <<setup, controlVars, wasHeld, pending, callback, alive, snapshot, coinHeld,
                 rest, due, coins>>

StorePort(t, p) ==
  /\ Doing(t, p) /\ Done(t)
  /\ cache' = [cache EXCEPT ![p] = IsHeld(t, p)]
  /\ UNCHANGED <<setup, controlVars, wasHeld, pending, callback, alive, snapshot, coinHeld,
                 rest, due, coins>>

\* Mutant: the level of the coin button is used, not its edge.
LookAtCoinLevel(t) ==
  /\ Doing(t, "coin")
  /\ coinHeld' = [coinHeld EXCEPT ![t] = IsHeld(t, "coin")]
  /\ todo' = [todo EXCEPT ![t] = IF IsHeld(t, "coin") THEN <<"mark">> \o Tail(@)
                                                      ELSE Tail(@)]
  /\ UNCHANGED <<setup, controlVars, portVars, callback, alive, snapshot, rest, due, coins>>

\* Is the button held, and was it not?
LookAtCoin(t) ==
  /\ Doing(t, "coin")
  /\ coinHeld' = [coinHeld EXCEPT ![t] = IsHeld(t, "coin")]
  /\ todo' = [todo EXCEPT ![t] = IF IsHeld(t, "coin") /\ ~wasHeld
                                 THEN <<"mark">> \o Tail(@)
                                 ELSE Tail(@)]
  /\ UNCHANGED <<setup, controlVars, portVars, callback, alive, snapshot, rest, due, coins>>

MarkCoin(t) ==
  /\ Doing(t, "mark") /\ Done(t)
  /\ pending' = TRUE
  /\ due' = FALSE
  /\ UNCHANGED <<setup, controlVars, rest, cache, wasHeld, callback, alive, snapshot, coinHeld, coins>>

\* Mutant: the release of the button is not noted.
NoteCoinPressed(t) ==
  /\ Doing(t, "note") /\ Done(t)
  /\ wasHeld' = (wasHeld \/ coinHeld[t])
  /\ rest' = ((rest \/ ~coinHeld[t]) /\ ~input["coin"])
  /\ UNCHANGED <<setup, controlVars, cache, pending, callback, alive, snapshot, coinHeld,
                 due, coins>>

NoteCoin(t) ==
  /\ Doing(t, "note") /\ Done(t)
  /\ wasHeld' = coinHeld[t]
  /\ rest' = ((rest \/ ~coinHeld[t]) /\ ~input["coin"])
  /\ UNCHANGED <<setup, controlVars, cache, pending, callback, alive, snapshot, coinHeld,
                 due, coins>>

UpdateStep(t) ==
  \/ \E d \in ToSet(BoundDevices) : SnapshotDevice(t, d)
  \/ \E p \in Ports : StorePort(t, p)
  \/ LookAtCoin(t) \/ MarkCoin(t) \/ NoteCoin(t)

-----------------------------------------------------------------------------
\* The game reads port 0x105 and a coin is pending: exchange(false).  Its other
\* reads change nothing.
ReadCoin ==
  /\ pending
  /\ pending' = FALSE
  /\ coins' = coins + 1
  /\ UNCHANGED <<setup, controlVars, cache, wasHeld, callback, alive, threadVars, rest, due>>

PollStep == SetCallback \/ SetCallbackData \/ PollWakes \/ UpdateStep("poll")

PortInputNext ==
  /\ alive
  /\ \/ \E c \in Controls : KeyChanges(c)
     \/ \E d \in connected : HidReport(d)
     \/ PollStep
     \/ UpdateStep("pump")
     \/ ReadCoin

PortInputSpec == PortInputInit /\ [][PortInputNext]_portInputVars

-----------------------------------------------------------------------------
(* ez2dj_io_input.cpp:120, "Coin is edge-triggered: set pending on press,  *)
(* consumed on first port read."  No press gives the game more than one    *)
(* coin.                                                                   *)
OneCoinPerPress == coins + (IF pending THEN 1 ELSE 0) <= presses

(* That holds while the poll thread runs alone, as it does when no HID     *)
(* device is there to report.                                              *)
PollsAlone == connected = {}

OneCoinPerPressAlone == PollsAlone => OneCoinPerPress

(* The poll thread alone also credits a press, if it had noted the button  *)
(* up before and the button stays down until it is looked at.              *)
PressIsCreditedAlone == (due /\ PollsAlone) ~> (~due \/ ~alive)

\* The ports, and what the program remembers of the coin button, are what the
\* controls are.
PortsAgree ==
  alive => \A c \in Controls : (IF c = "coin" THEN wasHeld ELSE cache[c]) = input[c]

=============================================================================
