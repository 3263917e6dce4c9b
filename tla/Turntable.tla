------------------------------ MODULE Turntable ------------------------------
(***************************************************************************)
(* One turntable of the EZ2DJ game, from the player's hand to the port the *)
(* game reads: a mouse, an axis of a HID device or two keys (the virtual   *)
(* turntable), added up (bindings.cpp, input_manager.cpp,                  *)
(* ez2dj_io_input.cpp).                                                    *)
(*                                                                         *)
(* The mouse and the keys move positions kept in eighths of a step, as     *)
(* plain 32-bit integers that run past 0 and 2047 and are cut to eight     *)
(* bits when they are read.  As in PortInput, two threads compute the port   *)
(* and store it, in any order; here each reads the two positions one after *)
(* the other, in the order the compiler chose.                             *)
(***************************************************************************)
EXTENDS Integers, Sequences

CONSTANTS
  Wirings,      \* the bindings a player may have: [kind, reverse, sensitivity, step]
  MouseCounts,  \* what a mouse reports: counts on the bound axis
  AxisValues,   \* what the device reports of the bound axis
  AxisRange,    \* <<LogicalMin, LogicalMax>> as the device declares them
  MaxReports,   \* bound: reports of the mouse
  MaxSteps      \* bound: how far the keys turn the table either way

TT_CENTER == 128
TT_INTERNAL_MULTIPLIER == 8
Centre == TT_CENTER * TT_INTERNAL_MULTIPLIER

ASSUME TurntableAssumption ==
  /\ Wirings \subseteq [kind : {"unset", "mouse", "axis"}, reverse : BOOLEAN,
                        sensitivity : 1..20, step : 1..20]
  /\ MouseCounts \subseteq Int
  /\ AxisValues \subseteq Int /\ AxisRange \in Int \X Int
  /\ MaxReports \in Nat /\ MaxSteps \in Nat

VARIABLES
  wiring,      \* AnalogBinding
  mousePos, vttPos,
  axisSeen,    \* valueStates of the bound axis: <<numerator, denominator>>
  axisRange,   \* LogicalMin and LogicalMax, widened by what was reported
  keys,        \* the virtual turntable's keys that are held
  vttAt,       \* vttThreadFunc: the key it looks at next
  ttPort,      \* s_portCache[DJ_P1_TT]
  reading,     \* reading[t]: what updatePortCache on thread t has yet to do
  found,       \* found[t]: what it has read
  turned,      \* history: how far mouse and keys were turned, in fifths
  reports      \* history: reports of the mouse

positionVars == <<mousePos, vttPos, axisSeen, axisRange>>
updateVars == <<ttPort, reading, found>>
ttVars == <<wiring, positionVars, keys, vttAt, updateVars, turned, reports>>

TTThreads == {"poll", "pump"}
Keys == {"plus", "minus"}
NothingFound == [base |-> 0, vtt |-> 0]

TurntableTypeOK ==
  /\ wiring \in Wirings
  /\ mousePos \in Int /\ vttPos \in Int /\ axisRange \in Int \X Int
  /\ axisSeen \in Int \X Int /\ axisSeen[1] \in 0..axisSeen[2]
  /\ keys \subseteq Keys /\ vttAt \in Keys
  /\ ttPort \in 0..255
  /\ reading \in [TTThreads -> SUBSET {"base", "vtt", "store"}]
  /\ found \in [TTThreads -> [base : 0..256, vtt : 0..255]]
  /\ turned \in Int /\ reports \in 0..MaxReports

TurntableInit ==
  /\ wiring \in Wirings
  /\ mousePos = Centre /\ vttPos = Centre
  /\ axisSeen = <<1, 2>> /\ axisRange = AxisRange
  /\ keys = {} /\ vttAt = "plus"
  /\ ttPort = TT_CENTER
  /\ reading = [t \in TTThreads |-> {}]
  /\ found = [t \in TTThreads |-> NothingFound]
  /\ turned = 0 /\ reports = 0

-----------------------------------------------------------------------------
(* Arithmetic of C *)

Quotient(a, b) == IF a >= 0 THEN a \div b ELSE -((-a) \div b)

\* getMousePosition, getVttPosition.
Position(p) == Quotient(p, TT_INTERNAL_MULTIPLIER) % 256

-----------------------------------------------------------------------------
(* The player *)

KeyMoves(k) ==
  /\ keys' = IF k \in keys THEN keys \ {k} ELSE keys \union {k}
  /\ UNCHANGED <<wiring, positionVars, vttAt, updateVars, turned, reports>>

-----------------------------------------------------------------------------
(* vttThreadFunc: every 5 ms it looks at one key, then at the other. *)

VttKey(k) ==
  LET by == IF k = "plus" THEN wiring.step ELSE -wiring.step IN
  /\ vttAt = k
  /\ vttAt' = CHOOSE other \in Keys : other # k
  /\ IF k \in keys
     THEN /\ vttPos + by - Centre \in -(MaxSteps * wiring.step)..(MaxSteps * wiring.step)
          /\ vttPos' = vttPos + by
          /\ turned' = turned + 5 * by
     ELSE UNCHANGED <<vttPos, turned>>
  /\ UNCHANGED <<wiring, mousePos, axisSeen, axisRange, keys, updateVars, reports>>

VttThread == \E k \in Keys : VttKey(k)

-----------------------------------------------------------------------------
(* updatePortCache *)

Begins(t) == reading' = [reading EXCEPT ![t] = {"base", "vtt", "store"}]

TTPollWakes ==
  /\ reading["poll"] = {}
  /\ Begins("poll")
  /\ UNCHANGED <<wiring, positionVars, keys, vttAt, ttPort, found, turned, reports>>

Reads(t, what, value) ==
  /\ what \in reading[t]
  /\ reading' = [reading EXCEPT ![t] = @ \ {what}]
  /\ found' = [found EXCEPT ![t] = [@ EXCEPT ![what] = value]]
  /\ UNCHANGED <<wiring, positionVars, keys, vttAt, ttPort, turned, reports>>

\* A float between 0 and 1, cut to eight bits.
AxisPosition(axis) == (axis[1] * 255) \div axis[2]

\* getPositionSnapshot, up to the virtual turntable.
Base ==
  CASE wiring.kind = "unset" -> Position(mousePos)
    [] wiring.kind = "mouse" -> IF wiring.reverse THEN 256 - Position(mousePos)
                                                  ELSE Position(mousePos)
    [] wiring.kind = "axis"  ->
         AxisPosition(IF wiring.reverse THEN <<axisSeen[2] - axisSeen[1], axisSeen[2]>>
                                        ELSE axisSeen)

ReadsBase(t) == Reads(t, "base", Base)

\* The snapshot of an axis is taken before either position is read.
ReadsVtt(t) ==
  /\ wiring.kind = "axis" => "base" \notin reading[t]
  /\ Reads(t, "vtt", Position(vttPos))

\* Mutant: the virtual turntable counts only where nothing is bound.
StoresBaseAlone(t) ==
  /\ reading[t] = {"store"}
  /\ ttPort' = (found[t].base
                 + (IF wiring.kind = "unset" THEN found[t].vtt - TT_CENTER ELSE 0)) % 256
  /\ reading' = [reading EXCEPT ![t] = {}]
  /\ found' = [found EXCEPT ![t] = NothingFound]
  /\ UNCHANGED <<wiring, positionVars, keys, vttAt, turned, reports>>

Stores(t) ==
  /\ reading[t] = {"store"}
  /\ ttPort' = (found[t].base + found[t].vtt - TT_CENTER) % 256
  /\ reading' = [reading EXCEPT ![t] = {}]
  /\ found' = [found EXCEPT ![t] = NothingFound]
  /\ UNCHANGED <<wiring, positionVars, keys, vttAt, turned, reports>>

TTUpdate(t) == ReadsBase(t) \/ ReadsVtt(t) \/ Stores(t)

-----------------------------------------------------------------------------
(* The pump thread: handleWmInput, then updatePortCache as its callback. *)

\* A report that moves nothing calls nobody.
MouseReport(counts) ==
  LET scaled == Quotient(counts * wiring.sensitivity, 5) IN
  /\ reports < MaxReports /\ reading["pump"] = {}
  /\ wiring.kind = "mouse"
  /\ mousePos' = mousePos + scaled
  /\ turned' = turned + (IF wiring.reverse THEN -counts ELSE counts) * wiring.sensitivity
  /\ reports' = reports + 1
  /\ IF scaled # 0 THEN Begins("pump") ELSE UNCHANGED reading
  /\ UNCHANGED <<wiring, vttPos, axisSeen, axisRange, keys, vttAt, ttPort, found>>

\* The range grows with what is reported, so the value never leaves 0..1.
AxisReport(raw) ==
  LET lo == IF raw < axisRange[1] THEN raw ELSE axisRange[1]
      hi == IF raw > axisRange[2] THEN raw ELSE axisRange[2]
  IN  /\ reading["pump"] = {}
      /\ wiring.kind = "axis"
      /\ axisRange' = <<lo, hi>>
      /\ axisSeen' = IF hi > lo THEN <<raw - lo, hi - lo>> ELSE <<1, 2>>
      /\ Begins("pump")
      /\ UNCHANGED <<wiring, mousePos, vttPos, keys, vttAt, ttPort, found,
                     turned, reports>>

TTPump == TTUpdate("pump")
TTPoll == TTPollWakes \/ TTUpdate("poll")

TurntableNext ==
  \/ \E k \in Keys : KeyMoves(k)
  \/ \E counts \in MouseCounts : MouseReport(counts)
  \/ \E raw \in AxisValues : AxisReport(raw)
  \/ VttThread \/ TTPoll \/ TTPump

-----------------------------------------------------------------------------
(* Where the table is, in fifths of an eighth of a step, of which a full   *)
(* turn has 256 * 8 * 5: the centre, or the axis, and what was turned.     *)
Turn == 256 * TT_INTERNAL_MULTIPLIER * 5

Angle ==
  LET from == IF wiring.kind = "axis" THEN Base ELSE TT_CENTER IN
  from * TT_INTERNAL_MULTIPLIER * 5 + turned

Apart(a, b) == LET d == (a - b) % Turn IN IF d < Turn - d THEN d ELSE Turn - d

\* Within two steps, and an eighth of one for every report of the mouse.
TurntableAgrees ==
  Apart(ttPort * TT_INTERNAL_MULTIPLIER * 5, Angle)
    <= 2 * TT_INTERNAL_MULTIPLIER * 5 + 5 * reports

=============================================================================
