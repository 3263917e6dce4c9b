----------------------------- MODULE GameLights -----------------------------
(***************************************************************************)
(* From the game to the lamp, on top of LightOutput. EZ2DJ and EZ2Dancer   *)
(* write I/O ports (ez2dj_io_output.cpp, ez2dancer_io_output.cpp): the     *)
(* game's thread stores the lights of one port, one by one, and raises a   *)
(* dirty flag. Sabin Sound Star writes commands to a serial port           *)
(* (sabin_io_output.cpp), parsed as they come, of which only those that    *)
(* change a lamp raise the flag. In all three a light thread looks at the  *)
(* flag every millisecond and hands every bound light to setLight.         *)
(***************************************************************************)
EXTENDS LightOutput

CONSTANTS
  Lights,       \* the lights, in the order of enum Light
  LightPorts,   \* LightPorts[f][p]: the lights of output port p of family f
  LightBinding, \* LightBinding[l]: <<device, output>>, for each light bound
  ParseBuffer   \* symbols that s_parseBuf holds: a command is shorter

Light == ToSet(Lights)
Bound == DOMAIN LightBinding
PortFamilies == DOMAIN LightPorts

\* The serial line, in symbols: a name stands for its characters.
Signs == {"+", "-"}
Symbols == {"(", ")"} \cup Signs \cup Light

ASSUME GameLightsAssumption ==
  /\ Lights \in Seq(Light) \ {<<>>} /\ Light \cap ({"(", ")"} \cup Signs) = {}
  /\ PortFamilies \subseteq {"EZ2DJ", "EZ2Dancer"}
  /\ \A f \in PortFamilies : \A p \in DOMAIN LightPorts[f] : LightPorts[f][p] \in Seq(Light)
  /\ Bound \subseteq Light
  /\ \A l, m \in Bound : LightBinding[l] = LightBinding[m] => l = m
  /\ ParseBuffer \in Nat /\ ParseBuffer >= 4

VARIABLES
  family,    \* s_gameFamily
  lamp,      \* s_lightState, s_lightStates
  dirty,     \* s_lightDirty
  toStore,   \* what is left of the game's call: the lights to store ...
  toMark,    \* ... and the dirty flag
  parsed,    \* s_parseBuf up to s_parseLen
  said,      \* history: the part of a command that the serial line ends in
  asked,     \* history: per light, the last command for it
  lightPc, lightAt  \* the light thread

lampVars == <<lamp, dirty, toStore, toMark>>
serialVars == <<parsed, said, asked>>
lightVars == <<family, lampVars, serialVars, lightPc, lightAt>>

GameLightsTypeOK ==
  /\ lamp \in [Light -> BOOLEAN] /\ dirty \in BOOLEAN /\ toMark \in BOOLEAN
  /\ toStore \in Seq([light : Light, on : BOOLEAN])
  /\ parsed \in Seq(Symbols) /\ Len(parsed) <= ParseBuffer
  /\ said \in Seq(Symbols) /\ asked \in [Light -> BOOLEAN]
  /\ lightPc \in {"sleep", "clear", "set"}
  /\ lightAt \in 1..Len(Lights)

GameLightsInit ==
  /\ lamp = [l \in Light |-> FALSE] /\ dirty = FALSE
  /\ toStore = <<>> /\ toMark = FALSE
  /\ parsed = <<>> /\ said = <<>> /\ asked = [l \in Light |-> FALSE]
  /\ lightPc = "sleep" /\ lightAt = 1

-----------------------------------------------------------------------------
(* The game's thread *)

Idle == toStore = <<>> /\ ~toMark

\* handleDJOut, handleDancerOut: EZ2Dancer's lights are active low.
GameWrites(p) ==
  /\ Idle
  /\ \E value \in [DOMAIN LightPorts[family][p] -> BOOLEAN] :
       toStore' = [i \in DOMAIN value |->
                     [light |-> LightPorts[family][p][i],
                      on    |-> IF family = "EZ2Dancer" THEN ~value[i] ELSE value[i]]]
  /\ toMark' = TRUE
  /\ UNCHANGED <<family, lamp, dirty, serialVars, lightPc, lightAt, outputVars>>

ApplyLight ==
  /\ toStore # <<>>
  /\ lamp' = [lamp EXCEPT ![Head(toStore).light] = Head(toStore).on]
  /\ toStore' = Tail(toStore)
  /\ UNCHANGED <<family, dirty, toMark, serialVars, lightPc, lightAt, outputVars>>

MarkDirty ==
  /\ toStore = <<>> /\ toMark
  /\ dirty' = TRUE /\ toMark' = FALSE
  /\ UNCHANGED <<family, lamp, toStore, serialVars, lightPc, lightAt, outputVars>>

-----------------------------------------------------------------------------
(* onSerialWrite, one symbol at a time: the game may divide its output     *)
(* anywhere.                                                               *)

IsCommand(s) == Len(s) = 4 /\ s[1] = "(" /\ s[2] \in Light /\ s[3] \in Signs /\ s[4] = ")"

\* What may become a command.
CommandStart(s) ==
  /\ Len(s) \in 1..3 /\ s[1] = "("
  /\ Len(s) >= 2 => s[2] \in Light
  /\ Len(s) = 3 => s[3] \in Signs

\* Mutant: an open parenthesis does not start over.
AppendedAlways(c) ==
  IF c = "(" /\ parsed = <<>> THEN <<c>>
  ELSE IF parsed # <<>> /\ Len(parsed) < ParseBuffer THEN Append(parsed, c) ELSE parsed

\* A command that is too long loses its end.
Appended(c) ==
  IF c = "(" THEN <<c>>
  ELSE IF parsed # <<>> /\ Len(parsed) < ParseBuffer THEN Append(parsed, c) ELSE parsed

\* What the line ends in now, as far as it may become a command.
Heard(c) ==
  LET longer == Append(said, c) IN
  IF c = "(" THEN <<c>>
  ELSE IF CommandStart(longer) \/ IsCommand(longer) THEN longer ELSE <<>>

\* processCommand: only a change is stored and marked.
ProcessCommand(s) ==
  LET on == s[3] = "-" IN
  IF IsCommand(s) /\ lamp[s[2]] # on
  THEN toStore' = <<[light |-> s[2], on |-> on]>> /\ toMark' = TRUE
  ELSE UNCHANGED <<toStore, toMark>>

SerialSymbol(c) ==
  /\ Idle
  /\ IF c = ")" THEN ProcessCommand(Appended(c)) /\ parsed' = <<>>
                ELSE parsed' = Appended(c) /\ UNCHANGED <<toStore, toMark>>
  /\ LET s == Heard(c) IN
       /\ said' = IF IsCommand(s) THEN <<>> ELSE s
       /\ asked' = IF IsCommand(s) THEN [asked EXCEPT ![s[2]] = (s[3] = "-")] ELSE asked
  /\ UNCHANGED <<family, lamp, dirty, lightPc, lightAt, outputVars>>

-----------------------------------------------------------------------------
(* The light thread *)

SeesDirty ==
  /\ lightPc = "sleep" /\ dirty
  /\ lightPc' = "clear"
  /\ UNCHANGED <<family, lampVars, serialVars, lightAt, outputVars>>

ClearsDirty ==
  /\ lightPc = "clear"
  /\ dirty' = FALSE
  /\ lightPc' = "set" /\ lightAt' = 1
  /\ UNCHANGED <<family, lamp, toStore, toMark, serialVars, outputVars>>

HandsLight(l) ==
  IF l \in Bound THEN SetLight(LightBinding[l][1], LightBinding[l][2], lamp[l])
                 ELSE ~signalDue /\ UNCHANGED outputVars

\* Mutant: the flag is cleared again after the lights have been handed on.
SetsLightThenClears ==
  LET last == lightAt = Len(Lights)
  IN  /\ lightPc = "set"
      /\ HandsLight(Lights[lightAt])
      /\ lightPc' = IF last THEN "sleep" ELSE "set"
      /\ lightAt' = IF last THEN 1 ELSE lightAt + 1
      /\ dirty' = (dirty /\ ~last)
      /\ UNCHANGED <<family, lamp, toStore, toMark, serialVars>>

\* The light's value is read as it is handed to setLight, if it is bound.
SetsLight ==
  LET last == lightAt = Len(Lights)
  IN  /\ lightPc = "set"
      /\ HandsLight(Lights[lightAt])
      /\ lightPc' = IF last THEN "sleep" ELSE "set"
      /\ lightAt' = IF last THEN 1 ELSE lightAt + 1
      /\ UNCHANGED <<family, lampVars, serialVars>>

LightThread ==
  \/ SeesDirty \/ ClearsDirty \/ SetsLight
  \/ SignalOutput /\ UNCHANGED lightVars

GameCall == ApplyLight \/ MarkDirty

\* The game's thread; "none" plays no game.
GameThread ==
  \/ family \in PortFamilies /\ \E p \in DOMAIN LightPorts[family] : GameWrites(p)
  \/ family = "SabinSS" /\ \E c \in Symbols : SerialSymbol(c)
  \/ GameCall

-----------------------------------------------------------------------------
\* Every bound lamp's output shows the lamp.
LampsAgree ==
  \A l \in Bound : shown[LightBinding[l][1]][LightBinding[l][2]] = lamp[l]

(* Between calls of the game, a lamp is as the last whole command for it   *)
(* on the serial line said, wherever the line was divided and whatever     *)
(* else, cut short or too long, was on it (sabin_io_output.cpp:            *)
(* onSerialWrite).                                                         *)
SerialCommandsArrive == family = "SabinSS" /\ Idle => lamp = asked

=============================================================================
