------------------------------ MODULE GameInput ------------------------------
(***************************************************************************)
(* The games' input: buttons of EZ2DJ and EZ2Dancer, a turntable of EZ2DJ, *)
(* buttons of Sabin Sound Star. A behaviour exercises one of them while    *)
(* the others rest; the modules share no state.                            *)
(***************************************************************************)
EXTENDS PortInput, Turntable, SabinInput

VARIABLES
  part,
  quiet   \* history: nobody touches the controls any more

inputVars == <<part, quiet, portInputVars, ttVars, sabinVars>>

\* What a part that rests looks like does not matter.
GameInputInit ==
  /\ part \in {"ports", "turntable", "sabin"} /\ quiet = FALSE
  /\ PortInputInit /\ TurntableInit /\ SabinInit
  /\ part # "ports" => LET s == CHOOSE s \in Setups : TRUE IN
                       connected = s.connected /\ source = s.source
  /\ part # "turntable" => wiring = CHOOSE w \in Wirings : TRUE

PortsStep ==
  part = "ports" /\ PortInputNext /\ UNCHANGED <<ttVars, sabinVars>>
TurntableStep ==
  part = "turntable" /\ TurntableNext /\ UNCHANGED <<portInputVars, sabinVars>>
SabinStep ==
  part = "sabin" /\ SabinNext /\ UNCHANGED <<portInputVars, ttVars>>

GoesQuiet ==
  /\ ~quiet /\ quiet' = TRUE
  /\ keys = {}
  /\ UNCHANGED <<part, portInputVars, ttVars, sabinVars>>

\* In the quiet, devices go on reporting what does not change.
GameInputNext ==
  \/ /\ PortsStep \/ TurntableStep \/ SabinStep
     /\ UNCHANGED <<part, quiet>>
     /\ quiet => UNCHANGED <<input, held, keys, axisSeen, reports>>
  \/ GoesQuiet

\* Every thread keeps running, and Sabin's game comes to read what it is told
\* of. Nobody owes the program a report, a press or a port access.
GameInputSpec ==
  /\ GameInputInit /\ [][GameInputNext]_inputVars
  /\ WF_portInputVars(part = "ports" /\ alive /\ PollStep)
  /\ WF_portInputVars(part = "ports" /\ alive /\ UpdateStep("pump"))
  /\ WF_ttVars(part = "turntable" /\ TTPoll)
  /\ WF_ttVars(part = "turntable" /\ TTPump)
  /\ WF_ttVars(part = "turntable" /\ VttThread)
  /\ WF_sabinVars(part = "sabin" /\ ~lost /\ InputThread)
  /\ WF_sabinVars(part = "sabin" /\ ~lost /\ SabinGame)

GameInputTypeOK ==
  /\ part \in {"ports", "turntable", "sabin"} /\ quiet \in BOOLEAN
  /\ PortInputTypeOK /\ TurntableTypeOK /\ SabinTypeOK

-----------------------------------------------------------------------------
(* Once the controls rest, the ports, and what EZ2DJ's input remembers of  *)
(* the coin button, come to agree with them and stay so, whatever the poll *)
(* and the pump thread have overwritten of each other's work               *)
(* (updatePortCache).                                                      *)
PortsSettle == quiet ~> []PortsAgree

(* Once mouse, axis and keys rest, the port comes to stand where the table *)
(* is, to within two steps: whatever the two threads stored late, however  *)
(* often positions went round, below zero or past 255, in either direction *)
(* (getPositionSnapshot, getMousePosition, getVttPosition).                *)
TurntableFollows == quiet ~> []TurntableAgrees

(* Sabin's game comes to see every button as it is: no change is left in   *)
(* the ring without a message (sabin_io_hooks.cpp: inputThread).           *)
ButtonsReachGame == quiet ~> []ButtonsAgree

=============================================================================
