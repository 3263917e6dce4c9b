----------------------------- MODULE GameOutput -----------------------------
(***************************************************************************)
(* The output half of the input manager with each of its users in turn:    *)
(* the lights of an EZ2DJ or EZ2Dancer game, those of Sabin Sound Star     *)
(* (here as far as its serial parser: what follows is the same), and the   *)
(* launcher's light test.                                                  *)
(***************************************************************************)
EXTENDS GameLights, LightTest

VARIABLE user

gameOutputVars == <<user, lightVars, testVars, outputVars>>

GameOutputInit ==
  /\ \/ user = "game"  /\ family \in PortFamilies
     \/ user = "sabin" /\ family = "SabinSS"
     \/ user = "test"  /\ family = "none"
  /\ GameLightsInit /\ LightTestInit /\ OutputInit

ManagerThreads ==
  user # "sabin" /\ (OutputThread \/ FlushThread) /\ UNCHANGED <<lightVars, testVars>>

GameOutputNext ==
  /\ UNCHANGED user
  /\ \/ user # "test" /\ GameThread /\ UNCHANGED testVars
     \/ user = "game" /\ LightThread /\ UNCHANGED testVars
     \/ user = "test" /\ LightTestNext /\ UNCHANGED lightVars
     \/ ManagerThreads

\* The game's thread ends the call it is in, and every thread of the program
\* keeps running.
GameOutputSpec ==
  /\ GameOutputInit /\ [][GameOutputNext]_gameOutputVars
  /\ WF_lightVars(user = "game" /\ GameCall)
  /\ WF_<<lightVars, outputVars>>(user = "game" /\ LightThread)
  /\ WF_outputVars(user = "game" /\ OutputThread)
  /\ WF_outputVars(user = "game" /\ FlushThread)

GameOutputTypeOK ==
  /\ user \in {"game", "sabin", "test"}
  /\ GameLightsTypeOK /\ LightTestTypeOK /\ OutputTypeOK

-----------------------------------------------------------------------------
(* When the game leaves its lights alone for good, every output comes to   *)
(* show its lamp and keeps showing it: no store, flag, event or report is  *)
(* lost between the four threads, and a report that fails is made good.    *)
LampsReachDevices == <>[](user = "game" /\ Idle) => <>[]LampsAgree

=============================================================================
