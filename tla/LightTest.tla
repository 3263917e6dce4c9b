------------------------------ MODULE LightTest ------------------------------
(***************************************************************************)
(* The "Test" button of the launcher's light settings (main.cpp on top of  *)
(* LightOutput): it lights the selected output, and the frame that finds   *)
(* the half second over darkens it and disables the device.                *)
(*                                                                         *)
(* One thread, the user interface's, does all that.  The tab stays open;   *)
(* the user may select another output at any time and test it.             *)
(***************************************************************************)
EXTENDS LightOutput

CONSTANTS
  NONE,
  MaxClicks   \* bound: how often the user tests a light

VARIABLES
  target,   \* s_testPath and s_testOutIdx: the last output tested
  running,  \* s_testTimer > 0
  ending,   \* the frame has still to call disableOutput
  clicks    \* history: tests started

testVars == <<target, running, ending, clicks>>

Target == Device \X Outputs

ASSUME LightTestAssumption == NONE \notin Target /\ MaxClicks \in Nat

LightTestTypeOK ==
  /\ target \in Target \union {NONE}
  /\ running \in BOOLEAN /\ ending \in BOOLEAN
  /\ clicks \in 0..MaxClicks

LightTestInit ==
  /\ target = NONE /\ running = FALSE /\ ending = FALSE /\ clicks = 0

-----------------------------------------------------------------------------
Click(d, o) ==
  /\ ~ending /\ clicks < MaxClicks
  /\ SetLight(d, o, TRUE)
  /\ target' = <<d, o>>
  /\ running' = TRUE
  /\ clicks' = clicks + 1
  /\ UNCHANGED ending

\* The frame in which the timer runs out: setLight ...
TimerExpires ==
  /\ running
  /\ SetLight(target[1], target[2], FALSE)
  /\ running' = FALSE
  /\ ending' = TRUE
  /\ UNCHANGED <<target, clicks>>

\* ... and, once that has returned, disableOutput.
TestEnds ==
  /\ ending
  /\ DisableOutput(target[1])
  /\ ending' = FALSE
  /\ UNCHANGED <<target, running, clicks>>

UiStep == TimerExpires \/ TestEnds \/ (SignalOutput /\ UNCHANGED testVars)

LightTestNext == (\E d \in Device : \E o \in Outputs : Click(d, o)) \/ UiStep

LightTestVars == <<testVars, outputVars>>

\* The launcher alone.  Frames are drawn, and both threads of the input
\* manager run.
LightTestSpec ==
  /\ OutputInit /\ LightTestInit
  /\ [][\/ LightTestNext
        \/ OutputThread /\ UNCHANGED testVars
        \/ FlushThread /\ UNCHANGED testVars]_LightTestVars
  /\ WF_LightTestVars(UiStep)
  /\ WF_LightTestVars(OutputThread /\ UNCHANGED testVars)
  /\ WF_LightTestVars(FlushThread /\ UNCHANGED testVars)

-----------------------------------------------------------------------------
(* main.cpp:1222, "Test button - pulses light for 0.5 seconds then         *)
(* auto-off": a light that a test has lit goes dark.                       *)
TestedLightGoesDark ==
  \A d \in Device : \A o \in Outputs : shown[d][o] ~> ~shown[d][o]
=============================================================================
