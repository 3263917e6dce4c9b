----------------------------- MODULE LightOutput -----------------------------
(***************************************************************************)
(* The output half of the input manager (input_manager.cpp): how a light   *)
(* value given to setLight becomes a report on a HID device.               *)
(*                                                                         *)
(* setLight stores the value under the device's lock and signals an event; *)
(* the output thread waits for the event and writes the devices that have  *)
(* something pending; the flush thread writes every enabled device every   *)
(* half second.  A write is one report with all the device's outputs; the  *)
(* lock is held until it ends, well or badly.                              *)
(*                                                                         *)
(* Who calls setLight is left to the modules that extend this one.         *)
(***************************************************************************)
EXTENDS Naturals, SequencesExt

CONSTANTS
  Devices,      \* the connected devices with outputs, in list order
  Outputs,      \* the outputs of a device
  MaxFailures   \* bound: reports that fail or time out

ASSUME LightOutputAssumption ==
  Devices \in Seq(ToSet(Devices)) \ {<<>>} /\ MaxFailures \in Nat

VARIABLES
  out,         \* buttonOutputStates of each device
  enabled,     \* outputEnabled
  outPending,  \* outputPending
  event,       \* outputEvent, auto-reset
  signalDue,   \* the caller of setLight has yet to signal the event
  outPc, outAt, anyPending,   \* the output thread
  flushAt,     \* the flush thread: next device, or 0 when it sleeps
  shown,       \* the values of the last report each device accepted
  failures     \* history: reports that did not arrive

outThreadVars == <<outPc, outAt, anyPending>>
deviceVars == <<out, enabled, outPending>>
reportVars == <<shown, failures>>
outputVars == <<deviceVars, event, signalDue, outThreadVars, flushAt, reportVars>>

Device == ToSet(Devices)
Dark == [d \in Device |-> [o \in Outputs |-> FALSE]]

OutputTypeOK ==
  /\ out \in [Device -> [Outputs -> BOOLEAN]]
  /\ shown \in [Device -> [Outputs -> BOOLEAN]]
  /\ enabled \in [Device -> BOOLEAN] /\ outPending \in [Device -> BOOLEAN]
  /\ event \in BOOLEAN /\ signalDue \in BOOLEAN /\ anyPending \in BOOLEAN
  /\ outPc \in {"wait", "pass", "recheck"}
  /\ outAt \in 1..Len(Devices) /\ flushAt \in 0..Len(Devices)
  /\ failures \in 0..MaxFailures

\* Devices start disabled: a device no light is bound to is never written.
OutputInit ==
  /\ out = Dark /\ shown = Dark
  /\ enabled = [d \in Device |-> FALSE]
  /\ outPending = [d \in Device |-> FALSE]
  /\ event = FALSE /\ signalDue = FALSE
  /\ outPc = "wait" /\ outAt = 1 /\ anyPending = FALSE
  /\ flushAt = 0
  /\ failures = 0

-----------------------------------------------------------------------------
(* Callers. *)

\* setLight up to the end of its critical section ...
SetLight(d, o, v) ==
  /\ ~signalDue
  /\ enabled' = [enabled EXCEPT ![d] = TRUE]
  /\ out' = [out EXCEPT ![d][o] = v]
  /\ outPending' = [outPending EXCEPT ![d] = TRUE]
  /\ signalDue' = TRUE
  /\ UNCHANGED <<event, outThreadVars, flushAt, reportVars>>

\* ... and its SetEvent, before it returns to its caller.
SignalOutput ==
  /\ signalDue
  /\ signalDue' = FALSE
  /\ event' = TRUE
  /\ UNCHANGED <<deviceVars, outThreadVars, flushAt, reportVars>>

DisableOutput(d) ==
  /\ ~signalDue
  /\ enabled' = [enabled EXCEPT ![d] = FALSE]
  /\ UNCHANGED <<out, outPending, event, signalDue, outThreadVars, flushAt, reportVars>>

-----------------------------------------------------------------------------
(* deviceWriteOutput. *)

WriteReport(d) ==
  \/ shown' = [shown EXCEPT ![d] = out[d]] /\ UNCHANGED failures
  \/ failures < MaxFailures /\ failures' = failures + 1 /\ UNCHANGED shown

(* The output thread. *)

OutputWakes ==
  /\ outPc = "wait" /\ event
  /\ event' = FALSE
  /\ outPc' = "pass" /\ outAt' = 1 /\ anyPending' = FALSE
  /\ UNCHANGED <<deviceVars, signalDue, flushAt, reportVars>>

\* One device of a pass, under its lock.  After a pass that wrote something
\* another follows.
OutputPass ==
  LET d == Devices[outAt]
      pending == outPending[d] /\ enabled[d]
      last == outAt = Len(Devices)
  IN  /\ outPc = "pass"
      /\ outPending' = [outPending EXCEPT ![d] = FALSE]
      /\ IF pending THEN WriteReport(d) ELSE UNCHANGED reportVars
      /\ outAt' = IF last THEN 1 ELSE outAt + 1
      /\ outPc' = IF last /\ ~(anyPending \/ pending) THEN "recheck" ELSE "pass"
      /\ anyPending' = (~last /\ (anyPending \/ pending))
      /\ UNCHANGED <<out, enabled, event, signalDue, flushAt>>

\* Mutant: the event is reset when the thread goes back to waiting for it.
OutputRecheckResets ==
  LET d == Devices[outAt]
      pending == outPending[d] /\ enabled[d]
      last == outAt = Len(Devices)
  IN  /\ outPc = "recheck"
      /\ outAt' = IF pending \/ last THEN 1 ELSE outAt + 1
      /\ outPc' = IF pending THEN "pass" ELSE IF last THEN "wait" ELSE "recheck"
      /\ event' = (event /\ outPc' # "wait")
      /\ UNCHANGED <<deviceVars, signalDue, anyPending, flushAt, reportVars>>

\* After a pass that wrote nothing the devices are looked at once more.
OutputRecheck ==
  LET d == Devices[outAt]
      pending == outPending[d] /\ enabled[d]
      last == outAt = Len(Devices)
  IN  /\ outPc = "recheck"
      /\ outAt' = IF pending \/ last THEN 1 ELSE outAt + 1
      /\ outPc' = IF pending THEN "pass" ELSE IF last THEN "wait" ELSE "recheck"
      /\ UNCHANGED <<deviceVars, event, signalDue, anyPending, flushAt, reportVars>>

(* The flush thread. *)

FlushWakes ==
  /\ flushAt = 0
  /\ flushAt' = 1
  /\ UNCHANGED <<deviceVars, event, signalDue, outThreadVars, reportVars>>

\* Mutant: the loop over the devices does not end at the last one.
FlushRunsOn ==
  /\ flushAt > 0
  /\ IF enabled[Devices[flushAt]] THEN WriteReport(Devices[flushAt])
                                  ELSE UNCHANGED reportVars
  /\ flushAt' = flushAt + 1
  /\ UNCHANGED <<deviceVars, event, signalDue, outThreadVars>>

FlushDevice ==
  /\ flushAt > 0
  /\ IF enabled[Devices[flushAt]] THEN WriteReport(Devices[flushAt])
                                  ELSE UNCHANGED reportVars
  /\ flushAt' = (flushAt + 1) % (Len(Devices) + 1)
  /\ UNCHANGED <<deviceVars, event, signalDue, outThreadVars>>

OutputThread == OutputWakes \/ OutputPass \/ OutputRecheck
FlushThread == FlushWakes \/ FlushDevice

-----------------------------------------------------------------------------
(* As long as reports arrive, no update is forgotten: an enabled device    *)
(* that does not show what was last set is pending, and the output thread  *)
(* has yet to look at it: a signal is on its way, or this pass or recheck  *)
(* has not come to the device ("Do-while: re-check after processing to     *)
(* catch updates that arrived during writes.", input_manager.cpp:1119).    *)
WillLookAt(d) ==
  \/ signalDue \/ event
  \/ outPc = "pass" /\ anyPending
  \/ outPc \in {"pass", "recheck"} /\ \E i \in outAt..Len(Devices) : Devices[i] = d

NoLostUpdate ==
  \A d \in Device :
    failures = 0 /\ enabled[d] /\ shown[d] # out[d] => outPending[d] /\ WillLookAt(d)
=============================================================================
