---------------------------- MODULE OutputProofs ----------------------------
(* Proofs about the lights, for any devices, outputs and lights and any    *)
(* number of reports that fail: of the output half of the input manager,   *)
(* whoever calls setLight and disableOutput and in whatever order, and of  *)
(* the parser of Sabin Sound Star's serial line, whatever is on it.        *)
EXTENDS GameOutput, TLAPS

OutputStep ==
  \/ \E d, o, v : SetLight(d, o, v)
  \/ SignalOutput
  \/ \E d : DisableOutput(d)
  \/ OutputThread \/ FlushThread

(* A device is somewhere in the list, and everything in it is a device.    *)
LEMMA DevicesListed ==
  /\ Len(Devices) \in Nat /\ Len(Devices) >= 1
  /\ \A i \in 1..Len(Devices) : Devices[i] \in Device
  /\ \A d \in Device : \E i \in 1..Len(Devices) : Devices[i] = d
  <1>1. Devices \in Seq(Device) /\ Devices # <<>>
    BY LightOutputAssumption DEF Device
  <1>2. Device = {Devices[i] : i \in DOMAIN Devices}
    BY DEF Device, ToSet
  <1>3. Len(Devices) \in Nat /\ DOMAIN Devices = 1..Len(Devices) /\ Len(Devices) # 0
    BY <1>1
  <1> QED
    BY <1>2, <1>3

(* What the proof needs of the types: no value of a light, and no place in *)
(* the flush thread's loop, matters to it.                                 *)
OutputShape ==
  /\ out = [d \in Device |-> out[d]] /\ shown = [d \in Device |-> shown[d]]
  /\ enabled \in [Device -> BOOLEAN] /\ outPending \in [Device -> BOOLEAN]
  /\ outPc \in {"wait", "pass", "recheck"} /\ outAt \in 1..Len(Devices)
  /\ anyPending \in BOOLEAN /\ event \in BOOLEAN /\ signalDue \in BOOLEAN
  /\ failures \in Nat

OutputInv == OutputShape /\ NoLostUpdate

LEMMA OutputInvInit == OutputInit => OutputInv
  <1> SUFFICES ASSUME OutputInit PROVE OutputInv
    OBVIOUS
  <1>1. OutputShape
    <2>1. 1 \in 1..Len(Devices)
      BY DevicesListed
    <2>2. out = [d \in Device |-> out[d]] /\ shown = [d \in Device |-> shown[d]]
      BY DEF OutputInit, Dark
    <2> QED
      BY <2>1, <2>2 DEF OutputInit, OutputShape
  <1>2. NoLostUpdate
    BY DEF OutputInit, NoLostUpdate
  <1> QED
    BY <1>1, <1>2 DEF OutputInv

(* A report, whichever device it is for, makes nothing out of date.        *)
LEMMA ReportKeeps ==
  ASSUME OutputShape, NEW x, WriteReport(x), UNCHANGED out
  PROVE  /\ shown' = [d \in Device |-> shown'[d]] /\ failures' \in Nat
         /\ failures' = 0 => failures = 0
         /\ \A d \in Device : failures' = 0 /\ shown'[d] # out[d] => d # x /\ shown[d] # out[d]
  BY DEF OutputShape, WriteReport

LEMMA CallersKeep ==
  ASSUME OutputInv, (\E d, o, v : SetLight(d, o, v)) \/ SignalOutput \/ (\E d : DisableOutput(d))
  PROVE  OutputInv'
  <1> USE DEF OutputInv
  <1>1. CASE \E d, o, v : SetLight(d, o, v)
    <2>1. PICK d, o, v : SetLight(d, o, v)
      BY <1>1
    <2>2. OutputShape'
      BY <2>1 DEF SetLight, OutputShape, outThreadVars, reportVars
    <2>3. ASSUME NEW e \in Device, failures' = 0, enabled'[e], shown'[e] # out'[e]
          PROVE  outPending'[e] /\ WillLookAt(e)'
      <3>1. WillLookAt(e)'
        BY <2>1 DEF SetLight, WillLookAt
      <3>2. CASE e = d
        BY <2>1, <3>1, <3>2 DEF SetLight, OutputShape
      <3>3. CASE e # d
        BY <2>1, <2>3, <3>1, <3>3 DEF SetLight, OutputShape, NoLostUpdate, reportVars
      <3> QED
        BY <3>2, <3>3
    <2> QED
      BY <2>2, <2>3 DEF NoLostUpdate
  <1>2. CASE SignalOutput
    BY <1>2 DEF SignalOutput, OutputShape, NoLostUpdate, WillLookAt, deviceVars, outThreadVars, reportVars
  <1>3. CASE \E d : DisableOutput(d)
    <2>1. PICK d : DisableOutput(d)
      BY <1>3
    <2>2. OutputShape'
      BY <2>1 DEF DisableOutput, OutputShape, outThreadVars, reportVars
    <2>3. \A e \in Device : enabled'[e] => enabled[e]
      BY <2>1 DEF DisableOutput, OutputShape
    <2> QED
      BY <2>1, <2>2, <2>3 DEF DisableOutput, NoLostUpdate, WillLookAt, outThreadVars, reportVars
  <1> QED
    BY <1>1, <1>2, <1>3

LEMMA OutputThreadKeeps ==
  ASSUME OutputInv, OutputThread PROVE OutputInv'
  <1> USE DEF OutputInv
  <1> DEFINE x == Devices[outAt]
             pending == outPending[x] /\ enabled[x]
             last == outAt = Len(Devices)
  <1>0. x \in Device /\ pending \in BOOLEAN /\ Len(Devices) \in Nat /\ Len(Devices) >= 1
    BY DevicesListed DEF OutputShape
  <1>1. CASE OutputWakes
    <2>1. OutputShape'
      <3>1. 1 \in 1..Len(Devices)
        BY <1>0
      <3>2. /\ outAt' = 1 /\ outPc' = "pass" /\ anyPending' = FALSE /\ event' = FALSE
            /\ UNCHANGED <<out, shown, enabled, outPending, signalDue, failures>>
        BY <1>1 DEF OutputWakes, deviceVars, reportVars
      <3> QED
        BY <3>1, <3>2 DEF OutputShape
    <2>2. \A d \in Device : WillLookAt(d)'
      BY <1>1, DevicesListed DEF OutputWakes, WillLookAt
    <2> QED
      BY <1>1, <2>1, <2>2 DEF OutputWakes, NoLostUpdate, deviceVars, reportVars
  <1>2. CASE OutputPass
    <2>1. /\ outPc = "pass"
          /\ outPending' = [outPending EXCEPT ![x] = FALSE]
          /\ IF pending THEN WriteReport(x) ELSE UNCHANGED reportVars
          /\ outAt' = IF last THEN 1 ELSE outAt + 1
          /\ outPc' = IF last /\ ~(anyPending \/ pending) THEN "recheck" ELSE "pass"
          /\ anyPending' = (~last /\ (anyPending \/ pending))
          /\ UNCHANGED <<out, enabled, event, signalDue, flushAt>>
      BY <1>2 DEF OutputPass
    <2>2. /\ shown' = [d \in Device |-> shown'[d]] /\ failures' \in Nat
          /\ failures' = 0 => failures = 0
          /\ \A d \in Device : failures' = 0 /\ shown'[d] # out[d]
                                 => shown[d] # out[d] /\ (pending => d # x)
      <3>1. CASE pending
        BY <2>1, <3>1, ReportKeeps
      <3>2. CASE ~pending
        BY <2>1, <3>2 DEF OutputShape, reportVars
      <3> QED
        BY <3>1, <3>2
    <2>3. OutputShape'
      <3>1. outAt' \in 1..Len(Devices)
        BY <1>0, <2>1 DEF OutputShape
      <3>2. anyPending' \in BOOLEAN /\ outPc' \in {"wait", "pass", "recheck"}
        BY <1>0, <2>1 DEF OutputShape
      <3> QED
        BY <2>1, <2>2, <3>1, <3>2 DEF OutputShape
    <2>4. ASSUME NEW d \in Device, failures' = 0, enabled'[d], shown'[d] # out'[d]
          PROVE  outPending'[d] /\ WillLookAt(d)'
      <3>1. outPending[d] /\ WillLookAt(d) /\ d # x
        <4>1. failures = 0 /\ enabled[d] /\ shown[d] # out[d]
          BY <2>1, <2>2, <2>4
        <4>2. outPending[d] /\ WillLookAt(d)
          BY <4>1 DEF NoLostUpdate
        <4>3. d # x
          BY <2>2, <2>4, <2>1, <4>1, <4>2
        <4> QED
          BY <4>2, <4>3
      <3>2. outPending'[d]
        BY <2>1, <3>1 DEF OutputShape
      <3>3. CASE signalDue \/ event
        BY <2>1, <3>2, <3>3 DEF WillLookAt
      <3>4. CASE last
        <4>1. outAt' = 1 /\ outPc' \in {"pass", "recheck"}
          BY <2>1, <3>4
        <4>2. \E i \in 1..Len(Devices) : Devices[i] = d
          BY DevicesListed
        <4> QED
          BY <3>2, <4>1, <4>2 DEF WillLookAt
      <3>5. CASE ~last /\ anyPending
        <4>1. outPc' = "pass" /\ anyPending'
          BY <2>1, <3>5
        <4> QED
          BY <3>2, <4>1 DEF WillLookAt
      <3>6. CASE ~last /\ ~anyPending /\ ~signalDue /\ ~event
        <4>1. PICK i \in outAt..Len(Devices) : Devices[i] = d
          BY <3>1, <3>6 DEF WillLookAt
        <4>2. i # outAt
          BY <3>1, <4>1
        <4>3. i \in outAt'..Len(Devices) /\ outPc' = "pass"
          BY <1>0, <2>1, <3>6, <4>1, <4>2 DEF OutputShape
        <4> QED
          BY <3>2, <4>1, <4>3 DEF WillLookAt
      <3> QED
        BY <3>3, <3>4, <3>5, <3>6
    <2> QED
      BY <2>3, <2>4 DEF NoLostUpdate
  <1>3. CASE OutputRecheck
    <2>1. /\ outPc = "recheck"
          /\ outAt' = IF pending \/ last THEN 1 ELSE outAt + 1
          /\ outPc' = IF pending THEN "pass" ELSE IF last THEN "wait" ELSE "recheck"
          /\ UNCHANGED <<out, enabled, outPending, event, signalDue, anyPending, shown, failures>>
      BY <1>3 DEF OutputRecheck, deviceVars, reportVars
    <2>2. OutputShape'
      <3>1. outAt' \in 1..Len(Devices)
        BY <1>0, <2>1 DEF OutputShape
      <3> QED
        BY <2>1, <3>1 DEF OutputShape
    <2>3. ASSUME NEW d \in Device, failures' = 0, enabled'[d], shown'[d] # out'[d]
          PROVE  outPending'[d] /\ WillLookAt(d)'
      <3>1. outPending[d] /\ enabled[d] /\ WillLookAt(d)
        BY <2>1, <2>3 DEF NoLostUpdate
      <3>2. CASE signalDue \/ event
        BY <2>1, <3>1, <3>2 DEF WillLookAt
      <3>3. CASE pending
        <4>1. \E i \in 1..Len(Devices) : Devices[i] = d
          BY DevicesListed
        <4> QED
          BY <2>1, <3>1, <3>3, <4>1 DEF WillLookAt
      <3>4. CASE ~pending /\ ~signalDue /\ ~event
        <4>1. PICK i \in outAt..Len(Devices) : Devices[i] = d
          BY <2>1, <3>1, <3>4 DEF WillLookAt
        <4>2. i # outAt
          BY <3>1, <3>4, <4>1
        <4>3. ~last /\ outAt' = outAt + 1 /\ outPc' = "recheck"
          BY <1>0, <2>1, <3>4, <4>1, <4>2 DEF OutputShape
        <4>4. i \in outAt'..Len(Devices)
          BY <1>0, <4>1, <4>2, <4>3 DEF OutputShape
        <4> QED
          BY <2>1, <3>1, <4>1, <4>3, <4>4 DEF WillLookAt
      <3> QED
        BY <3>2, <3>3, <3>4
    <2> QED
      BY <2>2, <2>3 DEF NoLostUpdate
  <1> QED
    BY <1>1, <1>2, <1>3 DEF OutputThread

LEMMA FlushThreadKeeps ==
  ASSUME OutputInv, FlushThread PROVE OutputInv'
  <1> USE DEF OutputInv
  <1>1. CASE FlushWakes
    BY <1>1 DEF FlushWakes, OutputShape, NoLostUpdate, WillLookAt, deviceVars, outThreadVars, reportVars
  <1>2. CASE FlushDevice
    <2> DEFINE x == Devices[flushAt]
    <2>1. /\ (IF enabled[x] THEN WriteReport(x) ELSE UNCHANGED reportVars)
          /\ UNCHANGED <<out, enabled, outPending, event, signalDue, outPc, outAt, anyPending>>
      BY <1>2 DEF FlushDevice, deviceVars, outThreadVars
    <2>2. /\ shown' = [d \in Device |-> shown'[d]] /\ failures' \in Nat
          /\ failures' = 0 => failures = 0
          /\ \A d \in Device : failures' = 0 /\ shown'[d] # out[d] => shown[d] # out[d]
      <3>1. CASE enabled[x]
        BY <2>1, <3>1, ReportKeeps
      <3>2. CASE ~enabled[x]
        BY <2>1, <3>2 DEF OutputShape, reportVars
      <3> QED
        BY <3>1, <3>2
    <2>3. OutputShape'
      BY <2>1, <2>2 DEF OutputShape
    <2>4. NoLostUpdate'
      BY <2>1, <2>2 DEF NoLostUpdate, WillLookAt
    <2> QED
      BY <2>3, <2>4
  <1> QED
    BY <1>1, <1>2 DEF FlushThread

LEMMA OutputInvKept == OutputInv /\ [OutputStep]_outputVars => OutputInv'
  <1> SUFFICES ASSUME OutputInv, [OutputStep]_outputVars PROVE OutputInv'
    OBVIOUS
  <1>1. CASE OutputStep
    BY <1>1, CallersKeep, OutputThreadKeeps, FlushThreadKeeps DEF OutputStep
  <1>2. CASE UNCHANGED outputVars
    BY <1>2 DEF outputVars, deviceVars, outThreadVars, reportVars, OutputInv, OutputShape,
       NoLostUpdate, WillLookAt
  <1> QED
    BY <1>1, <1>2

(* Whatever the game, the light thread or the light test does comes to     *)
(* calls of setLight and disableOutput.                                    *)
LEMMA UsersCall == [GameOutputNext]_gameOutputVars => [OutputStep]_outputVars
  <1>1. GameThread \/ GameCall => UNCHANGED outputVars
    BY DEF GameThread, GameCall, GameWrites, SerialSymbol, ApplyLight, MarkDirty
  <1>2. LightThread => [OutputStep]_outputVars
    BY DEF LightThread, SeesDirty, ClearsDirty, SetsLight, HandsLight, OutputStep
  <1>3. LightTestNext => [OutputStep]_outputVars
    BY DEF LightTestNext, Click, UiStep, TimerExpires, TestEnds, OutputStep
  <1> QED
    BY <1>1, <1>2, <1>3
    DEF GameOutputNext, gameOutputVars, ManagerThreads, OutputStep

(* While reports arrive no update is forgotten: the output thread has yet  *)
(* to look at every enabled device that is out of date, and will find it   *)
(* pending.                                                                *)
THEOREM UpdatesAreSeen == GameOutputSpec => []NoLostUpdate
  <1>1. GameOutputInit => OutputInv
    BY OutputInvInit DEF GameOutputInit
  <1>2. OutputInv => NoLostUpdate
    BY DEF OutputInv
  <1> QED
    BY <1>1, <1>2, UsersCall, OutputInvKept, PTL DEF GameOutputSpec

-----------------------------------------------------------------------------
(* Types *)

LEMMA OutputTyped ==
  ASSUME OutputTypeOK
  PROVE  /\ \A d, o : \A v \in BOOLEAN : SetLight(d, o, v) => OutputTypeOK'
         /\ SignalOutput => OutputTypeOK'
         /\ \A d : DisableOutput(d) => OutputTypeOK'
         /\ OutputThread => OutputTypeOK'
         /\ FlushThread => OutputTypeOK'
         /\ UNCHANGED outputVars => OutputTypeOK'
  <1>1. ASSUME NEW d, NEW o, NEW v \in BOOLEAN, SetLight(d, o, v)
        PROVE  OutputTypeOK'
    <2>1. out' \in [Device -> [Outputs -> BOOLEAN]]
      BY <1>1 DEF SetLight, OutputTypeOK
    <2>2. enabled' \in [Device -> BOOLEAN] /\ outPending' \in [Device -> BOOLEAN] /\ signalDue' = TRUE
      BY <1>1 DEF SetLight, OutputTypeOK
    <2>3. UNCHANGED <<event, outPc, outAt, anyPending, flushAt, shown, failures>>
      BY <1>1 DEF SetLight, outThreadVars, reportVars
    <2> QED
      BY <2>1, <2>2, <2>3 DEF OutputTypeOK
  <1>2. SignalOutput => OutputTypeOK'
    BY DEF SignalOutput, OutputTypeOK, deviceVars, outThreadVars, reportVars
  <1>3. ASSUME NEW d, DisableOutput(d)
        PROVE  OutputTypeOK'
    BY <1>3 DEF DisableOutput, OutputTypeOK, outThreadVars, reportVars
  <1>4. ASSUME NEW d \in Device, WriteReport(d)
        PROVE  shown' \in [Device -> [Outputs -> BOOLEAN]] /\ failures' \in 0..MaxFailures
    BY <1>4, LightOutputAssumption DEF WriteReport, OutputTypeOK
  <1>5. UNCHANGED reportVars
          => shown' \in [Device -> [Outputs -> BOOLEAN]] /\ failures' \in 0..MaxFailures
    BY DEF reportVars, OutputTypeOK
  <1>6. Len(Devices) \in Nat /\ 1 \in 1..Len(Devices) /\ \A i \in 1..Len(Devices) : Devices[i] \in Device
    BY DevicesListed
  <1>7. ASSUME OutputThread
        PROVE  OutputTypeOK'
    <2>1. CASE OutputWakes
      <3>1. /\ event' = FALSE /\ outPc' = "pass" /\ outAt' = 1 /\ anyPending' = FALSE
            /\ UNCHANGED <<out, enabled, outPending, signalDue, flushAt, shown, failures>>
        BY <2>1 DEF OutputWakes, deviceVars, reportVars
      <3> QED
        BY <3>1, <1>6 DEF OutputTypeOK
    <2>2. CASE OutputPass
      <3> DEFINE x == Devices[outAt]
                 waiting == outPending[x] /\ enabled[x]
      <3>1. x \in Device /\ waiting \in BOOLEAN
        BY <1>6 DEF OutputTypeOK
      <3>2. shown' \in [Device -> [Outputs -> BOOLEAN]] /\ failures' \in 0..MaxFailures
        BY <2>2, <3>1, <1>4, <1>5 DEF OutputPass
      <3>3. outPending' \in [Device -> BOOLEAN]
        BY <2>2 DEF OutputPass, OutputTypeOK
      <3>4. outAt' \in 1..Len(Devices)
        BY <2>2, <1>6 DEF OutputPass, OutputTypeOK
      <3>5. outPc' \in {"wait", "pass", "recheck"} /\ anyPending' \in BOOLEAN
        BY <2>2, <3>1 DEF OutputPass, OutputTypeOK
      <3>6. UNCHANGED <<out, enabled, event, signalDue, flushAt>>
        BY <2>2 DEF OutputPass
      <3> QED
        BY <3>2, <3>3, <3>4, <3>5, <3>6 DEF OutputTypeOK
    <2>3. CASE OutputRecheck
      <3>1. outAt' \in 1..Len(Devices) /\ outPc' \in {"wait", "pass", "recheck"}
        BY <2>3, <1>6 DEF OutputRecheck, OutputTypeOK
      <3>2. UNCHANGED <<out, enabled, outPending, event, signalDue, anyPending, flushAt, shown, failures>>
        BY <2>3 DEF OutputRecheck, deviceVars, reportVars
      <3> QED
        BY <3>1, <3>2 DEF OutputTypeOK
    <2> QED
      BY <1>7, <2>1, <2>2, <2>3 DEF OutputThread
  <1>8. ASSUME FlushThread
        PROVE  OutputTypeOK'
    <2>1. CASE FlushWakes
      <3>1. /\ flushAt' = 1
            /\ UNCHANGED <<out, enabled, outPending, event, signalDue, outPc, outAt, anyPending,
                           shown, failures>>
        BY <2>1 DEF FlushWakes, deviceVars, outThreadVars, reportVars
      <3> QED
        BY <3>1, <1>6 DEF OutputTypeOK
    <2>2. CASE FlushDevice
      <3>1. flushAt \in 1..Len(Devices)
        BY <2>2, <1>6 DEF FlushDevice, OutputTypeOK
      <3>2. shown' \in [Device -> [Outputs -> BOOLEAN]] /\ failures' \in 0..MaxFailures
        BY <2>2, <3>1, <1>4, <1>5, <1>6 DEF FlushDevice
      <3>3. flushAt' \in 0..Len(Devices)
        BY <2>2, <3>1, <1>6 DEF FlushDevice
      <3>4. UNCHANGED <<out, enabled, outPending, event, signalDue, outPc, outAt, anyPending>>
        BY <2>2 DEF FlushDevice, deviceVars, outThreadVars
      <3> QED
        BY <3>2, <3>3, <3>4 DEF OutputTypeOK
    <2> QED
      BY <1>8, <2>1, <2>2 DEF FlushThread
  <1>9. UNCHANGED outputVars => OutputTypeOK'
    BY DEF OutputTypeOK, outputVars, deviceVars, outThreadVars, reportVars
  <1> QED
    BY <1>1, <1>2, <1>3, <1>7, <1>8, <1>9

LEMMA LightsListed ==
  /\ Len(Lights) \in Nat /\ 1 \in 1..Len(Lights)
  /\ \A i \in 1..Len(Lights) : Lights[i] \in Light
  BY GameLightsAssumption

LEMMA LightsTyped ==
  ASSUME GameLightsTypeOK /\ OutputTypeOK
  PROVE  /\ GameThread => GameLightsTypeOK' /\ UNCHANGED outputVars
         /\ LightThread => GameLightsTypeOK' /\ OutputTypeOK'
         /\ UNCHANGED lightVars => GameLightsTypeOK'
  <1>1. ASSUME GameThread
        PROVE  GameLightsTypeOK' /\ UNCHANGED outputVars
    <2>1. ASSUME family \in PortFamilies, NEW p \in DOMAIN LightPorts[family], GameWrites(p)
          PROVE  GameLightsTypeOK' /\ UNCHANGED outputVars
      <3>1. PICK value \in [DOMAIN LightPorts[family][p] -> BOOLEAN] :
              toStore' = [i \in DOMAIN value |->
                     [light |-> LightPorts[family][p][i],
                      on    |-> IF family = "EZ2Dancer" THEN ~value[i] ELSE value[i]]]
        BY <2>1 DEF GameWrites
      <3>2. LightPorts[family][p] \in Seq(Light)
        BY <2>1, GameLightsAssumption
      <3>3. PICK n \in Nat : DOMAIN value = 1..n /\ \A i \in 1..n : LightPorts[family][p][i] \in Light
        BY <3>1, <3>2
      <3>4. \A i \in 1..n : (IF family = "EZ2Dancer" THEN ~value[i] ELSE value[i]) \in BOOLEAN
        BY <3>1, <3>3
      <3>5. toStore' \in Seq([light : Light, on : BOOLEAN])
        BY <3>1, <3>3, <3>4
      <3> QED
        BY <2>1, <3>5 DEF GameWrites, GameLightsTypeOK, serialVars
    <2>2. ASSUME NEW c \in Symbols, SerialSymbol(c)
          PROVE  GameLightsTypeOK' /\ UNCHANGED outputVars
      <3> DEFINE s == Appended(c)
                 h == Heard(c)
      <3>1. s \in Seq(Symbols) /\ Len(s) <= ParseBuffer
        BY GameLightsAssumption DEF Appended, GameLightsTypeOK
      <3>2. parsed' \in Seq(Symbols) /\ Len(parsed') <= ParseBuffer
        <4>1. parsed' = <<>> \/ parsed' = s
          BY <2>2 DEF SerialSymbol
        <4>2. <<>> \in Seq(Symbols) /\ Len(<<>>) = 0 /\ 0 <= ParseBuffer
          BY GameLightsAssumption
        <4> QED
          BY <3>1, <4>1, <4>2
      <3>3. toStore' \in Seq([light : Light, on : BOOLEAN]) /\ toMark' \in BOOLEAN
        <4>1. CASE UNCHANGED <<toStore, toMark>>
          BY <4>1 DEF GameLightsTypeOK
        <4>2. CASE IsCommand(s) /\ toStore' = <<[light |-> s[2], on |-> s[3] = "-"]>> /\ toMark' = TRUE
          <5>1. s[2] \in Light
            BY <4>2 DEF IsCommand
          <5> QED
            BY <4>2, <5>1
        <4> QED
          BY <2>2, <4>1, <4>2 DEF SerialSymbol, ProcessCommand
      <3>4. h \in Seq(Symbols)
        BY DEF Heard, GameLightsTypeOK
      <3>5. said' \in Seq(Symbols)
        BY <2>2, <3>4 DEF SerialSymbol
      <3>6. asked' \in [Light -> BOOLEAN]
        BY <2>2 DEF SerialSymbol, GameLightsTypeOK
      <3> QED
        BY <2>2, <3>2, <3>3, <3>5, <3>6 DEF SerialSymbol, GameLightsTypeOK
    <2>3. CASE ApplyLight
      <3>1. Head(toStore).on \in BOOLEAN /\ Tail(toStore) \in Seq([light : Light, on : BOOLEAN])
        <4>1. toStore \in Seq([light : Light, on : BOOLEAN]) /\ toStore # <<>>
          BY <2>3 DEF ApplyLight, GameLightsTypeOK
        <4> DEFINE R == [light : Light, on : BOOLEAN]
        <4>2. Head(toStore) \in R /\ Tail(toStore) \in Seq(R)
          <5> HIDE DEF R
          <5>1. toStore \in Seq(R)
            BY <4>1 DEF R
          <5> QED
            BY <4>1, <5>1
        <4> QED
          BY <4>2
      <3>2. lamp' \in [Light -> BOOLEAN]
        BY <2>3, <3>1 DEF ApplyLight, GameLightsTypeOK
      <3> QED
        BY <2>3, <3>1, <3>2 DEF ApplyLight, GameLightsTypeOK, serialVars
    <2>4. CASE MarkDirty
      BY <2>4 DEF MarkDirty, GameLightsTypeOK, serialVars
    <2> QED
      BY <1>1, <2>1, <2>2, <2>3, <2>4 DEF GameThread, GameCall
  <1>2. ASSUME LightThread
        PROVE  GameLightsTypeOK' /\ OutputTypeOK'
    <2>1. CASE SeesDirty
      BY <2>1, OutputTyped DEF SeesDirty, GameLightsTypeOK, lampVars, serialVars
    <2>2. CASE ClearsDirty
      BY <2>2, OutputTyped, LightsListed DEF ClearsDirty, GameLightsTypeOK, serialVars
    <2>3. CASE SetsLight
      <3>1. /\ Lights[lightAt] \in Light /\ lightAt' \in 1..Len(Lights)
            /\ lightPc' \in {"sleep", "clear", "set"}
        BY <2>3, LightsListed DEF SetsLight, GameLightsTypeOK
      <3>2. OutputTypeOK'
        <4>1. lamp[Lights[lightAt]] \in BOOLEAN
          BY <3>1 DEF GameLightsTypeOK
        <4> QED
          BY <2>3, <4>1, OutputTyped DEF SetsLight, HandsLight
      <3> QED
        BY <2>3, <3>1, <3>2 DEF SetsLight, GameLightsTypeOK, lampVars, serialVars
    <2>4. CASE SignalOutput /\ UNCHANGED lightVars
      BY <2>4, OutputTyped DEF GameLightsTypeOK, lightVars, lampVars, serialVars
    <2> QED
      BY <1>2, <2>1, <2>2, <2>3, <2>4 DEF LightThread
  <1>3. UNCHANGED lightVars => GameLightsTypeOK'
    BY DEF GameLightsTypeOK, lightVars, lampVars, serialVars
  <1> QED
    BY <1>1, <1>2, <1>3

LEMMA TestTyped ==
  ASSUME LightTestTypeOK /\ OutputTypeOK
  PROVE  /\ LightTestNext => LightTestTypeOK' /\ OutputTypeOK'
         /\ UNCHANGED testVars => LightTestTypeOK'
  <1>1. ASSUME NEW d \in Device, NEW o \in Outputs, Click(d, o)
        PROVE  LightTestTypeOK' /\ OutputTypeOK'
    <2>1. OutputTypeOK'
      BY <1>1, OutputTyped DEF Click
    <2>2. clicks' \in 0..MaxClicks
      BY <1>1, LightTestAssumption DEF Click, LightTestTypeOK
    <2> QED
      BY <1>1, <2>1, <2>2 DEF Click, LightTestTypeOK, Target
  <1>2. TimerExpires => LightTestTypeOK' /\ OutputTypeOK'
    BY OutputTyped DEF TimerExpires, LightTestTypeOK
  <1>3. TestEnds => LightTestTypeOK' /\ OutputTypeOK'
    BY OutputTyped DEF TestEnds, LightTestTypeOK
  <1>4. SignalOutput /\ UNCHANGED testVars => LightTestTypeOK' /\ OutputTypeOK'
    BY OutputTyped DEF LightTestTypeOK, testVars
  <1>5. UNCHANGED testVars => LightTestTypeOK'
    BY DEF LightTestTypeOK, testVars
  <1> QED
    BY <1>1, <1>2, <1>3, <1>4, <1>5 DEF LightTestNext, UiStep

LEMMA GameOutputTyped == GameOutputInit => GameOutputTypeOK
  <1> SUFFICES ASSUME GameOutputInit PROVE GameOutputTypeOK
    OBVIOUS
  <1>1. OutputTypeOK
    <2>1. 1 \in 1..Len(Devices) /\ 0 \in 0..Len(Devices) /\ 0 \in 0..MaxFailures
      BY DevicesListed, LightOutputAssumption
    <2>2. Dark \in [Device -> [Outputs -> BOOLEAN]]
      BY DEF Dark
    <2> QED
      BY <2>1, <2>2 DEF GameOutputInit, OutputInit, OutputTypeOK
  <1>2. GameLightsTypeOK
    <2>1. /\ toStore = <<>> /\ parsed = <<>> /\ said = <<>>
          /\ lamp \in [Light -> BOOLEAN] /\ asked \in [Light -> BOOLEAN]
      BY DEF GameOutputInit, GameLightsInit
    <2>2. /\ toStore \in Seq([light : Light, on : BOOLEAN])
          /\ parsed \in Seq(Symbols) /\ Len(parsed) <= ParseBuffer /\ said \in Seq(Symbols)
      BY <2>1, GameLightsAssumption
    <2> QED
      BY <2>1, <2>2, LightsListed DEF GameOutputInit, GameLightsInit, GameLightsTypeOK
  <1>3. LightTestTypeOK
    <2>1. LightTestInit
      BY DEF GameOutputInit
    <2> QED
      <3>1. target = NONE /\ running = FALSE /\ ending = FALSE /\ clicks = 0
        BY <2>1 DEF LightTestInit
      <3>2. 0 \in 0..MaxClicks
        BY LightTestAssumption
      <3> QED
        BY <3>1, <3>2 DEF LightTestTypeOK
  <1> QED
    BY <1>1, <1>2, <1>3 DEF GameOutputInit, GameOutputTypeOK

LEMMA GameOutputTypeKept ==
  GameOutputTypeOK /\ [GameOutputNext]_gameOutputVars => GameOutputTypeOK'
  <1> SUFFICES ASSUME GameOutputTypeOK, [GameOutputNext]_gameOutputVars
               PROVE  GameOutputTypeOK'
    OBVIOUS
  <1>0. GameLightsTypeOK /\ LightTestTypeOK /\ OutputTypeOK /\ user \in {"game", "sabin", "test"}
    BY DEF GameOutputTypeOK
  <1>1. user' = user
    BY DEF GameOutputNext, gameOutputVars
  <1>2. GameLightsTypeOK' /\ LightTestTypeOK' /\ OutputTypeOK'
    BY <1>0, OutputTyped, LightsTyped, TestTyped
    DEF GameOutputNext, gameOutputVars, ManagerThreads
  <1> QED
    BY <1>0, <1>1, <1>2 DEF GameOutputTypeOK

(* Every variable of the lights keeps its type: no report is counted       *)
(* beyond its bound, no thread leaves its list, the serial parser's buffer *)
(* is not overrun (sabin_io_output.cpp:57).                                *)
THEOREM OutputTypes == GameOutputSpec => []GameOutputTypeOK
  BY GameOutputTyped, GameOutputTypeKept, PTL DEF GameOutputSpec

-----------------------------------------------------------------------------
(* The serial line of Sabin Sound Star *)

\* The parser's buffer is what the line ends in, as long as that may become a
\* command, and otherwise cannot become one. The one light the call in
\* progress has to store is the one the last command was for.
SerialInv ==
  /\ toStore = <<>> \/ \E l \in Light, on \in BOOLEAN : toStore = <<[light |-> l, on |-> on]>>
  /\ toStore # <<>> => toMark
  /\ said = <<>> \/ CommandStart(said)
  /\ said # <<>> => parsed = said
  /\ said = <<>> => ~CommandStart(parsed)
  /\ ~IsCommand(parsed)
  /\ asked = IF toStore = <<>> THEN lamp
             ELSE [lamp EXCEPT ![Head(toStore).light] = Head(toStore).on]

LEMMA SymbolsApart ==
  /\ "(" \notin Light \union Signs \union {")"} /\ ")" \notin Light \union Signs
  /\ Light \cap Signs = {}
  BY GameLightsAssumption DEF Signs

\* What may become a command does so symbol by symbol.
LEMMA CommandGrows ==
  ASSUME NEW q \in Seq(Symbols), NEW longer \in Seq(Symbols), NEW n \in Nat,
         n = Len(q), n >= 1, Len(longer) = n + 1,
         n >= 1 => longer[1] = q[1], n >= 2 => longer[2] = q[2], n >= 3 => longer[3] = q[3]
  PROVE  IsCommand(longer) \/ CommandStart(longer) => CommandStart(q)
  <1>1. IsCommand(longer) => CommandStart(q)
    BY DEF IsCommand, CommandStart
  <1>2. CommandStart(longer) => CommandStart(q)
    BY DEF CommandStart
  <1> QED
    BY <1>1, <1>2

\* A command is heard when it ends, and by the parser as well.
LEMMA CommandsHeard ==
  ASSUME GameLightsTypeOK, SerialInv, NEW c \in Symbols
  PROVE  /\ c = ")" => /\ Heard(c) = <<>> \/ IsCommand(Heard(c))
                       /\ IsCommand(Heard(c)) <=> IsCommand(Appended(c))
                       /\ IsCommand(Heard(c)) => Appended(c) = Heard(c)
         /\ c # ")" => /\ Heard(c) = <<>> \/ CommandStart(Heard(c))
                       /\ ~IsCommand(Heard(c)) /\ ~IsCommand(Appended(c))
                       /\ Heard(c) # <<>> => Appended(c) = Heard(c)
                       /\ Heard(c) = <<>> => ~CommandStart(Appended(c))
  <1> DEFINE h == Heard(c)
             a == Appended(c)
  <1>0. /\ said \in Seq(Symbols) /\ parsed \in Seq(Symbols) /\ ParseBuffer \in Nat /\ ParseBuffer >= 4
        /\ said = <<>> \/ CommandStart(said)
        /\ said # <<>> => parsed = said
        /\ said = <<>> => ~CommandStart(parsed)
        /\ ~IsCommand(parsed)
    BY GameLightsAssumption DEF GameLightsTypeOK, SerialInv
  <1>1. CASE c = "("
    <2>1. h = <<"(">> /\ a = <<"(">>
      BY <1>1 DEF Heard, Appended
    <2>2. CommandStart(<<"(">>) /\ ~IsCommand(<<"(">>) /\ <<"(">> # <<>>
      BY DEF CommandStart, IsCommand
    <2> HIDE DEF h, a
    <2> QED
      BY <1>1, <2>1, <2>2 DEF h, a
  <1>2. CASE c # "(" /\ said = <<>>
    <2>1. h = <<>>
      <3>1. Append(said, c) = <<c>>
        BY <1>2
      <3>2. ~CommandStart(<<c>>) /\ ~IsCommand(<<c>>)
        BY <1>2 DEF CommandStart, IsCommand
      <3> QED
        BY <1>2, <3>1, <3>2 DEF Heard
    <2>2. ~IsCommand(<<>>)
      BY DEF IsCommand
    <2>3. ~IsCommand(a) /\ ~CommandStart(a)
      <3>1. CASE a = parsed
        BY <1>0, <1>2, <3>1
      <3>2. CASE parsed # <<>> /\ a = Append(parsed, c)
        <4>1. PICK n \in Nat : n = Len(parsed) /\ n >= 1
          BY <1>0, <3>2
        <4>2. /\ a \in Seq(Symbols) /\ Len(a) = n + 1
              /\ n >= 1 => a[1] = parsed[1]
              /\ n >= 2 => a[2] = parsed[2]
              /\ n >= 3 => a[3] = parsed[3]
          BY <1>0, <3>2, <4>1
        <4> HIDE DEF a
        <4>3. ~IsCommand(a) /\ ~CommandStart(a)
          BY <1>0, <1>2, <4>1, <4>2, CommandGrows
        <4> QED
          BY <4>3
      <3> QED
        BY <1>2, <3>1, <3>2 DEF Appended
    <2> HIDE DEF h, a
    <2> QED
      BY <2>1, <2>2, <2>3 DEF h, a
  <1>3. CASE c # "(" /\ said # <<>>
    <2> DEFINE n == Len(said)
    <2>1. CommandStart(said) /\ parsed = said /\ said \in Seq(Symbols) /\ n \in 1..3
      BY <1>0, <1>3 DEF CommandStart
    <2>2. a = Append(said, c)
      <3>1. n < ParseBuffer
        <4> HIDE DEF n
        <4> QED
          BY <1>0, <2>1
      <3> QED
        BY <1>3, <2>1, <3>1 DEF Appended
    <2>4. /\ a \in Seq(Symbols) /\ Len(a) = n + 1 /\ a[n + 1] = c
          /\ \A i \in 1..n : a[i] = said[i]
      BY <1>0, <2>1, <2>2
    <2>5. ~IsCommand(<<>>)
      BY DEF IsCommand
    <2>6. h = IF CommandStart(a) \/ IsCommand(a) THEN a ELSE <<>>
      BY <1>3, <2>2 DEF Heard
    <2>7. (IsCommand(a) => c = ")") /\ (CommandStart(a) => c # ")")
      BY <2>1, <2>4, SymbolsApart DEF CommandStart, IsCommand
    <2>8. a # <<>>
      BY <2>1, <2>4
    <2> HIDE DEF h, a
    <2> QED
      BY <2>5, <2>6, <2>7, <2>8 DEF h, a
  <1> QED
    BY <1>1, <1>2, <1>3

LEMMA SerialInvKept ==
  GameOutputTypeOK /\ SerialInv /\ family = "SabinSS" /\ user = "sabin"
    /\ [GameOutputNext]_gameOutputVars => SerialInv'
  <1> SUFFICES ASSUME GameOutputTypeOK, SerialInv, family = "SabinSS", user = "sabin",
                      [GameOutputNext]_gameOutputVars
               PROVE  SerialInv'
    OBVIOUS
  <1>0. GameLightsTypeOK
    BY DEF GameOutputTypeOK
  <1>1. ASSUME NEW c \in Symbols, SerialSymbol(c)
        PROVE  SerialInv'
    <2> DEFINE h == Heard(c)
               a == Appended(c)
    <2>0. /\ toStore = <<>> /\ ~toMark /\ asked = lamp /\ lamp' = lamp
          /\ lamp \in [Light -> BOOLEAN]
      BY <1>0, <1>1 DEF SerialSymbol, Idle, SerialInv, GameLightsTypeOK
    <2>1. /\ said' = IF IsCommand(h) THEN <<>> ELSE h
          /\ asked' = IF IsCommand(h) THEN [asked EXCEPT ![h[2]] = (h[3] = "-")] ELSE asked
      BY <1>1 DEF SerialSymbol
    <2>2. CASE c # ")"
      <3>1. parsed' = a /\ UNCHANGED <<toStore, toMark>>
        BY <1>1, <2>2 DEF SerialSymbol
      <3>2. ~IsCommand(h) /\ ~IsCommand(a) /\ (h = <<>> \/ CommandStart(h))
            /\ (h # <<>> => a = h) /\ (h = <<>> => ~CommandStart(a))
        BY <1>0, <1>1, <2>2, CommandsHeard DEF h, a
      <3> HIDE DEF h, a
      <3> QED
        BY <2>0, <2>1, <3>1, <3>2 DEF SerialInv
    <2>3. CASE c = ")"
      <3>1. parsed' = <<>> /\ ProcessCommand(a)
        BY <1>1, <2>3 DEF SerialSymbol
      <3>2. (h = <<>> \/ IsCommand(h)) /\ (IsCommand(h) <=> IsCommand(a)) /\ (IsCommand(h) => a = h)
        BY <1>0, <1>1, <2>3, CommandsHeard
      <3>3. ~CommandStart(<<>>) /\ ~IsCommand(<<>>)
        BY DEF CommandStart, IsCommand
      <3> HIDE DEF h, a
      <3>4. CASE ~IsCommand(h)
        BY <2>0, <2>1, <3>1, <3>2, <3>3, <3>4 DEF SerialInv, ProcessCommand
      <3>5. CASE IsCommand(h)
        <4> DEFINE l == h[2]
                   on == h[3] = "-"
        <4>1. l \in Light /\ on \in BOOLEAN /\ said' = <<>> /\ asked' = [lamp EXCEPT ![l] = on]
          BY <2>0, <2>1, <3>5 DEF IsCommand
        <4>2. CASE lamp[l] # on
          <5>1. toStore' = <<[light |-> l, on |-> on]>> /\ toMark' = TRUE
            BY <3>1, <3>2, <3>5, <4>2 DEF ProcessCommand
          <5>2. toStore' # <<>> /\ Head(toStore') = [light |-> l, on |-> on]
            BY <5>1
          <5> HIDE DEF l, on
          <5>3. Head(toStore').light = l /\ Head(toStore').on = on
            BY <5>2
          <5>4. asked' = IF toStore' = <<>> THEN lamp'
                         ELSE [lamp' EXCEPT ![Head(toStore').light] = Head(toStore').on]
            BY <2>0, <4>1, <5>2, <5>3
          <5> QED
            BY <3>1, <3>3, <4>1, <5>1, <5>4 DEF SerialInv
        <4>3. CASE lamp[l] = on
          <5>1. UNCHANGED <<toStore, toMark>>
            BY <3>1, <3>2, <3>5, <4>3 DEF ProcessCommand
          <5>2. asked' = lamp
            BY <2>0, <4>1, <4>3
          <5> HIDE DEF l, on
          <5> QED
            BY <2>0, <3>1, <3>3, <4>1, <5>1, <5>2 DEF SerialInv
        <4> QED
          BY <4>2, <4>3
      <3> QED
        BY <3>4, <3>5
    <2> QED
      BY <2>2, <2>3
  <1>2. CASE ApplyLight
    <2>1. PICK l \in Light, on \in BOOLEAN : toStore = <<[light |-> l, on |-> on]>>
      BY <1>2 DEF ApplyLight, SerialInv
    <2>2. Head(toStore) = [light |-> l, on |-> on] /\ Tail(toStore) = <<>> /\ toStore # <<>>
      BY <2>1
    <2>3. Head(toStore).light = l /\ Head(toStore).on = on
      BY <2>2
    <2>4. toStore' = <<>> /\ lamp' = [lamp EXCEPT ![l] = on] /\ asked = lamp'
      BY <1>2, <2>2, <2>3 DEF ApplyLight, SerialInv
    <2> QED
      BY <1>2, <2>4 DEF ApplyLight, SerialInv, serialVars
  <1>3. CASE MarkDirty
    BY <1>3 DEF MarkDirty, SerialInv, serialVars
  <1>4. CASE UNCHANGED lightVars
    BY <1>4 DEF SerialInv, lightVars, lampVars, serialVars
  <1>5. family \notin PortFamilies
    BY GameLightsAssumption
  <1> QED
    BY <1>1, <1>2, <1>3, <1>4, <1>5
    DEF GameOutputNext, gameOutputVars, GameThread, GameCall, ManagerThreads

LEMMA SerialInvInit == GameOutputInit => SerialInv
  <1> SUFFICES ASSUME GameOutputInit PROVE SerialInv
    OBVIOUS
  <1>1. /\ toStore = <<>> /\ said = <<>> /\ parsed = <<>>
        /\ lamp = [l \in Light |-> FALSE] /\ asked = [l \in Light |-> FALSE]
    BY DEF GameOutputInit, GameLightsInit
  <1> QED
    BY <1>1 DEF SerialInv, CommandStart, IsCommand

(* However the game divides its output, and whatever else is on the line:  *)
(* between two calls every lamp is as the last whole command for it said   *)
(* (sabin_io_output.cpp: onSerialWrite, processCommand).                   *)
THEOREM CommandsArrive == GameOutputSpec => []SerialCommandsArrive
  <1> DEFINE OnLine == /\ GameOutputTypeOK
                       /\ (family = "SabinSS") = (user = "sabin")
                       /\ user = "sabin" => SerialInv
  <1>1. GameOutputInit => OnLine
    <2> SUFFICES ASSUME GameOutputInit PROVE (family = "SabinSS") = (user = "sabin")
      BY GameOutputTyped, SerialInvInit
    <2>1. /\ user = "game" => family \in PortFamilies
          /\ user = "sabin" => family = "SabinSS"
          /\ user = "test" => family = "none"
      BY DEF GameOutputInit
    <2>2. user \in {"game", "sabin", "test"}
      BY DEF GameOutputInit
    <2> QED
      BY <2>1, <2>2, GameLightsAssumption
  <1>2. OnLine /\ [GameOutputNext]_gameOutputVars => OnLine'
    <2> SUFFICES ASSUME OnLine, [GameOutputNext]_gameOutputVars PROVE OnLine'
      OBVIOUS
    <2>1. UNCHANGED <<user, family>>
      <3>1. GameThread => UNCHANGED family
        BY DEF GameThread, GameCall, GameWrites, SerialSymbol, ApplyLight, MarkDirty
      <3>2. LightThread => UNCHANGED family
        BY DEF LightThread, SeesDirty, ClearsDirty, SetsLight, lightVars
      <3> QED
        BY <3>1, <3>2 DEF GameOutputNext, gameOutputVars, lightVars, ManagerThreads
    <2> QED
      BY <2>1, GameOutputTypeKept, SerialInvKept
  <1>3. OnLine => SerialCommandsArrive
    BY DEF SerialInv, SerialCommandsArrive, Idle
  <1> HIDE DEF OnLine
  <1> QED
    BY <1>1, <1>2, <1>3, PTL DEF GameOutputSpec
=============================================================================
