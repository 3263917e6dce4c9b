---------------------------- MODULE BindingEditor ----------------------------
(***************************************************************************)
(* The launcher's Buttons, Analogs and Lights tabs (main.cpp), the         *)
(* bindings they edit and save (bindings.cpp), and the capture of a button *)
(* by the input manager (input_manager.cpp).                               *)
(*                                                                         *)
(* The user interface draws one frame after another on its own thread.     *)
(* The pump thread handles a report of the controller in steps, between    *)
(* which the user interface may start, stop or poll the capture.  Keys are *)
(* polled by the user interface: here one is found, or none is.            *)
(*                                                                         *)
(* All devices stay connected.  One turntable and, per family, one light   *)
(* stand for all: they are edited alike.                                   *)
(***************************************************************************)
EXTENDS Integers

CONSTANTS
  ButtonCount,      \* ButtonCount[f]: how many buttons a game of family f has
  Controls,    \* what the controller has to press: [hats, buttons]
  LampDevices, \* devices with outputs, of which each has Outlets
  Outlets,
  Steps, Sensitivities,  \* what the sliders are set to
  Stored,      \* turntable bindings the launcher may find in the settings
  MaxClicks     \* bound: clicks of the user

Families == DOMAIN ButtonCount
ButtonRows == UNION {{f} \X (1..ButtonCount[f]) : f \in Families}
Control == Controls.hats \union Controls.buttons
Unset == "unset"
Key == "key"
Binding == Control \union {Unset, Key}

\* What a turntable's binding may be: a mouse and its axis are there together.
AnalogBindings ==
  {a \in [device : {Unset, "pad"}, axis : Int, reverse : BOOLEAN, minus : Binding, plus : Binding,
          step : 1..20, mouse : {Unset, "mouse"}, mouseAxis : Int, sensitivity : 1..20] :
     IF a.mouse = Unset THEN a.mouseAxis = -1 ELSE a.mouseAxis >= 0}

ASSUME EditorAssumption ==
  /\ \A f \in Families : ButtonCount[f] \in 1..10
  /\ {Unset, Key} \cap Control = {}
  /\ Unset \notin LampDevices /\ Outlets \subseteq Nat /\ 0 \in Outlets
  /\ Steps \subseteq 1..20 /\ Sensitivities \subseteq 1..20
  /\ Stored \subseteq AnalogBindings
  /\ MaxClicks \in Nat

VARIABLES
  chosenFamily, \* g_app.family
  tab,          \* the tab shown, or the popup that covers it
  uiPc, row,    \* what the frame is doing; the row it draws
  clicked,      \* the mouse has been clicked in this frame
  clicks,        \* history: clicks so far
  listening,    \* s_state
  wasListening, \* s_prevState
  listenRow,    \* s_listenIdx, 0 for none
  vttListening, \* s_capturingVtt: Unset, "minus" or "plus"
  buttons, analog, lights,   \* the BindingStore
  selected,     \* s_lightDevIdx, s_lightOutIdx
  saved,        \* the settings' bindings
  mouseBinding, \* mouseBindings of the input manager
  captureMode, captureResult,  \* Unset when no result is ready
  prevStates,   \* prevButtonStates, prevHatStates
  padStates,    \* buttonStates, valueStates
  padPc,        \* the pump thread in handleWmInput
  heardDown     \* history: what was down at some time since startCapture

uiVars == <<tab, uiPc, row, clicked, clicks, listening, wasListening, listenRow, vttListening>>
storeVars == <<buttons, analog, lights, selected, saved, mouseBinding>>
captureVars == <<captureMode, captureResult, prevStates, heardDown>>
padVars == <<padStates, padPc>>
editorVars == <<chosenFamily, uiVars, storeVars, captureVars, padVars>>

-----------------------------------------------------------------------------
(* Bindings and their form in the settings *)

NoAnalog == [device |-> Unset, axis |-> -1, reverse |-> FALSE, minus |-> Unset, plus |-> Unset,
             step |-> 3, mouse |-> Unset, mouseAxis |-> -1, sensitivity |-> 5]
NoLight == [device |-> Unset, output |-> -1]

HasMouse(a) == a.mouseAxis >= 0 /\ a.mouse # Unset
AnalogSet(a) == (a.device # Unset /\ a.axis >= 0) \/ HasMouse(a)
HasVtt(a) == a.plus # Unset \/ a.minus # Unset

\* The control is the button's or hat's index and the hat's direction.
ButtonToJson(b) ==
  IF b = Key THEN [type |-> "Keyboard"] ELSE [type |-> "HidButton", control |-> b]

ButtonFromJson(j) == IF j.type = "Keyboard" THEN Key ELSE j.control

VttToJson(a) ==
  [plus |-> ButtonToJson(a.plus), minus |-> ButtonToJson(a.minus), step |-> a.step]

MouseToJson(a) == [device_path |-> a.mouse, axis |-> a.mouseAxis, sensitivity |-> a.sensitivity]

\* A block that may be left out is a set of at most one.
\* Mutant: keys are saved when there are two.
AnalogToJsonBothKeys(a) ==
  [device_path |-> a.device, axis_idx |-> a.axis, reverse |-> a.reverse,
   vtt   |-> IF a.plus # Unset /\ a.minus # Unset THEN {VttToJson(a)} ELSE {},
   mouse |-> IF HasMouse(a) THEN {MouseToJson(a)} ELSE {}]

AnalogToJson(a) ==
  [device_path |-> a.device, axis_idx |-> a.axis, reverse |-> a.reverse,
   vtt   |-> IF HasVtt(a) THEN {VttToJson(a)} ELSE {},
   mouse |-> IF HasMouse(a) THEN {MouseToJson(a)} ELSE {}]

\* The block in s, or what the fields of an absent one are taken to be.
Block(s, default) == IF s = {} THEN default ELSE CHOOSE block \in s : TRUE

AnalogFromJson(j) ==
  LET vtt == Block(j.vtt, VttToJson(NoAnalog))
      mouse == Block(j.mouse, MouseToJson(NoAnalog))
  IN  [device |-> j.device_path, axis |-> j.axis_idx, reverse |-> j.reverse,
       minus |-> ButtonFromJson(vtt.minus), plus |-> ButtonFromJson(vtt.plus), step |-> vtt.step,
       mouse |-> mouse.device_path, mouseAxis |-> mouse.axis,
       sensitivity |-> mouse.sensitivity]

\* save: what is not set is left out.
ToJson(b, a, l) ==
  [buttons |-> [r \in {r \in ButtonRows : b[r] # Unset} |-> ButtonToJson(b[r])],
   analog  |-> IF AnalogSet(a) \/ HasVtt(a) THEN {AnalogToJson(a)} ELSE {},
   lights  |-> [f \in {f \in Families : l[f].device # Unset /\ l[f].output >= 0} |-> l[f]]]

\* load
FromJson(j) ==
  [buttons |-> [r \in ButtonRows |->
                 IF r \in DOMAIN j.buttons THEN ButtonFromJson(j.buttons[r]) ELSE Unset],
   analog  |-> AnalogFromJson(Block(j.analog, AnalogToJson(NoAnalog))),
   lights  |-> [f \in Families |-> IF f \in DOMAIN j.lights THEN j.lights[f] ELSE NoLight]]

Save == saved' = ToJson(buttons', analog', lights')

EditorTypeOK ==
  /\ chosenFamily \in Families /\ clicks \in 0..MaxClicks
  /\ tab \in {"other", "buttons", "analogs", "editAnalog", "lights", "bindLight"}
  /\ uiPc \in {"top", "reset", "row", "poll", "wait", "vttReset", "vttStop"}
  /\ row \in 0..ButtonCount[chosenFamily] /\ listenRow \in 0..10
  /\ {clicked, listening, wasListening, captureMode} \subseteq BOOLEAN
  /\ vttListening \in {Unset, "minus", "plus"}
  /\ buttons \in [ButtonRows -> Binding] /\ analog \in AnalogBindings
  /\ captureResult \in Control \union {Unset}
  /\ prevStates \subseteq Control /\ padStates \subseteq Control /\ heardDown \subseteq Control
  /\ padPc \in {"idle", "stored", "buttons", "hats"}

EditorInit ==
  /\ chosenFamily \in Families
  /\ tab = "other" /\ uiPc = "top" /\ row = 0 /\ clicked = FALSE /\ clicks = 0
  /\ listening = FALSE /\ wasListening = FALSE /\ listenRow = 0 /\ vttListening = Unset
  /\ buttons = [r \in ButtonRows |-> Unset] /\ analog \in Stored
  /\ lights = [f \in Families |-> NoLight] /\ selected = NoLight
  /\ saved = ToJson(buttons, analog, lights)
  /\ mouseBinding = IF HasMouse(analog)
                    THEN [mouse |-> analog.mouse, axis |-> analog.mouseAxis,
                          sensitivity |-> analog.sensitivity]
                    ELSE [mouse |-> Unset, axis |-> -1, sensitivity |-> 5]
  /\ captureMode = FALSE /\ captureResult = Unset
  /\ prevStates = {} /\ padStates = {} /\ padPc = "idle" /\ heardDown = {}

-----------------------------------------------------------------------------
(* The pump thread: handleWmInput *)

PadReports ==
  /\ padPc = "idle"
  /\ padStates' \in SUBSET Control
  /\ heardDown' = heardDown \union padStates'
  /\ padPc' = "stored"
  /\ UNCHANGED <<chosenFamily, uiVars, storeVars, captureMode, captureResult, prevStates>>

LooksForCapture ==
  /\ padPc = "stored"
  /\ padPc' = IF captureMode /\ captureResult = Unset THEN "buttons" ELSE "idle"
  /\ UNCHANGED <<chosenFamily, uiVars, storeVars, captureVars, padStates>>

\* The first of the controls that was not down becomes the result, if there is
\* none; the mode is not looked at again.
Captures(controls) ==
  LET fresh == (padStates \ prevStates) \cap controls IN
  IF fresh # {} /\ captureResult = Unset THEN captureResult' \in fresh
                                        ELSE UNCHANGED captureResult

CapturesButton ==
  /\ padPc = "buttons"
  /\ Captures(Controls.buttons)
  /\ prevStates' = (prevStates \ Controls.buttons) \union (padStates \cap Controls.buttons)
  /\ padPc' = "hats"
  /\ UNCHANGED <<chosenFamily, uiVars, storeVars, captureMode, heardDown, padStates>>

\* Hats are looked at while there is no result; the one that is captured is not
\* noted in prevHatStates.
CapturesHat ==
  LET fresh == (padStates \ prevStates) \cap Controls.hats IN
  /\ padPc = "hats"
  /\ IF captureResult = Unset /\ fresh # {}
     THEN captureResult' \in fresh /\ UNCHANGED prevStates
     ELSE /\ prevStates' = IF captureResult = Unset
                           THEN (prevStates \ Controls.hats) \union (padStates \cap Controls.hats)
                           ELSE prevStates
          /\ UNCHANGED captureResult
  /\ padPc' = "idle"
  /\ UNCHANGED <<chosenFamily, uiVars, storeVars, captureMode, heardDown, padStates>>

PadThread == LooksForCapture \/ CapturesButton \/ CapturesHat

-----------------------------------------------------------------------------
(* The input manager, called by the user interface *)

\* Mutant: a result that is left over stays.
StartsCaptureKeeping ==
  /\ captureMode' = TRUE
  /\ heardDown' = padStates
  /\ UNCHANGED <<captureResult, prevStates>>

\* startCapture up to its first unlock ...
StartsCapture ==
  /\ captureMode' = TRUE /\ captureResult' = Unset
  /\ heardDown' = padStates
  /\ UNCHANGED prevStates

\* ... and the rest.
ForgetsStates ==
  /\ prevStates' = {}
  /\ UNCHANGED <<captureMode, captureResult, heardDown>>

StopCapture ==
  /\ captureMode' = FALSE /\ captureResult' = Unset
  /\ UNCHANGED <<prevStates, heardDown>>

TakesResult ==
  /\ captureResult # Unset
  /\ captureResult' = Unset
  /\ UNCHANGED <<captureMode, prevStates, heardDown>>

SetMouseBinding(mouse, axis, sensitivity) ==
  mouseBinding' = [mouse |-> mouse, axis |-> axis, sensitivity |-> sensitivity]

-----------------------------------------------------------------------------
(* Frames *)

\* At most one click in a frame.
Click ==
  /\ clicks < MaxClicks /\ clicks' = clicks + 1
  /\ IF uiPc = "top" THEN UNCHANGED clicked ELSE ~clicked /\ clicked' = TRUE

ShowTab(t) ==
  /\ uiPc = "top" /\ tab \in {"other", "buttons", "analogs", "lights"} \ {t}
  /\ t = "analogs" => chosenFamily = "EZ2DJ"
  /\ tab' = t
  /\ UNCHANGED <<chosenFamily, uiPc, row, clicked, clicks, listening, wasListening, listenRow,
                 vttListening, storeVars, captureVars, padVars>>

\* selectGame, on the Settings tab.
ChooseFamily(f) ==
  /\ uiPc = "top" /\ tab = "other"
  /\ Click /\ chosenFamily' = f /\ f # chosenFamily
  /\ UNCHANGED <<tab, uiPc, row, listening, wasListening, listenRow, vttListening,
                 storeVars, captureVars, padVars>>

-----------------------------------------------------------------------------
(* renderButtonsTab *)

ThisRow == <<chosenFamily, row>>

FrameStarts ==
  /\ uiPc = "top" /\ tab = "buttons"
  /\ IF listening = wasListening THEN uiPc' = "row" /\ UNCHANGED captureVars
     ELSE IF listening THEN uiPc' = "reset" /\ StartsCapture
     ELSE uiPc' = "row" /\ StopCapture
  /\ wasListening' = listening
  /\ row' = 1 /\ clicked' = FALSE
  /\ UNCHANGED <<chosenFamily, tab, clicks, listening, listenRow, vttListening, storeVars, padVars>>

FrameResets ==
  /\ uiPc = "reset"
  /\ ForgetsStates
  /\ uiPc' = "row"
  /\ UNCHANGED <<chosenFamily, tab, row, clicked, clicks, listening, wasListening, listenRow,
                 vttListening, storeVars, padVars>>

NextRow ==
  IF row < ButtonCount[chosenFamily] THEN row' = row + 1 /\ uiPc' = "row"
                                ELSE row' = 0 /\ uiPc' = "top"

ListeningHere == listening /\ listenRow = row

DrawsRow ==
  /\ uiPc = "row"
  /\ IF ListeningHere THEN uiPc' = "poll" /\ UNCHANGED row ELSE NextRow
  /\ UNCHANGED <<chosenFamily, tab, clicked, clicks, listening, wasListening, listenRow,
                 vttListening, storeVars, captureVars, padVars>>

ClicksBind ==
  /\ uiPc = "row" /\ ~ListeningHere
  /\ Click /\ NextRow
  /\ listening' = TRUE /\ listenRow' = row
  /\ UNCHANGED <<chosenFamily, tab, wasListening, vttListening, storeVars, captureVars, padVars>>

ClicksClear ==
  /\ uiPc = "row" /\ ~ListeningHere /\ buttons[ThisRow] # Unset
  /\ Click /\ NextRow
  /\ buttons' = [buttons EXCEPT ![ThisRow] = Unset]
  /\ UNCHANGED <<analog, lights, selected, mouseBinding>> /\ Save
  /\ UNCHANGED <<chosenFamily, tab, listening, wasListening, listenRow, vttListening,
                 captureVars, padVars>>

\* What follows in the frame polls all the same.
ClicksCancel ==
  /\ uiPc = "row" /\ ListeningHere
  /\ Click
  /\ StopCapture
  /\ listening' = FALSE /\ listenRow' = 0
  /\ uiPc' = "poll"
  /\ UNCHANGED <<chosenFamily, tab, row, wasListening, vttListening, storeVars, padVars>>

BindRow(b) ==
  /\ buttons' = [buttons EXCEPT ![ThisRow] = b]
  /\ UNCHANGED <<analog, lights, selected, mouseBinding>> /\ Save
  /\ listening' = FALSE /\ listenRow' = 0

PollsCapture ==
  /\ uiPc = "poll"
  /\ uiPc' = "wait"
  /\ IF captureResult # Unset
     THEN BindRow(captureResult) /\ TakesResult
     ELSE UNCHANGED <<listening, listenRow, storeVars, captureVars>>
  /\ UNCHANGED <<chosenFamily, tab, row, clicked, clicks, wasListening, vttListening, padVars>>

\* A key goes down, the time is over, or neither.
FindsKey ==
  /\ uiPc = "wait" /\ listening
  /\ BindRow(Key) /\ StopCapture /\ NextRow
  /\ UNCHANGED <<chosenFamily, tab, clicked, clicks, wasListening, vttListening, padVars>>

ListenTimeout ==
  /\ uiPc = "wait"
  /\ StopCapture /\ NextRow
  /\ listening' = FALSE
  /\ UNCHANGED <<chosenFamily, tab, clicked, clicks, wasListening, listenRow, vttListening,
                 storeVars, padVars>>

ListensOn ==
  /\ uiPc = "wait"
  /\ NextRow
  /\ UNCHANGED <<chosenFamily, tab, clicked, clicks, listening, wasListening, listenRow,
                 vttListening, storeVars, captureVars, padVars>>

ButtonsTab ==
  \/ FrameStarts \/ FrameResets \/ DrawsRow \/ ClicksBind \/ ClicksClear \/ ClicksCancel
  \/ PollsCapture \/ FindsKey \/ ListenTimeout \/ ListensOn

-----------------------------------------------------------------------------
(* renderAnalogsTab and its popup *)

\* One click at the top of a frame that clicks the turntable.
EditAnalog(a) ==
  /\ uiPc = "top" /\ Click
  /\ analog' = a
  /\ UNCHANGED <<buttons, lights, selected>> /\ Save
  /\ UNCHANGED <<chosenFamily, uiPc, row, listening, wasListening, listenRow, vttListening,
                 captureVars, padVars>>

\* Mutant: the input manager is not told.
ClearAnalogAlone ==
  /\ tab = "analogs" /\ (AnalogSet(analog) \/ HasVtt(analog))
  /\ EditAnalog(NoAnalog)
  /\ UNCHANGED <<tab, mouseBinding>>

ClearAnalog ==
  /\ tab = "analogs" /\ (AnalogSet(analog) \/ HasVtt(analog))
  /\ EditAnalog(NoAnalog)
  /\ SetMouseBinding(Unset, -1, 5)
  /\ UNCHANGED tab

SelectDevice(d) ==
  /\ tab = "editAnalog"
  /\ EditAnalog([analog EXCEPT !.device = IF d = "pad" THEN d ELSE Unset,
                               !.axis = IF d = "pad" THEN 0 ELSE -1,
                               !.mouse = IF d = "mouse" THEN d ELSE Unset,
                               !.mouseAxis = IF d = "mouse" THEN 0 ELSE -1])
  /\ IF d = "mouse" THEN SetMouseBinding(d, 0, analog.sensitivity)
                    ELSE SetMouseBinding(Unset, -1, 5)
  /\ UNCHANGED tab

SelectAxis(i) ==
  /\ tab = "editAnalog"
  /\ \/ HasMouse(analog) /\ EditAnalog([analog EXCEPT !.mouseAxis = i])
        /\ SetMouseBinding(analog.mouse, i, analog.sensitivity)
     \/ ~HasMouse(analog) /\ AnalogSet(analog) /\ EditAnalog([analog EXCEPT !.axis = i])
        /\ UNCHANGED mouseBinding
  /\ UNCHANGED tab

SetSensitivity(s) ==
  /\ tab = "editAnalog" /\ HasMouse(analog)
  /\ EditAnalog([analog EXCEPT !.sensitivity = s])
  /\ SetMouseBinding(analog.mouse, analog.mouseAxis, s)
  /\ UNCHANGED tab

SetReverseOrStep ==
  /\ tab = "editAnalog"
  /\ \/ EditAnalog([analog EXCEPT !.reverse = ~@])
     \/ \E s \in Steps : EditAnalog([analog EXCEPT !.step = s])
  /\ UNCHANGED <<tab, mouseBinding>>

VttClear(k) ==
  /\ tab = "editAnalog" /\ vttListening # k /\ analog[k] # Unset
  /\ EditAnalog([analog EXCEPT ![k] = Unset])
  /\ UNCHANGED <<tab, mouseBinding>>

\* startCapture; the other key's capture ends.
VttBind(k) ==
  /\ uiPc = "top" /\ tab = "editAnalog" /\ vttListening # k
  /\ Click
  /\ vttListening' = k
  /\ StartsCapture
  /\ uiPc' = "vttReset"
  /\ UNCHANGED <<chosenFamily, tab, row, listening, wasListening, listenRow, storeVars, padVars>>

VttResets ==
  /\ uiPc = "vttReset"
  /\ ForgetsStates
  /\ uiPc' = "top"
  /\ UNCHANGED <<chosenFamily, tab, row, clicked, clicks, listening, wasListening, listenRow,
                 vttListening, storeVars, padVars>>

\* renderVttKeyBind: a button was captured, or a key is found.
VttPolls(k) ==
  /\ uiPc = "top" /\ tab = "editAnalog" /\ vttListening = k
  /\ IF captureResult # Unset
     THEN analog' = [analog EXCEPT ![k] = captureResult] /\ TakesResult
     ELSE analog' = [analog EXCEPT ![k] = Key] /\ UNCHANGED captureVars
  /\ UNCHANGED <<buttons, lights, selected, mouseBinding>> /\ Save
  /\ uiPc' = "vttStop"
  /\ UNCHANGED <<chosenFamily, tab, row, clicked, clicks, listening, wasListening, listenRow,
                 vttListening, padVars>>

VttStops ==
  /\ uiPc = "vttStop"
  /\ StopCapture
  /\ vttListening' = Unset
  /\ uiPc' = "top"
  /\ UNCHANGED <<chosenFamily, tab, row, clicked, clicks, listening, wasListening, listenRow,
                 storeVars, padVars>>

OpenAnalog ==
  /\ uiPc = "top" /\ tab = "analogs"
  /\ tab' = "editAnalog"
  /\ UNCHANGED <<chosenFamily, uiPc, row, clicked, clicks, listening, wasListening, listenRow,
                 vttListening, storeVars, captureVars, padVars>>

CloseAnalog ==
  /\ uiPc = "top" /\ tab = "editAnalog"
  /\ tab' = "analogs"
  /\ IF vttListening # Unset THEN StopCapture /\ vttListening' = Unset
                            ELSE UNCHANGED <<captureVars, vttListening>>
  /\ UNCHANGED <<chosenFamily, uiPc, row, clicked, clicks, listening, wasListening, listenRow,
                 storeVars, padVars>>

AnalogsTab ==
  \/ ClearAnalog \/ \E d \in {Unset, "pad", "mouse"} : SelectDevice(d)
  \/ (\E i \in 0..1 : SelectAxis(i)) \/ (\E s \in Sensitivities : SetSensitivity(s))
  \/ SetReverseOrStep \/ VttResets \/ VttStops \/ OpenAnalog \/ CloseAnalog
  \/ \E k \in {"minus", "plus"} : VttBind(k) \/ VttClear(k) \/ VttPolls(k)

-----------------------------------------------------------------------------
(* renderLightsTab and its popup *)

EditLight(l) ==
  /\ uiPc = "top" /\ Click
  /\ lights' = [lights EXCEPT ![chosenFamily] = l]
  /\ UNCHANGED <<buttons, analog, mouseBinding>> /\ Save
  /\ UNCHANGED <<chosenFamily, uiPc, row, listening, wasListening, listenRow, vttListening,
                 captureVars, padVars>>

ClearLight ==
  /\ tab = "lights" /\ lights[chosenFamily] # NoLight
  /\ EditLight(NoLight)
  /\ UNCHANGED <<tab, selected>>

\* The popup begins with the light's binding.
OpenLight ==
  /\ uiPc = "top" /\ tab = "lights"
  /\ tab' = "bindLight"
  /\ selected' = lights[chosenFamily]
  /\ UNCHANGED <<chosenFamily, uiPc, row, clicked, clicks, listening, wasListening, listenRow,
                 vttListening, buttons, analog, lights, saved, mouseBinding, captureVars, padVars>>

\* Another device: its first output is selected for it, and bound.  With none
\* selected, the light keeps its binding.
SelectLamp(d) ==
  /\ tab = "bindLight" /\ d # selected.device
  /\ selected' = IF d = Unset THEN NoLight ELSE [device |-> d, output |-> 0]
  /\ EditLight(IF d = Unset THEN lights[chosenFamily] ELSE selected')
  /\ UNCHANGED tab

SelectOutlet(o) ==
  /\ tab = "bindLight" /\ selected.device # Unset /\ o # selected.output
  /\ selected' = [selected EXCEPT !.output = o]
  /\ EditLight(selected')
  /\ UNCHANGED tab

CloseLight ==
  /\ uiPc = "top" /\ tab = "bindLight"
  /\ tab' = "lights"
  /\ UNCHANGED <<chosenFamily, uiPc, row, clicked, clicks, listening, wasListening, listenRow,
                 vttListening, storeVars, captureVars, padVars>>

LightsTab ==
  \/ ClearLight \/ OpenLight \/ CloseLight
  \/ (\E d \in LampDevices \union {Unset} : SelectLamp(d)) \/ (\E o \in Outlets : SelectOutlet(o))

EditorNext ==
  \/ \E t \in {"other", "buttons", "analogs", "lights"} : ShowTab(t)
  \/ \E f \in Families : ChooseFamily(f)
  \/ ButtonsTab \/ AnalogsTab \/ LightsTab
  \/ PadReports \/ PadThread

-----------------------------------------------------------------------------
(* A button or a virtual turntable key is only ever bound to a control     *)
(* that was down at some time since the capture was started: no press from *)
(* an earlier capture, cancelled, timed out or overtaken by a key, is      *)
(* taken for the answer (input_manager.cpp: startCapture, handleWmInput).  *)
BoundWasDown ==
  [][ /\ \A r \in ButtonRows : buttons'[r] # buttons[r] /\ buttons'[r] \in Control
           => buttons'[r] \in heardDown
      /\ \A k \in {"minus", "plus"} : analog'[k] # analog[k] /\ analog'[k] \in Control
           => analog'[k] \in heardDown ]_editorVars

(* The launcher's next start, and the game, load the bindings as they are  *)
(* now: after every edit, whatever can be felt of them is in the settings. *)
(* (The step of absent keys and the sensitivity of an absent mouse are     *)
(* not, nor is the direction of a turntable with neither.)                 *)
Felt(a) ==
  IF ~(AnalogSet(a) \/ HasVtt(a)) THEN NoAnalog
  ELSE [a EXCEPT !.step = IF HasVtt(a) THEN @ ELSE NoAnalog.step,
                 !.sensitivity = IF HasMouse(a) THEN @ ELSE NoAnalog.sensitivity]

SettingsHoldBindings ==
  FromJson(saved) = [buttons |-> buttons, analog |-> Felt(analog), lights |-> lights]

(* The input manager moves the turntable by the mouse the binding names,   *)
(* and by none when it names none (main.cpp: setMouseBinding's callers).   *)
MouseFollowsBinding ==
  IF HasMouse(analog)
  THEN mouseBinding = [mouse |-> analog.mouse, axis |-> analog.mouseAxis,
                       sensitivity |-> analog.sensitivity]
  ELSE mouseBinding.axis = -1

=============================================================================
