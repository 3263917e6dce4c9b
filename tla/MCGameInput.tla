----------------------------- MODULE MCGameInput -----------------------------
EXTENDS GameInput

MCHidDevices == {"pad"}

\* Three players: one whose cabinet is wired to a keyboard, with no HID device
\* to report anything; one with a controller; and one on a dance platform,
\* whose sensors are wired to a keyboard.
Keyboard == [connected |-> {}, source |-> [c \in {"system", "coin"} |-> "keyboard"]]
Pad == [connected |-> {"pad"}, source |-> [c \in {"coin", "p1"} |-> "pad"]]
Platform == [connected |-> {"pad"},
             source |-> [c \in {"pads1", "sensors"} |->
                           IF c = "sensors" THEN "keyboard" ELSE "pad"]]
MCSetups == {Keyboard, Pad, Platform}

MCButtons == <<"S1", "Coin">>

Wiring(kind, reverse, sensitivity) ==
  [kind |-> kind, reverse |-> reverse, sensitivity |-> sensitivity, step |-> 20]
MCWirings == {Wiring("mouse", TRUE, 18), Wiring("axis", FALSE, 5), Wiring("unset", FALSE, 5)}
\* A sweep below zero, and a move too small to show.
MCMouseCounts == {-322, 3}
\* The device reports more than it declares.
MCAxisValues == {0, 300}
MCAxisRange == <<0, 255>>
=============================================================================
