----------------------------- MODULE MCPortInput -----------------------------
(* A controller with a coin button.                                        *)
EXTENDS PortInput

MCHidDevices == {"pad"}

\* One control is stored before the coin and one after it.
Pad == [connected |-> {"pad"},
        source |-> [c \in {"system", "coin", "p1"} |->
                      IF c = "system" THEN "keyboard" ELSE "pad"]]

MCSetups == {Pad}
=============================================================================
