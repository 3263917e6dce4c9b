---------------------------- MODULE MCLightTest ----------------------------
(* A single output is enough for a lost report.                            *)
EXTENDS LightTest

MCDevices == <<"lamps">>
OneOutput == {1}
=============================================================================
