---------------------------- MODULE MCGameOutput ----------------------------
(* The game writes one port, whose two lights lie on different outputs of  *)
(* one device.  A light in between has no binding, and a second device has *)
(* no light bound to it, unless a test lights it.                          *)
EXTENDS GameOutput

MCDevices == <<"lamps", "pad">>
MCLights == <<"red", "blue", "neon">>
MCLightPorts == [f \in {"EZ2DJ", "EZ2Dancer"} |->
                   [p \in {256} |-> IF f = "EZ2DJ" THEN <<"red", "neon">> ELSE <<"red">>]]
MCLightBinding == [l \in {"red", "neon"} |-> <<"lamps", IF l = "red" THEN 1 ELSE 2>>]
=============================================================================
