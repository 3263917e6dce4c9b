SPECIFICATION GameOutputSpec
CONSTANTS
  Devices <- MCDevices
  Outputs = {1, 2}
  Lights <- MCLights
  LightPorts <- MCLightPorts
  LightBinding <- MCLightBinding
  ParseBuffer = 4
  MaxFailures = 1
  MaxClicks = 2
  NONE = NONE
INVARIANTS
  GameOutputTypeOK
  NoLostUpdate
  SerialCommandsArrive
PROPERTIES
  LampsReachDevices
\* A light test that is over is not begun again for ever.
CHECK_DEADLOCK FALSE
