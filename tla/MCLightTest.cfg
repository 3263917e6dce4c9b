CONSTANTS
  Devices <- MCDevices
  Outputs <- OneOutput
  NONE = NONE
  MaxFailures = 0
  MaxClicks = 1
SPECIFICATION LightTestSpec
PROPERTY
  TestedLightGoesDark
