SPECIFICATION GameInputSpec
CONSTANTS
  HidDevices <- MCHidDevices
  Setups <- MCSetups
  MaxPresses = 2
  Buttons <- MCButtons
  Service = {"Coin"}
  RingSize = 6
  Wirings <- MCWirings
  MouseCounts <- MCMouseCounts
  AxisValues <- MCAxisValues
  AxisRange <- MCAxisRange
  MaxReports = 1
  MaxSteps = 1
INVARIANTS
  GameInputTypeOK
  OneCoinPerPressAlone
  RingTellsAll
PROPERTIES
  PressIsCreditedAlone
  PortsSettle
  TurntableFollows
  ButtonsReachGame
\* A NULL callback argument kills the process; a full ring ends the claims.
CHECK_DEADLOCK FALSE
