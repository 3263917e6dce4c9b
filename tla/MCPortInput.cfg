CONSTANTS
  HidDevices <- MCHidDevices
  Setups <- MCSetups
  MaxPresses = 2
SPECIFICATION PortInputSpec
INVARIANTS
  OneCoinPerPress
\* A NULL callback argument kills the process.
CHECK_DEADLOCK FALSE
