SPECIFICATION LauncherSpec
CONSTANTS
  Games <- MCGames
  FamilyOf <- MCFamilyOf
  Sites = {"a"}
  Defined = {}
  Bundled <- MCUnpatched
  UserPatches <- MCNoPatches
  Lacking = {}
  Pids <- MCPids
  MaxEdits = 0
  MaxCrashes = 0
  Patience = 1
  MaxProcesses = 3
  ButtonCount <- MCButtonCount
  Controls <- MCControls
  LampDevices = {"lamps"}
  Outlets = {0, 1}
  Steps = {7}
  Sensitivities = {7}
  Stored <- MCStored
  MaxClicks = 0
INVARIANTS
  InjectedOnce
PROPERTIES
  GameIsFollowed
\* A game runs no further once it is through.
CHECK_DEADLOCK FALSE
