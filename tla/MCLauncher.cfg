SPECIFICATION LauncherSpec
CONSTANTS
  Games <- MCGames
  FamilyOf <- MCFamilyOf
  Sites <- MCSites
  Defined <- MCDefined
  Bundled <- MCBundled
  UserPatches <- MCUserPatches
  Lacking <- MCLacking
  Pids = {4}
  MaxEdits = 2
  MaxCrashes = 1
  Patience = 1
  MaxProcesses = 1
  ButtonCount <- MCButtonCount
  Controls <- MCControls
  LampDevices = {"lamps"}
  Outlets = {0, 1}
  Steps = {7}
  Sensitivities = {7}
  Stored <- MCStored
  MaxClicks = 2
INVARIANTS
  LauncherTypeOK
  ReadsOneSave
  ImageIsChosen
  DllIsNotLate
  SettingsHoldBindings
  MouseFollowsBinding
PROPERTIES
  BoundWasDown
\* A game runs no further once it is through.
CHECK_DEADLOCK FALSE
