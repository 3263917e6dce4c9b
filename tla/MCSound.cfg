CONSTANTS
  Length = 6
  Period = 4
  MaxCalls = 5
  MaxTurns = 3
  MaxFills = 4
  Interface = {buffer, copy}
  Original = buffer
  Sounds <- MCSounds
  System <- MCSystem
  Datum = {silence, a, b}
  Silence = silence
  Fader = {default, low, high}
  Default = default
SPECIFICATION SoundSpec
INVARIANTS
  SoundTypeOK
  StreamFollowsCommands
  RendersRight
  HeardIsWritten
  CursorBound
PROPERTIES
  PlayIsHeard
  SettlesOnLastCommand
  EqSettles
