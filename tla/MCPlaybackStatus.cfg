CONSTANTS
  Length = 3
  Period = 2
  MaxCalls = 5
SPECIFICATION Spec
PROPERTY
  StatusIsUpToDate
