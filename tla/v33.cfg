SPECIFICATION LiveSpec
CONSTANTS
  Code <- AllCode
  Contents <- AllContents
  Beginnings <- AllBeginnings
  Pins = {64}
INVARIANT LockHeld
PROPERTIES ArchitectureSpec Progress
