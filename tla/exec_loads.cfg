SPECIFICATION Spec
CONSTANTS
  Code <- AllCode
  Contents <- AllContents
  Beginnings <- LoadBeginnings
  Pins = {64}
PROPERTY AllIterations
