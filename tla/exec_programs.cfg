SPECIFICATION Spec
CONSTANTS
  Code <- AllCode
  Contents <- AllContents
  Beginnings <- AllBeginnings
  Pins = {64}
PROPERTIES ArchitectureSpec PortContract
