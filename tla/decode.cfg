SPECIFICATION Spec
CONSTANTS
  Offs = 16
  Para = 8
  Phys = 16
  Streams <- AllStreams
INVARIANTS OwnFields OwnOperands MemoryFlags Served
PROPERTIES Unambiguous ValidHeld InOrder
