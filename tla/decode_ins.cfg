SPECIFICATION Spec
CONSTANTS
  Offs = 16
  Para = 8
  Phys = 16
  Streams <- BitFields
INVARIANT InsRegReg
