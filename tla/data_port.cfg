SPECIFICATION DataSpec
CONSTANTS
  Offs = 16
  Para = 8
  Phys = 16
  Words = {"q"}
  Requests <- DataRequests
  Targets = {0}
  SegmentValues <- CodeSegments
  ResetPs = 1
  Consumable = {}
  Locks = {FALSE}
  Interrupts = FALSE
  Resets = TRUE
INVARIANT ReadFresh
PROPERTIES PortSpec StrobeStable
