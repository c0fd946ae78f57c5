SPECIFICATION Spec
CONSTANTS
  Offs = 16
  Para = 8
  Phys = 32
  Words = {"p"}
  Requests <- NoRequests
  Targets = {0, 13}
  SegmentValues <- FetchSegments
  ResetPs = 3
  Consumable = {13, 14, 15, 0}
  Locks = {FALSE}
  Interrupts = FALSE
  Resets = TRUE
INVARIANTS TypeOK QueueCoherent
PROPERTY QueueSpec
