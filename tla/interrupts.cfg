SPECIFICATION LiveSpec
CONSTANTS
  Offs = 16
  Para = 8
  Phys = 16
  Words = {"p"}
  Requests <- StackRequests
  Targets = {0}
  SegmentValues <- OneSegment
  ResetPs = 0
  Consumable = {}
  Locks = {FALSE, TRUE}
  Interrupts = TRUE
  Resets = FALSE
INVARIANTS IntAckLocked VectorFresh
PROPERTY EveryoneServed
