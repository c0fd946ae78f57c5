SPECIFICATION LiveSpec
CONSTANTS
  SeqValues = 3
  Bytes = {0, 1, 2, 3, 4, 5, 6, 7, 8, 9}
  BufferSize = 2
  IntMod = 16
  OffMod = 16
  Para = 4
  MemSize = 6
  MaxReplies = 7
  Plans <- AllPlans
INVARIANTS InOrder WriteDelivered RepliesInOrder MemoryDone
PROPERTIES Served HeaderEnds CallsEnd
