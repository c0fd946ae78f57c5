SPECIFICATION Spec
CONSTANTS
  Narrow = 4
  Wide = 8
  First <- NarrowOperations
  Operations = {}
INVARIANT SignedResultFits
