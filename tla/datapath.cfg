SPECIFICATION DatapathSpec
CONSTANTS
  Narrow = 4
  Wide = 8
  First <- AllOperations
  Operations <- FewOperations
  Operands <- AllOperands
INVARIANTS ResultOfOperands Arithmetic DecimalResults FieldKept
PROPERTY Answered
CHECK_DEADLOCK FALSE
