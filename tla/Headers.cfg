SPECIFICATION Spec
CONSTANTS
  Fields <- AllFields
  MaxFields = 6
INVARIANTS OnlyWellFormed PassRemembers
CHECK_DEADLOCK FALSE
