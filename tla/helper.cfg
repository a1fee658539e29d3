CONSTANTS
  MaxFields = 1
  MaxPieces = 0
  Layouts <- NoLayouts
  Inputs <- NoInputs
  StructTypes <- AllTypes
  FieldName = {"a"}
SPECIFICATION ToolsSpec
INVARIANTS
  HelperBytesValid
CHECK_DEADLOCK FALSE
