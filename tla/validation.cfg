CONSTANTS
  MaxFields = 2
  MaxPieces = 4
  Layouts <- SomeLayouts
  Inputs <- SomeInputs
  StructTypes <- SomeTypes
  FieldName = {"a", "b"}
SPECIFICATION ToolsSpec
INVARIANTS
  TypeOK
  ReadsBounded
  AcceptsBySizes
  DerivedSchemasWork
PROPERTIES
  KeepsPromise
CHECK_DEADLOCK FALSE
