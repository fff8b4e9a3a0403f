SPECIFICATION Spec
CONSTANTS
  Nodes <- MCNodes
  Imports <- MCImports
  Relations <- MCRelations
  MaxOdd = 1
  MaxDepth = 2
  Limit = 2
  MaxSeeds = 2
  MaxWrites = 1
CHECK_DEADLOCK FALSE
INVARIANTS
  TypeOK
  AnswerIsNear
  CyclesAreReal
  KnotsAreReported
PROPERTIES
  SearchEnds
