SPECIFICATION Spec
CONSTANTS
  Names <- MCNames
  PathOf <- MCPathOf
  Half = 4
  MAX_LEVEL = 2
  WALK_SLACK = 1
  Infinity = 100
  Defs <- MCDefs
  Order <- MCOrder
  NoFilter <- MCNoFilter
  BmpEnd = 9
  Ids <- MCIds
  Content <- MCContent
  Shapes <- MCShapes
  Queries <- MCQueries
INVARIANTS AnswerIsRight
CHECK_DEADLOCK FALSE
