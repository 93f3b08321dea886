SPECIFICATION Spec
CONSTANTS
  x = x
  y = y
  full = full
  part = part
  low = low
  high = high
  none = none
  ddoc = ddoc
  p1 = p1
  p2 = p2
  Deleted = Deleted
  Free = Free
  Ids <- MCIds
  Defs <- MCDefs
  Order <- MCOrder
  Predefined <- MCPredefined
  Bodies <- MCBodies
  KeyOf <- MCKeyOf
  Ddoc = ddoc
  Procs <- MCProcs
  BATCH = 1
  MaxSeq <- MCMaxSeq
INVARIANTS RowsAreCurrent LockedOrScanning
CHECK_DEADLOCK FALSE
