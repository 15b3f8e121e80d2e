CONSTANTS
  Kinds = {1, 2}
  Kind = 2
  handle_max_index = 2
  handle_max_generation = 3
  Handles <- MCHandles
  Objects = {o1, o2, o3, o4, o5, o6, o7}
  NoObject = NoObject
SPECIFICATION Spec
SYMMETRY Symmetry
CHECK_DEADLOCK FALSE
INVARIANTS
  HandlesResolveToTheirObject
  FaultsTellHistory
PROPERTY
  HandlesAreNeverReused
