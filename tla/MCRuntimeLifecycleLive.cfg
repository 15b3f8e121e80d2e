CONSTANTS
  Maps = {m1}
  Calls = {c1, c2}
  Attachable = {}
SPECIFICATION Spec
CHECK_DEADLOCK FALSE
PROPERTIES
  CallsEnd
  RuntimeEnds
