CONSTANTS
  Hosts = {h1, h2}
  Loop = Loop
SPECIFICATION Spec
CHECK_DEADLOCK FALSE
INVARIANTS
  DecidedOnce
  HandlerSettledOnce
  HandleOutlivesCallback
PROPERTY
  RequestsEnd
