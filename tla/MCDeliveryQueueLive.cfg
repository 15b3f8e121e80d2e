CONSTANTS
  Registrations = {r1}
  EventRegistrations = {r1}
  Dispatchers = {d1, d2}
  Host = Host
  HasAbandonHook = FALSE
  HostKeepsQueue = TRUE
  MaxCalls <- MCMaxCalls
  Nobody = Nobody
  NoItem = NoItem
SPECIFICATION Spec
CHECK_DEADLOCK FALSE
PROPERTIES
  EveryCallRuns
  ReleaseEnds
