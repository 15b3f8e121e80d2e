CONSTANTS
  Registrations = {r1, r2}
  EventRegistrations = {r1}
  Dispatchers = {d1, d2}
  Host = Host
  HasAbandonHook = TRUE
  HostKeepsQueue = TRUE
  MaxCalls <- MCMaxCalls
  Nobody = Nobody
  NoItem = NoItem
SPECIFICATION Safety
SYMMETRY Symmetry
CHECK_DEADLOCK FALSE
INVARIANTS
  OneDispatchAtATime
  NoRequestIsStranded
  ReleaseIsLast
  UserDataSettledOnce
  WakeOutlivesItsCallback
PROPERTY
  ImplementsContract
