CONSTANTS
  Leases = {l1, l2, l3}
  Children = {c1, c2}
  Closers = {t1, t2}
SPECIFICATION Spec
INVARIANTS
  CountsAreExact
  DrainedOnceAndEmpty
  NoLostCallback
PROPERTY
  ImplementsContract
