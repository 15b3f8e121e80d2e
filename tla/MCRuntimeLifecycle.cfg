CONSTANTS
  Maps = {m1, m2}
  Calls = {c1}
  Attachable = {m1}
SPECIFICATION Safety
CHECK_DEADLOCK FALSE
INVARIANTS
  LeasesAreExact
  RetirementIsLast
  MapFinishesAfterItsWork
