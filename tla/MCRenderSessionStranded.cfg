CONSTANTS
  Kinds = {"core"}
  RendersAhead = {}
  Ring = 1
  Policies = {"needed", "wait"}
  Events = {"demand", "update"}
  MaxEvents = 3
SPECIFICATION Spec
CHECK_DEADLOCK FALSE
PROPERTIES
  DemandsFinish
