CONSTANTS
  Kinds = {"core", "caller"}
  RendersAhead = {"core"}
  Ring = 1
  Policies = {"needed", "wait", "force"}
  Events = {"demand", "barrier", "detach", "abandon", "dispose", "view", "untarget", "retarget", "tiles", "close", "command", "update", "failure", "unready", "nothing"}
  MaxEvents = 3
SPECIFICATION Spec
CHECK_DEADLOCK FALSE
INVARIANTS
  AnsweredOnce
  FramesShowCommands
  BarrierComesLast
  SlotsAreSafe
  
  RetiredOnce
  NoMissedUpdate
PROPERTIES
  
  SessionEnds
