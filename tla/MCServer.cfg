\* Two clients, one of which the timer looks at per call; up to three jobs.
CONSTANTS
  Types = {"fsync"}
  SetSize = 4
  MaxClients = 2
  MaxAccepts = 2
  MaxIdle = 1
  CronMin = 1
  CronShare = 100
  Loads <- MCLoads
  MaxConnections = 3
SPECIFICATION Spec
INVARIANTS
  RegistrationExact
  BatchCurrent
  JobsInOrder
PROPERTIES
  AllServed
CHECK_DEADLOCK FALSE
