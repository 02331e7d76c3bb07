SPECIFICATION FairAp6ReconfSpec
CONSTANTS
  daemon = daemon  app1 = app1  user1 = user1
  NullGbs = 2
  Format <- MCFormat
  InterfaceId <- MCInterfaceId
  Interface = "fit"
  NoId = "zero"
  MaxPosts = 2
  Daemon = daemon
  Callers = {daemon, app1}
  Users = {user1}
  Bitstreams = {1, 3, 4}
  Valid = {2, 3, 4}
  Json = {2, 3}
  Clock <- MCClock
  Power <- MCPower
  Integrated = TRUE
  UserClocks = {100}
INVARIANTS   NotWhileInUse NothingLeft SettingsOfLoaded
PROPERTIES PostIsTaken ProgrammedIsLoaded
CHECK_DEADLOCK FALSE
