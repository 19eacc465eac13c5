CONSTANTS
  c1 = c1
  c2 = c2
  c3 = c3
  c4 = c4
  Clients <- MC_Clients
  Stallers <- MC_NoStallers
  Backlog <- MC_Backlog
  Crashers <- MC_Crashers
  Signals <- MC_Signals

SPECIFICATION Spec

INVARIANTS
  TypeOK
  DaemonSurvivesClientCrash
  PidFileGoneWithProcess

PROPERTIES
  WellBehavedClientServed

CHECK_DEADLOCK FALSE
