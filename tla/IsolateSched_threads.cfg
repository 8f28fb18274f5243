SPECIFICATION FairSpec
CONSTANTS
  Root = "main"
  Workers = {"w1", "w2"}
  Channels = {"a", "b"}
  Cap <- Capacities
  Programs <- Both
  Untimed <- Completing
CHECK_DEADLOCK FALSE
INVARIANTS RegistryExact RegionOutlivesBorrowers ReportIsHonest CleanExit
PROPERTIES FirstVerdict MessageNotAbandoned CancelStops  Settles
