SPECIFICATION FairSpec
CONSTANTS
  Root = "main"
  Workers = {"w1", "w2"}
  Channels = {"a", "b"}
  Cap <- Capacities
  Programs <- OnlyFailedSibling
  Untimed = {}
CHECK_DEADLOCK FALSE
PROPERTIES AllEnd
