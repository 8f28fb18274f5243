SPECIFICATION Spec
CONSTANTS
    MaxTasks = 3
    MaxBlocks = 3
    MaxWaits = 2
    MaxCancels = 1
    Styles = {"sync", "split"}
    Careless = {"waits above tasks", "cancels a busy task"}
INVARIANTS ScopesExact JoinsOwn NotReentered DeadlockHonestFlat
PROPERTIES Ends
