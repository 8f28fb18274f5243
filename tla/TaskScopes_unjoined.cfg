SPECIFICATION Spec
CONSTANTS
    MaxTasks = 3
    MaxBlocks = 2
    MaxWaits = 2
    MaxCancels = 0
    Styles = {"sync", "split"}
    Careless = {"waits above tasks", "leaves tasks behind"}
INVARIANT JoinsOwn
