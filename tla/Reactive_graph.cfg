SPECIFICATION Spec
CONSTANTS
    MaxNodes = 3
    MaxMade = 3
    MaxDup = 2
    MaxSteps = 1
    MaxBound = 2
    Careless = {}
INVARIANTS GraphExact FreshMemo RerunOwed GateSound 
