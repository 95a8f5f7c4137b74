SPECIFICATION Spec
CONSTANTS
    PolicySet <- TestedPolicies
    MaxHeight = 4
    MaxTime = 4
    MaxKills = 2
    MaxWipes = 1
    MaxTools = 1
INVARIANTS Managed RestorePoint PromisedIsKept
PROPERTY RewindExact
CHECK_DEADLOCK FALSE
