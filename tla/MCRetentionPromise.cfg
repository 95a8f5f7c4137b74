SPECIFICATION Spec
CONSTANTS
    PolicySet <- TestedPolicies
    MaxHeight = 4
    MaxTime = 4
    MaxKills = 2
    MaxWipes = 1
    MaxTools = 1
INVARIANT KeptAsPromised
CHECK_DEADLOCK FALSE
