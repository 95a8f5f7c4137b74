SPECIFICATION MCSpec
CONSTANTS
    a1 = a1
    a2 = a2
    a3 = a3
    p0 = p0
    p1 = p1
    p2 = p2
    n1 = n1
    n2 = n2
    n3 = n3
    x1 = x1
    x2 = x2
    NoAgent = NoAgent
    Agents = {a1, a2}
    Applies = {p0, p1, p2}
    Nodes = {n1, n2, n3}
    Executors = {x1, x2}
    ApplyOf <- MCApplyOf
    Pinned <- MCPinned
    Fits <- MCFits
    Removed <- OneRemoved
    ComputeFits <- MCComputeFits
    MaxReplace = 2
INVARIANTS ExclusiveArc AgentsInTurn
PROPERTIES ComputeOnIdleAgent RegistryInTurn ReturnInTurn
