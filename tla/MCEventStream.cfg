SPECIFICATION MCSpec
CONSTANTS
    a1 = a1
    a2 = a2
    e1 = e1
    all = all
    first = first
    None = None
    AgentIds = {a1, a2}
    EnvNames = {e1}
    Env = e1
    Targets = {all, first}
    Matching <- MCMatching
    Kinds = {"agent-reconcile", "agent-reconcile-complete"}
    Capacity = 2
    NodeSets <- MCNodeSets
    Noise = 1
    Depth = 1
CHECK_DEADLOCK FALSE
INVARIANTS FilterMeansIt NoCompletionMissed
PROPERTIES CliReturns
