SPECIFICATION MCSpec
CONSTANTS
    a1 = a1
    a2 = a2
    e1 = e1
    e2 = e2
    k1 = k1
    k2 = k2
    top = top
    h1 = h1
    t1 = t1
    t2 = t2
    NoEnv = NoEnv
    Agents = {a1, a2}
    EnvIds = {e1, e2}
    Keys = {k1, k2}
    Requests = {top}
    Documents <- AnyNodes
    Tasks = {t1}
    MaxCounter = 1
    Takeovers = FALSE
    Crashes = FALSE
INVARIANTS AgreementInTurn NodesHaveEnvironments
PROPERTIES CleanupFreesInTurn
