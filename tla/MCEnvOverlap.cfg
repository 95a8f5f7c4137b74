SPECIFICATION Spec
CONSTANTS
    a1 = a1
    a2 = a2
    e1 = e1
    e2 = e2
    k1 = k1
    k2 = k2
    top = top
    h1 = h1
    t1 = t1
    t2 = t2
    NoEnv = NoEnv
    Agents = {a1, a2}
    EnvIds = {e1, e2}
    Keys = {k1}
    Requests = {top}
    Documents <- OneNode
    Tasks = {t1, t2}
    MaxCounter = 0
    Takeovers = FALSE
    Crashes = FALSE
INVARIANTS ExclusiveDelegation
