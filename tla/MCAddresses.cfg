SPECIFICATION FairSpec
CONSTANTS
    None = None
    Unknown = Unknown
    Inventory = Inventory
    a1 = a1
    a2 = a2
    e1 = e1
    e2 = e2
    i1 = i1
    i2 = i2
    x1 = x1
    x2 = x2
    k1 = k1
    k2 = k2
    Agents = {a1, a2}
    Glob <- Globs
    Committee <- Keys
    Accounts <- Files
    Worlds <- TheWorlds
    AgentFor <- Delegation
INVARIANTS AddressesCurrent PortsCurrent
PROPERTIES RestartKeepsNodes PeersAreReached
CHECK_DEADLOCK FALSE
