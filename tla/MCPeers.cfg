SPECIFICATION FairSpec
CONSTANTS
    b1 = b1
    f1 = f1
    b2 = b2
    x1 = x1
    x2 = x2
    a1 = a1
    a2 = a2
    p1 = p1
    None = None
    Blocks = {b1, f1}
    Height <- HeightOf
    Minted <- MintedAt
    Content <- ContentOf
    Txs = {x1, x2}
    Agents = {a1, a2}
    Externals = {p1}
    Provers = {}
    Range10 = 1
    CullAge = 1
    MaxBlockAge = 6
    MaxUpdateAge = 0
    Indifference = 0
    Now = 4
    MaxFailures = 0
INVARIANTS IndexesAgree LatestIsFetched
PROPERTY BlocksAreCulled
