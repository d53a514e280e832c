SPECIFICATION Spec
CONSTANTS
    Agent = {a, b, c}
    Conn = {c1, c2}
    Skill = {s}
    Caller = {k}
    Offer <- Offers
    NoAgent = NoAgent
SYMMETRY Symmetry
INVARIANTS
    TypeOK
    IndexIsExact
    ToolsNameThePresent
    EachGetsATurn
    ListedIsReachable
    SteadyToolsAreFound
