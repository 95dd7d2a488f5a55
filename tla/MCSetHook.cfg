SPECIFICATION Spec
CONSTANTS
    a1 = a1
    a2 = a2
    a3 = a3
    h1 = h1
    h2 = h2
    n1 = n1
    n2 = n2
    p = p
    q = q
    val = val
    m = m
    g = g
    Account = {a1, a2, a3}
    Hash = {h1, h2}
    Namespace = {n1, n2}
    ParamName = {p, q}
    ParamValue = {val}
    Mask = {m}
    Grant = {g}
    Absent = Absent
    Blank = Blank
    NoValue = NoValue
    NoTx = NoTx
    Menu <- FullMenu
    Place <- Places
    Affordable <- Counts
    MaxHooks = 2
    MaxParams = 1
    MaxGrants = 1
    MaxNamespaceDelete = 1
    GenesisAccount = a2
    Tables = {a3}
    GenesisCode <- Governance
    GovernParams <- OneParameter
    ZeroNamespace = n1
INVARIANTS
    ReferencesExact
    OwnerCountBilled
    StateCounted
    MergeFaithful
CHECK_DEADLOCK FALSE
