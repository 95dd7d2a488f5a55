SPECIFICATION Spec
CONSTANTS
    n1 = n1
    n2 = n2
    n3 = n3
    t1 = t1
    t2 = t2
    NoTxn = NoTxn
    Node = {n1, n2, n3}
    Tx = {t1, t2}
    EmitWindow = 3
    GenerationLimit = 3
    FixXahauV2 = TRUE
    CallbackTx = {t1, t2}
    Lookback = 0
    SeqLimit = 6
    FaultLimit = 1
SYMMETRY BothSymmetry
INVARIANTS
    AtMostOnce
    RouterCoversPositions
    ChainBounded
PROPERTIES
    AppliedInWindow
    FailedAfterWindow
    KeepsPromise
