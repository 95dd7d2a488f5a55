SPECIFICATION Spec
CONSTANTS
    n1 = n1
    n2 = n2
    n3 = n3
    t1 = t1
    t2 = t2
    NoTxn = NoTxn
    Node = {n1}
    Tx = {t1}
    EmitWindow = 1
    GenerationLimit = 2
    FixXahauV2 = TRUE
    CallbackTx = {t1}
    Lookback = 0
    SeqLimit = 5
    FaultLimit = 0
INVARIANTS
    CallbackFindsEntry
