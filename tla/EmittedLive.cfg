SPECIFICATION FairSpec
CONSTANTS
    n1 = n1
    n2 = n2
    n3 = n3
    t1 = t1
    t2 = t2
    NoTxn = NoTxn
    Node = {n1, n2, n3}
    Tx = {t1}
    EmitWindow = 2
    GenerationLimit = 2
    FixXahauV2 = TRUE
    CallbackTx = {}
    Lookback = 0
    SeqLimit = 6
    FaultLimit = 2
PROPERTIES
    EventuallyResolved
