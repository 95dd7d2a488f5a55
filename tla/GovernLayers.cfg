SPECIFICATION LayersSpec
CONSTANTS
    a1 = a1
    a2 = a2
    b1 = b1
    b2 = b2
    b3 = b3
    r1 = r1
    r2 = r2
    r3 = r3
    Zero = Zero
    Absent = Absent
    Table2 = Table2
    Account = {a1, a2, Table2}
    Account2 = {b1, b2, b3}
    HookHash = {}
    RewardValue = {r1, r2, r3}
    HashTail <- NoTail
    SeatCount = 3
    HookMax = 1
    IsL1 = TRUE
    InitialMembers <- MCMembers
    Members2 <- MCMembers2
    InitialReward <- MCReward
    Ballot <- RewardBallot
PROPERTIES
    RewardBackedByBothLayers
    InvokeNeedsQuorum
