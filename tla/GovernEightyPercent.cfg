SPECIFICATION Spec
CONSTANTS
    a1 = a1
    a2 = a2
    a3 = a3
    a4 = a4
    h1 = h1
    r1 = r1
    r2 = r2
    Zero = Zero
    Absent = Absent
    Account = {a1, a2, a3, a4}
    HookHash = {}
    RewardValue = {r1}
    HashTail <- MCTail
    SeatCount = 4
    HookMax = 1
    IsL1 = TRUE
    InitialMembers <- FourMembers
    InitialReward <- MCReward
    Ballot <- SeatBallot
PROPERTIES
    SeatingNeedsEightyPercent
