SPECIFICATION Spec
CONSTANTS
    a1 = a1
    a2 = a2
    a3 = a3
    a4 = a4
    h1 = h1
    r1 = r1
    r2 = r2
    Zero = Zero
    Absent = Absent
    Account = {a1, a2, a3}
    HookHash = {}
    RewardValue = {r1, r2}
    HashTail <- MCTail
    SeatCount = 3
    HookMax = 1
    IsL1 = TRUE
    InitialMembers <- ThreeMembers
    InitialReward <- MCReward
    Ballot <- RewardBallot
PROPERTIES
    RewardNeedsEveryMember
