SPECIFICATION Spec
CONSTANTS
    a1 = a1
    a2 = a2
    g = g
    k1 = k1
    k2 = k2
    Absent = Absent
    Account = {a1, a2, g}
    Issuer = g
    Key = {k1, k2}
    BaseReserve = 1
    OwnerReserve = 1
    Amount = {1, 2}
    SettleDelay = 1
    TimeWidth = 3
    Limit = {0, 2}
    Mode <- Modes
    Price = {0, 1}
    MaxHeld = 3
    MaxLocks = 2
CONSTRAINT WithinBounds
SYMMETRY Symmetry
CHECK_DEADLOCK FALSE
INVARIANTS
    DropsConserved
    DirectoriesExact
    OwnersExact
    PartiesExist
    LockedExact
    LockCountCovers
    SettleDelayHonoured
PROPERTIES
    ReserveMet
