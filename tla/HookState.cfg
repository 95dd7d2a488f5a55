SPECIFICATION Spec
CONSTANTS
    Account = {1, 2}
    Namespace = {1, 2}
    Key = {1, 2}
    Value = {1}
    Nil = Nil
    NoCache = NoCache
    NoEntry = NoEntry
    NoAccount = NoAccount
    Grant <- GrantToFirst
    Balance = {2, 5}
    BaseReserve = 1
    Increment = 2
    HookFee = 1
    MaxNamespaces = 1
    MaxModifications = 3
    FixXahauV1 = TRUE
CONSTRAINT FourSlots
INVARIANTS
    BookkeepingExact
    NamespacesBounded
    CacheCoherent
    CommitComplete
    CommitSucceeds
PROPERTIES
    CallbackRollbackDiscards
