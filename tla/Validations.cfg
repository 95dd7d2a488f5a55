CONSTANTS
    A = A
    B = B
    C = C
    None = None
    Node = {A, B, C}
    History <- Chains
    MaxAncestors = 2
    Recent = {2, 3, 4, 5, 6}
    Early = 2
    Wall = 1
    SetExpires = 1
    Setups <- Bounds
SPECIFICATION Spec
INVARIANTS TrieExact TrieAnswers CurrentCounted
PROPERTIES PreferenceStable
CHECK_DEADLOCK FALSE
