---------------------------- MODULE MCHoldings ----------------------------
(* Two accounts, and a third that a payment may create or that issues      *)
(* tokens.                                                                 *)
EXTENDS Holdings, TLC

CONSTANTS a1, a2, g, k1, k2,
    MaxHeld, MaxLocks   \* bounds on a balance of tokens and on a LockCount

Drop(kinds, times, end, drops) ==
    [native |-> TRUE, kinds |-> kinds, deadlines |-> times, end |-> end, drops |-> drops,
     held |-> << >>]
Token(kinds, times, end, drops, held) ==
    [native |-> FALSE, kinds |-> kinds, deadlines |-> times, end |-> end, drops |-> drops,
     held |-> held]

Line == a1 :> [bal |-> 2, limit |-> 2]

Modes ==
    {Drop({"escrow", "check", "ticket"}, {0, 1}, 2, a1 :> 4 @@ a2 :> 2),
     Drop({"paychan", "ticket"}, {1, 2}, 2, a1 :> 4 @@ a2 :> 1),
     Drop({"uritoken"}, {}, 0, a1 :> 3 @@ a2 :> 2),
     Token({"escrow", "paychan"}, {0, 1}, 2, a1 :> 4 @@ g :> 1, Line),
     Token({"paychan", "freeze"}, {}, 1, a1 :> 3 @@ a2 :> 1 @@ g :> 1, Line),
     Token({"escrow", "freeze"}, {0}, 1, a1 :> 3 @@ a2 :> 2 @@ g :> 2, Line)}

\* The issuer can issue without end, and every Fund counts a lock up.
WithinBounds ==
    /\ \A a \in Account : line[a] # Absent => line[a].bal <= MaxHeld /\ line[a].count <= MaxLocks
    /\ \A k \in Channels : entry[k].amount <= MaxHeld

Symmetry == Permutations(Key)
===========================================================================
