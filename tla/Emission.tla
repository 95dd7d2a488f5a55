------------------------------ MODULE Emission ------------------------------
(***************************************************************************)
(* What emitting a transaction promises, whatever servers hold in their    *)
(* open ledgers and hash routers: from the ledger that emitted it on it is *)
(* pending; it is applied in one ledger of its window, or fails in one     *)
(* after it; and one of the two happens.                                   *)
(***************************************************************************)
EXTENDS Integers

CONSTANTS
    Tx,       \* transaction IDs
    NoTxn     \* window[t] before t is emitted

VARIABLES
    seq,      \* sequence number of the last closed ledger
    window,   \* first and last ledger of each emitted transaction
    status    \* what has become of each transaction

vars == <<seq, window, status>>

Is(s) == {t \in Tx : status[t] = s}

Init ==
    /\ seq = 1
    /\ window = [t \in Tx |-> NoTxn]
    /\ status = [t \in Tx |-> "none"]

Applicable == {t \in Is("pending") : window[t].fls <= seq + 1 /\ seq + 1 <= window[t].lls}
Expired == {t \in Is("pending") : window[t].lls < seq + 1}

\* The next ledger applies A, fails F and emits E.
Ledger(A, F, E) ==
    /\ seq' \in {seq, seq + 1}
    /\ \A t \in Tx \ E : window'[t] = window[t]
    /\ \A t \in E : window'[t] # NoTxn /\ seq + 1 < window'[t].lls
    /\ status' = [t \in Tx |-> CASE t \in A -> "applied" [] t \in F -> "failed" [] t \in E -> "pending"
                                 [] OTHER -> status[t]]

Next ==
    \E A \in SUBSET Applicable, F \in SUBSET Expired, E \in SUBSET Is("none") : Ledger(A, F, E)

Spec == Init /\ [][Next]_vars

\* A pending transaction is eventually applied or fails.
EveryPendingEnds == \A t \in Tx : status[t] = "pending" ~> status[t] \in {"applied", "failed"}
=============================================================================
