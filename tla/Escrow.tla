------------------------------- MODULE Escrow -------------------------------
(* EscrowCreate, EscrowFinish and EscrowCancel (app/tx/impl/Escrow.cpp),   *)
(* with fix1571, featurePaychanAndEscrowForTokens and no transfer fee.     *)
EXTENDS LedgerView

\* Tokens of anyone but the issuer are locked on the owner's line.
Locks(a) == ~native /\ a # Issuer

\* EscrowCreate::preflight: an escrow that names no FinishAfter has a condition.
Deadlines(finish, cancel) ==
    /\ finish # Absent \/ cancel # Absent
    /\ finish # Absent /\ cancel # Absent => cancel > finish

EscrowCreate(a, dst, amt, finish, cancel) ==
    /\ "escrow" \in mode.kinds
    /\ Exists(a)
    /\ Deadlines(finish, cancel)
    /\ ~After(cancel) /\ ~After(finish)
    /\ root[a].bal >= Reserve(root[a].owners + 1) + (IF native THEN amt ELSE 0)
    /\ ~native => TransferAllowed({a, dst})
    /\ Locks(a) => CanAdjustLocked(line, a, amt, 1)
    /\ Exists(dst)
    /\ \E k \in Free :
          /\ entry' = [entry EXCEPT ![k] =
                [kind |-> "escrow", owner |-> a, dest |-> dst, amount |-> amt,
                 finish |-> finish, cancel |-> cancel]]
          /\ dir' = Listed(dir, {a, dst}, k)
    /\ line' = IF Locks(a) THEN AdjustLocked(line, a, amt, 1) ELSE line
    /\ root' = AdjustOwnerCount(AddBalance(root, a, IF native THEN -amt ELSE 0), a, 1)
    /\ UNCHANGED <<now, mode>>

\* Anyone who exists may finish, with the fulfilment of the condition if there is
\* one.
EscrowFinish(a, k) ==
    LET e == entry[k]
    IN  /\ Exists(a)
        /\ Is(k, "escrow")
        /\ e.finish # Absent => After(e.finish)
        /\ ~After(e.cancel)
        /\ Exists(e.dest)
        /\ ~native => CanTransferLocked(a, e.owner, e.dest, e.amount, -1)
        /\ dir' = Unlisted(dir, {e.owner, e.dest}, k)
        /\ line' = IF native THEN line ELSE LinesTransferred(e.owner, e.dest, e.amount, -1)
        /\ root' = AdjustOwnerCount(
                       IF native THEN AddBalance(root, e.dest, e.amount)
                       ELSE RootsTransferred(e.owner, e.dest, e.amount, -1), e.owner, -1)
        /\ entry' = [entry EXCEPT ![k] = Absent]
        /\ UNCHANGED <<now, mode>>

EscrowCancel(a, k) ==
    LET e == entry[k]
    IN  /\ Exists(a)
        /\ Is(k, "escrow")
        /\ After(e.cancel)
        /\ Locks(e.owner) => CanAdjustLocked(line, e.owner, -e.amount, -1)
        /\ dir' = Unlisted(dir, {e.owner, e.dest}, k)
        /\ line' = IF Locks(e.owner) THEN AdjustLocked(line, e.owner, -e.amount, -1) ELSE line
        /\ root' = AdjustOwnerCount(
                       AddBalance(root, e.owner, IF native THEN e.amount ELSE 0), e.owner, -1)
        /\ entry' = [entry EXCEPT ![k] = Absent]
        /\ UNCHANGED <<now, mode>>
=============================================================================
