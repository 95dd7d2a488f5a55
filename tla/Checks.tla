------------------------------- MODULE Checks -------------------------------
(* CheckCreate, CheckCash and CheckCancel for drops (app/tx/impl/          *)
(* CreateCheck.cpp, CashCheck.cpp, CancelCheck.cpp), and tickets           *)
(* (CreateTicket.cpp, Transactor::ticketDelete).                           *)
EXTENDS LedgerView, FiniteSetsExt

CheckCreate(a, dst, sendMax, expiration) ==
    /\ "check" \in mode.kinds
    /\ Exists(a) /\ Exists(dst)
    /\ a # dst
    /\ expiration # 0
    /\ ~HasExpired(expiration)
    /\ root[a].bal >= Reserve(root[a].owners + 1)
    /\ \E k \in Free :
          /\ entry' = [entry EXCEPT ![k] =
                [kind |-> "check", owner |-> a, dest |-> dst, amount |-> sendMax,
                 expiration |-> expiration]]
          /\ dir' = Listed(dir, {a, dst}, k)
    /\ root' = AdjustOwnerCount(root, a, 1)
    /\ UNCHANGED <<line, now, mode>>

\* Mutant of CheckGone: the entry stays in the destination's directory.
CheckGoneMutant(k) ==
    /\ dir' = Unlisted(dir, {entry[k].owner}, k)
    /\ entry' = [entry EXCEPT ![k] = Absent]
    /\ UNCHANGED <<line, now, mode>>

CheckGone(k) ==
    /\ dir' = Unlisted(dir, {entry[k].owner, entry[k].dest}, k)
    /\ entry' = [entry EXCEPT ![k] = Absent]
    /\ UNCHANGED <<line, now, mode>>

\* DeliverMin takes as much as the check and its writer's funds allow; the check's
\* own reserve is among these funds.
Delivered(e, value, atLeast) ==
    IF atLeast THEN Max({value, Min({e.amount, Liquid(e.owner, -1)})}) ELSE value

CheckCash(a, k, value, atLeast) ==
    LET e == entry[k]
        paid == Delivered(e, value, atLeast)
    IN  /\ Exists(a)
        /\ Is(k, "check")
        /\ a = e.dest
        /\ Exists(e.owner)
        /\ ~HasExpired(e.expiration)
        /\ value <= e.amount
        /\ value <= Liquid(e.owner, 0) + OwnerReserve
        /\ paid <= Liquid(e.owner, -1)
        /\ root' = AdjustOwnerCount(
                       AddBalance(AddBalance(root, e.owner, -paid), a, paid), e.owner, -1)
        /\ CheckGone(k)

\* Until it expires a check is cancelled by its two parties only.
CheckCancel(a, k) ==
    /\ Exists(a)
    /\ Is(k, "check")
    /\ HasExpired(entry[k].expiration) \/ a \in {entry[k].owner, entry[k].dest}
    /\ root' = AdjustOwnerCount(root, entry[k].owner, -1)
    /\ CheckGone(k)

-----------------------------------------------------------------------------
\* TicketCreate for the tickets of the keys K.
TicketCreate(a, K) ==
    /\ "ticket" \in mode.kinds
    /\ Exists(a)
    /\ K # {}
    /\ root[a].bal >= Reserve(root[a].owners + Cardinality(K))
    /\ entry' = [k \in Key |-> IF k \in K THEN [kind |-> "ticket", owner |-> a] ELSE entry[k]]
    /\ dir' = [dir EXCEPT ![a] = @ \cup K]
    /\ root' = AdjustOwnerCount([root EXCEPT ![a].tickets = @ + Cardinality(K)],
                                a, Cardinality(K))
    /\ UNCHANGED <<line, now, mode>>

\* consumeSeqProxy: a transaction of a that does nothing else uses its ticket k.
TicketUse(a, k) ==
    /\ Is(k, "ticket")
    /\ entry[k].owner = a
    /\ root' = AdjustOwnerCount([root EXCEPT ![a].tickets = @ - 1], a, -1)
    /\ dir' = Unlisted(dir, {a}, k)
    /\ entry' = [entry EXCEPT ![k] = Absent]
    /\ UNCHANGED <<line, now, mode>>
=============================================================================
