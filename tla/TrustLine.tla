----------------------------- MODULE TrustLine -----------------------------
(* TrustSet (app/tx/impl/SetTrust.cpp) and payments of tokens over the     *)
(* default path (DirectStep.cpp, View.cpp).  Holders keep NoRipple and the *)
(* issuer DefaultRipple, so that neither makes a line differ from its      *)
(* default; no side sets a quality.                                        *)
EXTENDS LedgerView

\* The issuer's side of a line holds a reserve while the issuer freezes it.
Count(b) == IF b THEN 1 ELSE 0

\* The first two entries of an account are not held against it here.
ReserveCreate(a) == IF root[a].owners < 2 THEN 0 ELSE Reserve(root[a].owners + 1)

TrustCreate(a, limit) ==
    /\ ~native
    /\ Exists(a) /\ Exists(Issuer)
    /\ a # Issuer /\ line[a] = Absent
    /\ limit # 0
    /\ root[a].bal >= ReserveCreate(a)
    /\ line' = [line EXCEPT ![a] = [NewLine(0) EXCEPT !.limit = limit]]
    /\ root' = AdjustOwnerCount(root, a, 1)
    /\ UNCHANGED <<dir, entry, now, mode>>

\* The line l of a as one side's TrustSet leaves it: both sides' reserves follow
\* from the new values, and a line that is then in its default state goes.
HolderReserve(l) == l.limit # 0 \/ l.bal > 0
TrustChanged(by, a, l) ==
    LET holder == Count(HolderReserve(l)) - Count(line[a].reserve)
        issuer == Count(l.frozen) - Count(line[a].frozen)
        default == ~HolderReserve(l) /\ ~l.frozen
        rises == IF by = a THEN holder > 0 ELSE issuer > 0
    IN  /\ default \/ ~rises \/ root[by].bal >= ReserveCreate(by)
        /\ root' = AdjustOwnerCount(AdjustOwnerCount(root, a, holder), Issuer, issuer)
        /\ line' = [line EXCEPT ![a] = IF default THEN Absent
                                       ELSE [l EXCEPT !.reserve = HolderReserve(l)]]
        /\ UNCHANGED <<dir, entry, now, mode>>

SetLimit(a, limit) ==
    /\ line[a] # Absent
    /\ TrustChanged(a, a, [line[a] EXCEPT !.limit = limit])

SetFreeze(a, frozen) ==
    /\ "freeze" \in mode.kinds
    /\ line[a] # Absent
    /\ TrustChanged(Issuer, a, [line[a] EXCEPT !.frozen = frozen])

-----------------------------------------------------------------------------
\* maxPaymentFlow from the issuer to the holder of l.  accountHolds takes what the
\* issuer has locked from what it holds; with anything locked the result is out of
\* range and answered as zero, as if the holder held nothing.
MaxIssue(l) == l.limit - (IF l.locked > 0 THEN 0 ELSE l.bal)

\* rippleCredit from the holder to the issuer.
Spent(l, amt) ==
    LET s == [l EXCEPT !.bal = @ - amt]
        released == s.bal = 0 /\ s.limit = 0 /\ s.reserve
    IN  IF ~released THEN s
        ELSE IF s.frozen THEN [s EXCEPT !.reserve = FALSE]
        ELSE Absent

\* A redemption, an issue, or one after the other through the issuer.
TokenPayment(a, dst, amt) ==
    LET redeems == a # Issuer
        issues == dst # Issuer
        spent == IF redeems THEN Spent(line[a], amt) ELSE Absent
    IN  /\ ~native
        /\ a # dst /\ Exists(a) /\ Exists(dst) /\ Exists(Issuer)
        /\ redeems => line[a] # Absent /\ amt <= Spendable(line[a])
        /\ issues => /\ line[dst] # Absent
                     /\ line[dst].bal < line[dst].limit
                     /\ amt <= MaxIssue(line[dst])
        /\ redeems /\ issues => ~line[a].frozen
        /\ line' = [p \in Account |->
                       IF redeems /\ p = a THEN spent
                       ELSE IF issues /\ p = dst THEN [line[p] EXCEPT !.bal = @ + amt]
                       ELSE line[p]]
        /\ root' = IF redeems /\ line[a].reserve /\ (spent = Absent \/ ~spent.reserve)
                   THEN AdjustOwnerCount(root, a, -1) ELSE root
        /\ UNCHANGED <<dir, entry, now, mode>>
=============================================================================
