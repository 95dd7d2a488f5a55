---------------------------- MODULE LedgerView ----------------------------
(* The part of a ledger that transactors share: account roots, owner       *)
(* directories, the entries kept in them, and one currency's trust lines   *)
(* with its issuer (ledger/View.h, ledger/impl/View.cpp).  A transaction   *)
(* is one step and only tesSUCCESS changes anything: every other result    *)
(* claims at most the fee, and fees are left out.                          *)
EXTENDS Integers, FiniteSets

CONSTANTS
    Account,        \* every account there may be
    Issuer,         \* the account that issues the currency
    Key,            \* keylets of the entries
    Absent,         \* an optional field that is not there
    BaseReserve, OwnerReserve,
    Amount          \* the amounts a transaction may name (drops or tokens)

ASSUME LedgerAssumption ==
    /\ Issuer \in Account
    /\ Absent \notin Account \cup Int \cup [Account -> Int]
    /\ BaseReserve \in Nat /\ OwnerReserve \in Nat
    /\ Amount \subseteq Nat \ {0}

VARIABLES
    root,       \* AccountRoot: Balance, OwnerCount, TicketCount, lsfURITokenIssuer
    dir,        \* owner directory: the keys it lists
    entry,      \* the ledger entries
    line,       \* RippleState with the issuer, from the holder's side
    now,        \* parentCloseTime
    mode        \* fixed: the asset of the amounts, and the kinds of entries, and whether
                \* freezes, are in play

ledger == <<root, dir, entry, line, now, mode>>

\* The amounts are drops, not tokens of the issuer.
native == mode.native

Exists(a) == root[a] # Absent
Free == {k \in Key : entry[k] = Absent}
Is(k, kind) == entry[k] # Absent /\ entry[k].kind = kind
Optional(S) == S \cup {Absent}

\* Fees::accountReserve
Reserve(n) == BaseReserve + n * OwnerReserve

After(t) == t # Absent /\ now > t
HasExpired(t) == t # Absent /\ now >= t

\* The keys of owner directories d with k listed in, or removed from, those of A.
Listed(d, A, k) == [a \in Account |-> IF a \in A THEN d[a] \cup {k} ELSE d[a]]
Unlisted(d, A, k) == [a \in Account |-> IF a \in A THEN d[a] \ {k} ELSE d[a]]

\* confineOwnerCount, without the overflow at 2^32.
Confined(n) == IF n < 0 THEN 0 ELSE n
AdjustOwnerCount(r, a, n) == [r EXCEPT ![a].owners = Confined(@ + n)]
AddBalance(r, a, n) == [r EXCEPT ![a].bal = @ + n]

\* Mutant of Liquid: the owner reserve is not held back.
LiquidMutant(a, adj) ==
    IF root[a].bal < BaseReserve THEN 0 ELSE root[a].bal - BaseReserve

\* xrpLiquid
Liquid(a, adj) ==
    LET reserve == Reserve(Confined(root[a].owners + adj))
    IN  IF root[a].bal < reserve THEN 0 ELSE root[a].bal - reserve

-----------------------------------------------------------------------------
(* Trust lines.  An absent LockedBalance or LockCount is 0.                *)

\* Mutant of Spendable: the locked balance is not taken into account.
SpendableAll(l) == l.bal

\* accountHolds for the holder of line l: what is locked is not spendable.
Spendable(l) == l.bal - l.locked

\* trustTransferAllowed: a freeze stands for every bar the issuer can set.
TransferAllowed(P) ==
    /\ Exists(Issuer)
    /\ \A p \in P \ {Issuer} : line[p] # Absent => ~line[p].frozen

\* Mutant of WithLock: the fields go with the last but one lock.
WithLockMutant(l, locked, count) ==
    IF locked = 0 \/ count <= 1 THEN [l EXCEPT !.locked = 0, !.count = 0]
    ELSE [l EXCEPT !.locked = locked, !.count = count]

\* Both fields go once either is zero.
WithLock(l, locked, count) ==
    IF locked = 0 \/ count = 0 THEN [l EXCEPT !.locked = 0, !.count = 0]
    ELSE [l EXCEPT !.locked = locked, !.count = count]

\* trustAdjustLockedBalance on the line of a among lines l, dry and wet.
CanAdjustLocked(l, a, delta, n) ==
    /\ l[a] # Absent
    /\ TransferAllowed({a})
    /\ delta # 0 =>
          /\ l[a].bal > 0
          /\ l[a].locked + delta \in 0 .. l[a].bal
          /\ l[a].count + n >= 0
AdjustLocked(l, a, delta, n) ==
    IF delta = 0 THEN l
    ELSE [l EXCEPT ![a] = WithLock(@, @.locked + delta, @.count + n)]

\* trustTransferLockedBalance, the conditions (a dry run).  The destination's own
\* transaction may exceed the limit of its line, or create the line.
CanTransferLocked(acting, src, dst, amt, n) ==
    /\ TransferAllowed({src, dst})
    /\ src # Issuer =>
          /\ line[src] # Absent
          /\ amt <= line[src].locked
          /\ line[src].count + n >= 0
    /\ dst # Issuer =>
          IF line[dst] = Absent
          THEN /\ dst \in {acting, src}
               /\ root[dst].bal >= Reserve(root[dst].owners + 1)
          ELSE acting = dst \/ line[dst].bal + amt <= line[dst].limit

\* The owner's line l once amt of what is locked on it is paid out.
PaidOut(l, amt, n) == [WithLock(l, l.locked - amt, l.count + n) EXCEPT !.bal = @ - amt]
Debited(l, src, amt, n) ==
    IF src = Issuer THEN l ELSE [l EXCEPT ![src] = PaidOut(@, amt, n)]

\* trustCreate for the holder, with a limit of zero.
NewLine(amt) ==
    [bal |-> amt, locked |-> 0, count |-> 0, limit |-> 0, reserve |-> TRUE, frozen |-> FALSE]

Credited(l, dst, amt) ==
    IF dst = Issuer THEN l
    ELSE IF l[dst] = Absent THEN [l EXCEPT ![dst] = NewLine(amt)]
    ELSE [l EXCEPT ![dst].bal = @ + amt]

Moved(src, dst, amt, n) == Credited(Debited(line, src, amt, n), dst, amt)

\* isTrustDefault for a line that holds the reserve of a.
ReserveReleased(l, a) ==
    a # Issuer /\ l[a].bal = 0 /\ l[a].locked = 0 /\ l[a].limit = 0 /\ l[a].reserve

\* trustTransferLockedBalance, the lines and the roots after it (a wet run).
LinesTransferred(src, dst, amt, n) ==
    LET l == Moved(src, dst, amt, n)
    IN  IF ReserveReleased(l, src) THEN [l EXCEPT ![src].reserve = FALSE] ELSE l
RootsTransferred(src, dst, amt, n) ==
    LET r == IF dst # Issuer /\ line[dst] = Absent THEN AdjustOwnerCount(root, dst, 1) ELSE root
    IN  IF ReserveReleased(Moved(src, dst, amt, n), src) THEN AdjustOwnerCount(r, src, -1) ELSE r
=============================================================================
