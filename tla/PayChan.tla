------------------------------ MODULE PayChan ------------------------------
(* PaymentChannelCreate, -Fund and -Claim (app/tx/impl/PayChan.cpp), with  *)
(* fixPayChanRecipientOwnerDir and no transfer fee.                        *)
EXTENDS LedgerView

CONSTANTS
    SettleDelay,
    TimeWidth       \* a time is an unsigned number below this (2^32)

ASSUME DelayAssumption == SettleDelay \in Nat /\ TimeWidth \in Nat \ {0}

\* NetClock counts in 32 bits, and so does the sum.
SettleExpiration == (now + SettleDelay) % TimeWidth

Remaining(e) == e.amount - e.paid
ChannelExpired(e) == HasExpired(e.cancel) \/ HasExpired(e.expiration)

\* closeChannel, for the channel of key k with contents e on lines l and roots r.
CanClose(l, e) == ~native => CanAdjustLocked(l, e.owner, -Remaining(e), -1)

\* Mutant of CloseChannel: what was paid out of the channel is returned too.
CloseChannelMutant(k, e, l, r) ==
    /\ CanClose(l, e)
    /\ dir' = Unlisted(dir, {e.owner, e.dest}, k)
    /\ line' = IF native THEN l ELSE AdjustLocked(l, e.owner, -Remaining(e), -1)
    /\ root' = AdjustOwnerCount(
                   AddBalance(r, e.owner, IF native THEN e.amount ELSE 0), e.owner, -1)
    /\ entry' = [entry EXCEPT ![k] = Absent]
    /\ UNCHANGED <<now, mode>>

CloseChannel(k, e, l, r) ==
    /\ CanClose(l, e)
    /\ dir' = Unlisted(dir, {e.owner, e.dest}, k)
    /\ line' = IF native THEN l ELSE AdjustLocked(l, e.owner, -Remaining(e), -1)
    /\ root' = AdjustOwnerCount(
                   AddBalance(r, e.owner, IF native THEN Remaining(e) ELSE 0), e.owner, -1)
    /\ entry' = [entry EXCEPT ![k] = Absent]
    /\ UNCHANGED <<now, mode>>

\* The issuer does not lock what it puts into a channel of its own.
PayChanCreate(a, dst, amt, cancel) ==
    /\ "paychan" \in mode.kinds
    /\ Exists(a) /\ Exists(dst)
    /\ a # dst
    /\ root[a].bal >= Reserve(root[a].owners + 1) + (IF native THEN amt ELSE 0)
    /\ ~native =>
          /\ TransferAllowed({a, dst})
          /\ a # Issuer => CanAdjustLocked(line, a, amt, 1)
    /\ \E k \in Free :
          /\ entry' = [entry EXCEPT ![k] =
                [kind |-> "paychan", owner |-> a, dest |-> dst, amount |-> amt, paid |-> 0,
                 cancel |-> cancel, expiration |-> Absent, asked |-> Absent]]
          /\ dir' = Listed(dir, {a, dst}, k)
    /\ line' = IF native \/ a = Issuer THEN line ELSE AdjustLocked(line, a, amt, 1)
    /\ root' = AdjustOwnerCount(AddBalance(root, a, IF native THEN -amt ELSE 0), a, 1)
    /\ UNCHANGED <<now, mode>>

\* "asked" is a history field: when Expiration was last set or brought forward.
WithExpiration(e, t) ==
    [e EXCEPT !.expiration = t,
              !.asked = IF t = Absent THEN Absent
                        ELSE IF e.expiration = Absent \/ t < e.expiration THEN now ELSE @]

\* PayChanFund: the lock is tried on the owner's line before anything else.
FundLocks(a, e, amt) == ~native /\ a # Issuer => CanAdjustLocked(line, e.owner, amt, 1)

FundExpired(a, k, amt) ==
    /\ Exists(a)
    /\ Is(k, "paychan")
    /\ FundLocks(a, entry[k], amt)
    /\ ChannelExpired(entry[k])
    /\ CloseChannel(k, entry[k], line, root)

\* Mutant of MinExpiration: no delay from now.
MinExpirationMutant(e) == IF e.expiration # Absent THEN e.expiration ELSE now

\* The earliest Expiration that the owner may set.
MinExpiration(e) ==
    IF e.expiration # Absent /\ e.expiration < SettleExpiration THEN e.expiration
    ELSE SettleExpiration

Fund(a, k, amt, extend) ==
    LET e == entry[k]
        extended == IF extend = Absent THEN e ELSE WithExpiration(e, extend)
    IN  /\ Exists(a)
        /\ Is(k, "paychan")
        /\ FundLocks(a, e, amt)
        /\ ~ChannelExpired(e)
        /\ a = e.owner
        /\ extend # Absent => extend >= MinExpiration(e)
        /\ Exists(e.dest)
        /\ root[a].bal >= Reserve(root[a].owners) + (IF native THEN amt ELSE 0)
        /\ root' = AddBalance(root, a, IF native THEN -amt ELSE 0)
        /\ line' = IF native \/ a = Issuer THEN line ELSE AdjustLocked(line, a, amt, 1)
        /\ entry' = [entry EXCEPT ![k] = [extended EXCEPT !.amount = @ + amt]]
        /\ UNCHANGED <<dir, now, mode>>

ClaimExpired(a, k) ==
    /\ Exists(a)
    /\ Is(k, "paychan")
    /\ ChannelExpired(entry[k])
    /\ CloseChannel(k, entry[k], line, root)

\* tfRenew, tfClose or neither: the channel afterwards, if it stays.
Renewed(e, flag) ==
    CASE flag = "renew" -> WithExpiration(e, Absent)
      [] flag = "close" /\ (e.expiration = Absent \/ e.expiration > SettleExpiration)
            -> WithExpiration(e, SettleExpiration)
      [] OTHER -> e

\* A claim for the total req, or for nothing (req = Absent), by the owner or the
\* recipient; a recipient's claim carries the owner's signature, which is not
\* modelled: any req may be signed.
Claim(a, k, req, flag) ==
    LET e == entry[k]
        pays == req # Absent
        delta == req - e.paid
        claimed == IF pays THEN [e EXCEPT !.paid = req] ELSE e
        l == IF pays /\ ~native THEN LinesTransferred(e.owner, e.dest, delta, 0) ELSE line
        r == IF ~pays THEN root
             ELSE IF native THEN AddBalance(root, e.dest, delta)
             ELSE RootsTransferred(e.owner, e.dest, delta, 0)
    IN  /\ Exists(a)
        /\ Is(k, "paychan")
        /\ ~ChannelExpired(e)
        /\ a \in {e.owner, e.dest}
        /\ pays => /\ e.paid < req /\ req <= e.amount
                   /\ Exists(e.dest)
                   /\ ~native => CanTransferLocked(a, e.owner, e.dest, delta, 0)
        /\ flag = "renew" => a = e.owner
        /\ IF flag = "close" /\ (a = e.dest \/ claimed.paid = claimed.amount)
           THEN CloseChannel(k, claimed, l, r)
           ELSE /\ entry' = [entry EXCEPT ![k] = Renewed(claimed, flag)]
                /\ line' = l
                /\ root' = r
                /\ UNCHANGED <<dir, now, mode>>
=============================================================================
