------------------------------ MODULE URIToken ------------------------------
(* URIToken transactions for sales in drops (app/tx/impl/URIToken.cpp),    *)
(* with fixXahauV1.                                                        *)
EXTENDS LedgerView

\* URIToken::preflight: a destination needs an amount and is not the sender; a
\* price of zero needs a destination.
ValidOffer(a, price, dst) ==
    /\ dst # Absent => price # Absent /\ dst # a
    /\ price = 0 => dst # Absent

URITokenMint(a, burnable, price, dst) ==
    /\ "uritoken" \in mode.kinds
    /\ Exists(a)
    /\ ValidOffer(a, price, dst)
    /\ root[a].bal >= Reserve(root[a].owners + 1)
    /\ \E k \in Free :
          /\ entry' = [entry EXCEPT ![k] =
                [kind |-> "uritoken", owner |-> a, issuer |-> a, burnable |-> burnable,
                 price |-> price, dest |-> dst]]
          /\ dir' = Listed(dir, {a}, k)
    /\ root' = AdjustOwnerCount([root EXCEPT ![a].minter = TRUE], a, 1)
    /\ UNCHANGED <<line, now, mode>>

URITokenCreateSellOffer(a, k, price, dst) ==
    /\ Is(k, "uritoken")
    /\ a = entry[k].owner
    /\ price # Absent
    /\ ValidOffer(a, price, dst)
    /\ entry' = [entry EXCEPT ![k].price = price, ![k].dest = dst]
    /\ UNCHANGED <<root, dir, line, now, mode>>

URITokenCancelSellOffer(a, k) ==
    /\ Is(k, "uritoken")
    /\ a = entry[k].owner
    /\ entry' = [entry EXCEPT ![k].price = Absent, ![k].dest = Absent]
    /\ UNCHANGED <<root, dir, line, now, mode>>

\* The buyer pays what the transaction offers, which may be more than the price.
URITokenBuy(a, k, purchase) ==
    LET e == entry[k]
        r == AdjustOwnerCount(AdjustOwnerCount(
                 AddBalance(AddBalance(root, a, -purchase), e.owner, purchase),
                 e.owner, -1), a, 1)
    IN  /\ Exists(a)
        /\ Is(k, "uritoken")
        /\ a # e.owner
        /\ e.price # Absent
        /\ e.dest \in {a, Absent}
        /\ purchase >= e.price
        /\ Reserve(root[a].owners + 1) + purchase <= root[a].bal
        /\ \A p \in {a, e.owner} : r[p].bal >= Reserve(r[p].owners)
        /\ root' = r
        /\ dir' = Unlisted(Listed(dir, {a}, k), {e.owner}, k)
        /\ entry' = [entry EXCEPT ![k].owner = a, ![k].price = Absent, ![k].dest = Absent]
        /\ UNCHANGED <<line, now, mode>>

\* Mutant of URITokenBurn: the burner's count goes down, as before fixXahauV1.
URITokenBurnMutant(a, k) ==
    /\ Exists(a)
    /\ Is(k, "uritoken")
    /\ a = entry[k].owner \/ (a = entry[k].issuer /\ entry[k].burnable)
    /\ root' = AdjustOwnerCount(root, a, -1)
    /\ dir' = Unlisted(dir, {entry[k].owner}, k)
    /\ entry' = [entry EXCEPT ![k] = Absent]
    /\ UNCHANGED <<line, now, mode>>

URITokenBurn(a, k) ==
    LET e == entry[k]
    IN  /\ Exists(a)
        /\ Is(k, "uritoken")
        /\ a = e.owner \/ (a = e.issuer /\ e.burnable)
        /\ root' = AdjustOwnerCount(root, e.owner, -1)
        /\ dir' = Unlisted(dir, {e.owner}, k)
        /\ entry' = [entry EXCEPT ![k] = Absent]
        /\ UNCHANGED <<line, now, mode>>
=============================================================================
