------------------------------ MODULE Holdings ------------------------------
(* What accounts hold and owe each other: balances, trust lines, and the   *)
(* entries of escrows, payment channels, checks, tickets and URI tokens,   *)
(* under every order of the transactions that change them, including       *)
(* account deletion and re-creation.                                       *)
EXTENDS Escrow, PayChan, Checks, URIToken, TrustLine, Functions

CONSTANTS
    Mode,           \* the modes: native amounts or not, the kinds of entries, the times
                    \* that transactions name, the bound on the close time (end), and
                    \* the initial balances of accounts (drops) and lines (held)
    Limit,          \* the limits a TrustSet may name
    Price           \* the prices of URI tokens

\* Checks and URI token sales are modelled for drops only.  The accounts and keylets
\* that a ledger can hold are hashes of fixed width.
ASSUME ModeAssumption ==
    /\ IsFiniteSet(Account) /\ IsFiniteSet(Key)
    /\ Limit \subseteq Nat /\ Price \subseteq Nat
    /\ \A m \in Mode :
          /\ m.native \in BOOLEAN
          /\ m.kinds \subseteq {"escrow", "paychan", "ticket"} \cup
                 (IF m.native THEN {"check", "uritoken"} ELSE {"freeze"})
          /\ m.deadlines \subseteq Nat /\ m.end \in Nat
          /\ m.drops \in [DOMAIN m.drops -> Nat] /\ DOMAIN m.drops \subseteq Account
          /\ m.held \in [DOMAIN m.held -> [bal : Nat, limit : Nat]]
          /\ DOMAIN m.held \subseteq DOMAIN m.drops \ {Issuer}
          /\ DOMAIN m.held # {} => Issuer \in DOMAIN m.drops

-----------------------------------------------------------------------------
(* The formats of ledger entries.                                          *)
AccountRoot == [bal : Nat, owners : Nat, tickets : Nat, minter : BOOLEAN]
RippleState == [bal : Nat, locked : Nat, count : Nat, limit : Nat, reserve : BOOLEAN, frozen : BOOLEAN]
EscrowEntry == [kind : {"escrow"}, owner : Account, dest : Account, amount : Nat \ {0},
                finish : Optional(Nat), cancel : Optional(Nat)]
PayChanEntry == [kind : {"paychan"}, owner : Account, dest : Account, amount : Nat, paid : Nat,
                 cancel : Optional(Nat), expiration : Optional(Nat), asked : Optional(Nat)]
CheckEntry == [kind : {"check"}, owner : Account, dest : Account, amount : Nat,
               expiration : Optional(Nat)]
TicketEntry == [kind : {"ticket"}, owner : Account]
URITokenEntry == [kind : {"uritoken"}, owner : Account, issuer : Account, burnable : BOOLEAN,
                  price : Optional(Nat), dest : Optional(Account)]
Entry == EscrowEntry \cup PayChanEntry \cup CheckEntry \cup TicketEntry \cup URITokenEntry

\* A field that is not there is not an entry either.
ASSUME AbsentAssumption == Absent \notin AccountRoot \cup RippleState \cup Entry

NewRoot(bal) == [bal |-> bal, owners |-> 0, tickets |-> 0, minter |-> FALSE]

\* A direct payment of drops (Payment.cpp); it may create its destination.
Payment(a, dst, amt) ==
    LET r == IF Exists(dst) THEN root ELSE [root EXCEPT ![dst] = NewRoot(0)]
    IN  /\ native
        /\ Exists(a) /\ a # dst
        /\ ~Exists(dst) => amt >= Reserve(0)
        /\ root[a].bal >= amt + Reserve(root[a].owners)
        /\ root' = AddBalance(AddBalance(r, a, -amt), dst, amt)
        /\ UNCHANGED <<dir, entry, line, now, mode>>

\* DeleteAccount.cpp, with the age of the account left out: what is in its directory,
\* trust lines included, is deleted with it or is an obligation.
Deletable == {"ticket", "uritoken"}

\* Mutant of Obligations: having minted a URI token is not one.
ObligationsMutant(a) ==
    \/ \E k \in dir[a] : entry[k].kind \notin Deletable
    \/ line[a] # Absent
    \/ a = Issuer /\ \E p \in Account : line[p] # Absent

Obligations(a) ==
    \/ root[a].minter
    \/ \E k \in dir[a] : entry[k].kind \notin Deletable
    \/ line[a] # Absent
    \/ a = Issuer /\ \E p \in Account : line[p] # Absent

DeleteAccount(a, dst) ==
    /\ Exists(a) /\ Exists(dst) /\ a # dst
    /\ ~Obligations(a)
    /\ entry' = [k \in Key |-> IF k \in dir[a] THEN Absent ELSE entry[k]]
    /\ dir' = [dir EXCEPT ![a] = {}]
    /\ root' = [AddBalance(root, dst, root[a].bal) EXCEPT ![a] = Absent]
    /\ UNCHANGED <<line, now, mode>>

LedgerClose ==
    /\ now < mode.end
    /\ now' = now + 1
    /\ UNCHANGED <<root, dir, entry, line, mode>>

-----------------------------------------------------------------------------
Init ==
    /\ mode \in Mode
    /\ now = 0
    /\ line = [a \in Account |-> IF native \/ a \notin DOMAIN mode.held THEN Absent
                                   ELSE [NewLine(mode.held[a].bal) EXCEPT !.limit = mode.held[a].limit]]
    /\ root = [a \in Account |->
                  IF a \in DOMAIN mode.drops
                  THEN [NewRoot(mode.drops[a]) EXCEPT !.owners = Count(line[a] # Absent)]
                  ELSE Absent]
    /\ dir = [a \in Account |-> {}]
    /\ entry = [k \in Key |-> Absent]

EscrowStep ==
    \/ \E a, dst \in Account, amt \in Amount, finish, cancel \in Optional(mode.deadlines) :
          EscrowCreate(a, dst, amt, finish, cancel)
    \/ \E a \in Account, k \in Key : EscrowFinish(a, k)
    \/ \E a \in Account, k \in Key : EscrowCancel(a, k)

PayChanStep ==
    \/ \E a, dst \in Account, amt \in Amount, cancel \in Optional(mode.deadlines) :
          PayChanCreate(a, dst, amt, cancel)
    \/ \E a \in Account, k \in Key, amt \in Amount : FundExpired(a, k, amt)
    \/ \E a \in Account, k \in Key, amt \in Amount, extend \in Optional(mode.deadlines) :
          Fund(a, k, amt, extend)
    \/ \E a \in Account, k \in Key : ClaimExpired(a, k)
    \/ \E a \in Account, k \in Key, req \in Optional(Amount), flag \in {"none", "renew", "close"} :
          Claim(a, k, req, flag)

CheckStep ==
    \/ \E a, dst \in Account, amt \in Amount, expiration \in Optional(mode.deadlines) :
          CheckCreate(a, dst, amt, expiration)
    \/ \E a \in Account, k \in Key, value \in Amount, atLeast \in BOOLEAN :
          CheckCash(a, k, value, atLeast)
    \/ \E a \in Account, k \in Key : CheckCancel(a, k)
    \/ \E a \in Account, K \in SUBSET Free : TicketCreate(a, K)
    \/ \E a \in Account, k \in Key : TicketUse(a, k)

URITokenStep ==
    \/ \E a \in Account, b \in BOOLEAN, p \in Optional(Price), dst \in Optional(Account) :
          URITokenMint(a, b, p, dst)
    \/ \E a \in Account, k \in Key, p \in Price, dst \in Optional(Account) :
          URITokenCreateSellOffer(a, k, p, dst)
    \/ \E a \in Account, k \in Key : URITokenCancelSellOffer(a, k)
    \/ \E a \in Account, k \in Key, p \in Amount \cup {0} : URITokenBuy(a, k, p)
    \/ \E a \in Account, k \in Key : URITokenBurn(a, k)

LineStep ==
    \/ \E a \in Account, limit \in Limit : TrustCreate(a, limit)
    \/ \E a \in Account, limit \in Limit : SetLimit(a, limit)
    \/ \E a \in Account, frozen \in BOOLEAN : SetFreeze(a, frozen)
    \/ \E a, dst \in Account, amt \in Amount : TokenPayment(a, dst, amt)

Next ==
    \/ EscrowStep \/ PayChanStep \/ CheckStep \/ URITokenStep \/ LineStep
    \/ \E a, dst \in Account, amt \in Amount : Payment(a, dst, amt)
    \/ \E a, dst \in Account : DeleteAccount(a, dst)
    \/ LedgerClose

Spec == Init /\ [][Next]_ledger

-----------------------------------------------------------------------------
Entries == {k \in Key : entry[k] # Absent}
Owned(a) == {k \in Entries : entry[k].owner = a}
Escrows == {k \in Entries : entry[k].kind = "escrow"}
Channels == {k \in Entries : entry[k].kind = "paychan"}

\* What an entry holds of its owner's funds.
Inside(e) == CASE e.kind = "escrow" -> e.amount
               [] e.kind = "paychan" -> Remaining(e)
               [] OTHER -> 0

\* The accounts in whose directories an entry is kept.
Parties(e) == {e.owner} \cup (IF e.kind \in {"escrow", "paychan", "check"} THEN {e.dest} ELSE {})

TypeOK ==
    /\ mode \in Mode
    /\ now \in 0 .. mode.end
    /\ root \in [Account -> Optional(AccountRoot)]
    /\ dir \in [Account -> SUBSET Key]
    /\ entry \in [Key -> Optional(Entry)]
    /\ line \in [Account -> Optional(RippleState)]
    /\ \A k \in Channels : entry[k].paid <= entry[k].amount

\* What accounts hold themselves, what entries hold for them, and what those of a hold.
Held == [a \in Account |-> IF Exists(a) THEN root[a].bal ELSE 0]
HeldInside == [k \in Key |-> IF entry[k] # Absent THEN Inside(entry[k]) ELSE 0]
HeldFor(a) == [k \in Key |-> IF k \in Owned(a) THEN Inside(entry[k]) ELSE 0]

\* No transaction makes or loses drops: what accounts hold, with what escrows and
\* channels hold for them, is what there was (Escrow.cpp, PayChan.cpp, Payment.cpp,
\* CashCheck.cpp, URIToken.cpp, DeleteAccount.cpp).
DropsConserved ==
    native => SumFunction(Held) + SumFunction(HeldInside) = SumFunction(mode.drops)

\* Owner directories list exactly the entries whose party the account is, so that
\* every deletion finds its page (dirInsert and dirRemove in every transactor).
DirectoriesExact ==
    \A a \in Account : dir[a] = {k \in Entries : a \in Parties(entry[k])}

\* OwnerCount is the number of entries the account answers for, trust lines
\* included, whoever changed them (adjustOwnerCount), and TicketCount the number of
\* its tickets.
OwnersExact ==
    \A a \in Account : Exists(a) =>
        /\ root[a].owners = Cardinality(Owned(a))
             + Cardinality({p \in Account : /\ line[p] # Absent
                                            /\ IF a = Issuer THEN line[p].frozen
                                               ELSE p = a /\ line[p].reserve})
        /\ root[a].tickets = Cardinality({k \in Owned(a) : entry[k].kind = "ticket"})

\* No account that an entry or a line still needs can be deleted (DeleteAccount's
\* obligations): the parties of an entry, the issuer of a URI token, both sides of
\* a line.
PartiesExist ==
    /\ \A k \in Entries :
          /\ \A a \in Parties(entry[k]) : Exists(a)
          /\ entry[k].kind = "uritoken" => Exists(entry[k].issuer)
    /\ \A a \in Account : line[a] # Absent => Exists(a) /\ Exists(Issuer)

\* The locked balance of a line is what its holder's escrows and channels still
\* hold, and the line's balance covers it, whatever else was paid, frozen, claimed
\* or closed meanwhile (trustAdjustLockedBalance, trustTransferLockedBalance).
LockedExact ==
    \A a \in Account \ {Issuer} :
        LET locked == IF line[a] = Absent THEN 0 ELSE line[a].locked
        IN  /\ native \/ locked = SumFunction(HeldFor(a))
            /\ line[a] # Absent => locked <= line[a].bal

\* LockCount covers every entry with something locked, so that the last of them
\* finds the lock still there: a dry channel returns before it is counted down and
\* every Fund counts up, but nothing counts down too often.
LockCountCovers ==
    \A a \in Account \ {Issuer} :
        line[a] # Absent =>
            line[a].count >= Cardinality({k \in Owned(a) : Inside(entry[k]) > 0})

\* No transaction that spends drops or adds an entry takes an account below its
\* reserve (the tests of each transactor against accountReserve).
ReserveMet ==
    [][\A a \in Account :
          Exists(a) /\ Exists(a)' =>
              \/ root'[a].bal >= Reserve(root'[a].owners)
              \/ root'[a].bal >= root[a].bal /\ Owned(a)' \subseteq Owned(a)]_ledger

\* Whenever the owner asks for a channel to end, or to end sooner, its Expiration
\* leaves the recipient at least SettleDelay to claim, whatever is funded, extended
\* or asked again, unless the request came so late that the sum wraps around
\* (PayChanFund, PayChanClaim).
SettleDelayHonoured ==
    \A k \in Channels :
        LET e == entry[k]
        IN  e.expiration # Absent /\ e.asked + SettleDelay < TimeWidth =>
                e.expiration >= e.asked + SettleDelay
=============================================================================
