----------------------- MODULE HoldingsReserveProofs ------------------------
(* What time and the reserve promise the holders, for any accounts, keys,  *)
(* amounts, modes and reserves: a payment channel stays open for its       *)
(* settle delay after a close request, and no transaction spends the       *)
(* reserve of an account.                                                  *)
EXTENDS HoldingsProofs

-----------------------------------------------------------------------------
(* The settle delay.                                                       *)

\* The Expiration of a channel, if there is one, was asked for, and is at least the
\* delay later unless the sum wrapped around.
AskedOK(e) ==
    /\ e.expiration = Absent <=> e.asked = Absent
    /\ e.expiration # Absent /\ e.asked + SettleDelay < TimeWidth => e.asked + SettleDelay <= e.expiration
DelayInv == \A k \in Key : Is(k, "paychan") => AskedOK(entry[k])

\* The fields of a channel that a close request or a claim leaves.
LEMMA WithExpirationFields ==
    ASSUME NEW e \in PayChanEntry, NEW t
    PROVE  /\ WithExpiration(e, t).expiration = t
           /\ WithExpiration(e, t).asked =
                 IF t = Absent THEN Absent
                 ELSE IF e.expiration = Absent \/ t < e.expiration THEN now ELSE e.asked
<1> DEFINE y == IF t = Absent THEN Absent
                ELSE IF e.expiration = Absent \/ t < e.expiration THEN now ELSE e.asked
<1>1. WithExpiration(e, t) = [e EXCEPT !.expiration = t, !.asked = y]
  BY Zenon DEF WithExpiration
<1> HIDE DEF y
<1>2. WithExpiration(e, t).expiration = t /\ WithExpiration(e, t).asked = y
  BY <1>1, Zenon DEF PayChanEntry
<1> QED
  BY <1>2, Zenon DEF y

\* The close time is a natural number.
LEMMA Clock ==
    ASSUME HInv
    PROVE  now \in Nat
<1>1. now \in 0 .. mode.end /\ mode.end \in Nat
  BY ModeTypes, Zenon DEF HInv
<1> QED
  BY <1>1

\* Without a wrap the delay counts from now.
LEMMA SettleExact ==
    ASSUME now \in Nat
    PROVE  /\ SettleExpiration \in Nat
           /\ now + SettleDelay < TimeWidth => SettleExpiration = now + SettleDelay
<1>1. now + SettleDelay \in Nat /\ TimeWidth \in Nat
  BY DelayAssumption
<1>2. \A n, w \in Nat : n < w => n % w = n
  OBVIOUS
<1> QED
  BY <1>1, <1>2, SettleType, Zenon DEF SettleExpiration

\* An Expiration may be put off, or set to any time that the delay allows.
LEMMA ExpirationSet ==
    ASSUME NEW e \in PayChanEntry, now \in Nat, AskedOK(e), NEW t \in Optional(Nat),
           t # Absent => \/ SettleExpiration <= t
                         \/ e.expiration # Absent /\ e.expiration <= t
    PROVE  AskedOK(WithExpiration(e, t))
<1> DEFINE f == WithExpiration(e, t)
           soon == e.expiration = Absent \/ t < e.expiration
<1>1. /\ f.expiration = t
      /\ f.asked = IF t = Absent THEN Absent ELSE IF soon THEN now ELSE e.asked
  BY WithExpirationFields, Zenon
<1> HIDE DEF f
<1>2. /\ e.asked \in Optional(Nat) /\ e.expiration \in Optional(Nat) /\ SettleDelay \in Nat
      /\ TimeWidth \in Nat /\ Absent \notin Int /\ SettleExpiration \in Nat
      /\ now + SettleDelay < TimeWidth => SettleExpiration = now + SettleDelay
  BY DelayAssumption, LedgerAssumption, SettleExact, Zenon DEF PayChanEntry
<1>3. CASE t = Absent
  BY <1>1, <1>3, Zenon DEF AskedOK, f
<1>4. CASE t # Absent /\ soon
  <2>1. f.asked = now /\ f.expiration = t /\ t \in Nat
    BY <1>1, <1>4, Zenon DEF Optional
  <2>2. SettleExpiration <= t
    <3>1. CASE e.expiration = Absent
      BY <1>4, <3>1, Zenon
    <3>2. CASE e.expiration # Absent
      <4>1. e.expiration \in Nat /\ t < e.expiration
        BY <1>2, <1>4, <3>2, Zenon DEF Optional
      <4>2. ~(e.expiration <= t)
        BY <2>1, <4>1
      <4> QED BY <1>4, <4>2, Zenon
    <3> QED BY <3>1, <3>2, Zenon
  <2>3. now # Absent
    BY <1>2
  <2>4. now + SettleDelay < TimeWidth => now + SettleDelay <= t
    BY <1>2, <2>2, Zenon
  <2> QED
    BY <1>4, <2>1, <2>3, <2>4, Zenon DEF AskedOK, f
<1>5. CASE t # Absent /\ ~soon
  <2>1. f.asked = e.asked /\ f.expiration = t /\ t \in Nat /\ e.expiration # Absent
    BY <1>1, <1>5, Zenon DEF Optional
  <2>2. e.expiration \in Nat /\ e.asked \in Nat /\ e.asked # Absent
    BY <1>2, <2>1, Zenon DEF AskedOK, Optional
  <2>3. e.expiration <= t
    BY <1>5, <2>1, <2>2
  <2>4. e.asked + SettleDelay < TimeWidth => e.asked + SettleDelay <= e.expiration
    BY <2>1, Zenon DEF AskedOK
  <2>5. e.asked + SettleDelay < TimeWidth => e.asked + SettleDelay <= t
    BY <1>2, <2>1, <2>2, <2>3, <2>4, SMTT(30)
  <2> QED
    BY <2>1, <2>2, <2>5, <1>5, Zenon DEF AskedOK, f
<1> QED
  BY <1>3, <1>4, <1>5, Zenon

\* Channels that stay as they are keep what was asked.
LEMMA DelayKept ==
    ASSUME DelayInv,
           \A k \in Key : \/ entry'[k] = entry[k] \/ entry'[k] = Absent
                          \/ entry'[k].kind # "paychan" \/ AskedOK(entry'[k])
    PROVE  DelayInv'
  BY Zenon DEF DelayInv, Is, AskedOK

\* An extension by PaymentChannelFund leaves the recipient the delay.
LEMMA FundDelay ==
    ASSUME HInv, DelayInv, NEW a \in Account, NEW k \in Key, NEW amt \in Amount,
           NEW extend \in Optional(mode.deadlines), Fund(a, k, amt, extend)
    PROVE  DelayInv'
<1> DEFINE e == entry[k]
           f == IF extend = Absent THEN e ELSE WithExpiration(e, extend)
           g == [f EXCEPT !.amount = @ + amt]
<1>0. /\ mode \in Mode /\ EntriesOK(entry) /\ now \in Nat /\ extend \in Optional(Nat)
      /\ entry \in [Key -> Optional(Entry)]
  BY Clock, ModeTypes, Zenon DEF HInv, Sound, Linked, Optional, EntriesOK
<1>00. SettleExpiration \in Nat
  BY <1>0, SettleExact, Zenon
<1>1. /\ Is(k, "paychan") /\ (extend # Absent => extend >= MinExpiration(e))
      /\ entry' = [entry EXCEPT ![k] = g] /\ now' = now
  BY Zenon DEF Fund
<1>2. e \in PayChanEntry /\ AskedOK(e)
  BY <1>0, <1>1, ChannelAt, Zenon DEF DelayInv, Is
<1>3. /\ f \in PayChanEntry /\ f.amount = e.amount
  BY <1>0, <1>2, ExpirationType, Zenon
<1>4. AskedOK(f)
  <2>1. CASE extend = Absent
    BY <1>2, <2>1, Zenon
  <2>2. CASE extend # Absent
    <3>1. SettleExpiration <= extend \/ (e.expiration # Absent /\ e.expiration <= extend)
      <4>1. e.expiration \in Optional(Nat) /\ extend \in Nat /\ SettleDelay \in Nat
        BY <1>0, <1>2, <2>2, DelayAssumption, Zenon DEF PayChanEntry, Optional
      <4> QED
        BY <1>0, <1>1, <2>2, <4>1, Zenon DEF MinExpiration, Optional
    <3> QED
      BY <1>0, <1>2, <2>2, <3>1, ExpirationSet, Zenon
  <2> QED
    BY <2>1, <2>2, Zenon
<1> HIDE DEF f
<1>5. g.expiration = f.expiration /\ g.asked = f.asked
  BY <1>3, Zenon DEF PayChanEntry
<1> HIDE DEF g
<1>6. AskedOK(g)
  BY <1>4, <1>5, Zenon DEF AskedOK
<1>7. entry'[k] = g /\ \A j \in Key \ {k} : entry'[j] = entry[j]
  BY <1>0, <1>1, Zenon
<1> QED
  BY <1>0, <1>1, <1>6, <1>7, DelayKept, SMTT(30)

\* A renewal or the owner's request to close leaves the recipient the delay.
LEMMA ClaimDelay ==
    ASSUME HInv, DelayInv, NEW a \in Account, NEW k \in Key, NEW req \in Optional(Amount),
           NEW flag, Claim(a, k, req, flag)
    PROVE  DelayInv'
<1> DEFINE e == entry[k]
           f == IF req # Absent THEN [e EXCEPT !.paid = req] ELSE e
<1>0. /\ mode \in Mode /\ EntriesOK(entry) /\ now \in Nat /\ now' = now
      /\ entry \in [Key -> Optional(Entry)]
  BY Clock, ModeTypes, Zenon DEF HInv, Sound, Linked, EntriesOK, Claim, CloseChannel
<1>00. SettleExpiration \in Nat /\ \A n \in Nat : n <= n
  BY <1>0, SettleExact
<1>1. Is(k, "paychan")
  BY Zenon DEF Claim
<1>2. e \in PayChanEntry /\ AskedOK(e)
  BY <1>0, <1>1, ChannelAt, Zenon DEF DelayInv, Is
<1>3. \/ entry' = [entry EXCEPT ![k] = Absent]
      \/ entry' = [entry EXCEPT ![k] = Renewed(f, flag)]
  BY Zenon DEF Claim, CloseChannel
<1>4. f \in PayChanEntry /\ f.expiration = e.expiration /\ f.asked = e.asked
  <2>1. CASE req # Absent
    <3>1. req \in Nat
      BY <1>0, <2>1, ModeTypes, Zenon DEF Optional
    <3> QED
      BY <1>2, <2>1, <3>1, Zenon DEF PayChanEntry
  <2>2. CASE req = Absent
    BY <1>2, <2>2, Zenon
  <2> QED
    BY <2>1, <2>2, Zenon
<1> HIDE DEF f
<1>5. AskedOK(f)
  BY <1>2, <1>4, Zenon DEF AskedOK
<1>6. AskedOK(Renewed(f, flag))
  <2>1. \/ Renewed(f, flag) = WithExpiration(f, Absent)
        \/ Renewed(f, flag) = WithExpiration(f, SettleExpiration)
        \/ Renewed(f, flag) = f
    BY Zenon DEF Renewed
  <2>2. AskedOK(WithExpiration(f, Absent))
    BY <1>0, <1>4, <1>5, ExpirationSet, Zenon DEF Optional
  <2>3. AskedOK(WithExpiration(f, SettleExpiration))
    BY <1>0, <1>00, <1>4, <1>5, ExpirationSet, Zenon DEF Optional
  <2> QED
    BY <1>5, <2>1, <2>2, <2>3, Zenon
<1>7. entry'[k] \in {Absent, Renewed(f, flag)} /\ \A j \in Key \ {k} : entry'[j] = entry[j]
  BY <1>0, <1>3, Zenon
<1> QED
  BY <1>0, <1>6, <1>7, DelayKept, SMTT(30)

\* The entry of one key changes, and is no channel.
LEMMA OtherDelay ==
    ASSUME HInv, DelayInv, now' = now, NEW k \in Key, NEW x, entry' = [entry EXCEPT ![k] = x],
           x = Absent \/ x.kind # "paychan" \/ AskedOK(x)
    PROVE  DelayInv'
<1>1. now \in Nat /\ entry \in [Key -> Optional(Entry)]
  BY ModeTypes DEF HInv, Sound, Linked, EntriesOK
<1>2. entry'[k] = x /\ \A j \in Key \ {k} : entry'[j] = entry[j]
  BY <1>1, Zenon
<1> QED
  BY <1>1, <1>2, DelayKept, SMTT(30)

\* Only channel transactions and the clock bear on the settle delay.
LEMMA DelayStep ==
    ASSUME HInv, DelayInv, Next
    PROVE  DelayInv'
<1>0. mode \in Mode /\ now \in Nat /\ entry \in [Key -> Optional(Entry)] /\ Sound(root, dir, entry, line)
  BY ModeTypes DEF HInv, Sound, Linked, EntriesOK
<1>00. EntriesOK(entry)
  BY <1>0, Zenon DEF Sound, Linked
<1>same. ASSUME entry' = entry, now' = now
         PROVE  DelayInv'
  BY <1>0, <1>same, DelayKept, SMTT(30)
<1>1. CASE EscrowStep
  <2>1. ASSUME NEW a \in Account, NEW dst \in Account, NEW amt \in Amount, NEW finish, NEW cancel,
               EscrowCreate(a, dst, amt, finish, cancel)
        PROVE  DelayInv'
    <3> DEFINE x == [kind |-> "escrow", owner |-> a, dest |-> dst, amount |-> amt,
                     finish |-> finish, cancel |-> cancel]
    <3>1. PICK k \in Free : entry' = [entry EXCEPT ![k] = x]
      BY <2>1, Zenon DEF EscrowCreate
    <3>2. k \in Key /\ x.kind # "paychan" /\ now' = now
      BY <2>1, Zenon DEF Free, EscrowCreate
    <3> HIDE DEF x
    <3> QED
      BY <3>1, <3>2, OtherDelay, Zenon
  <2>2. ASSUME NEW a \in Account, NEW k \in Key, EscrowFinish(a, k) \/ EscrowCancel(a, k)
        PROVE  DelayInv'
    <3>1. entry' = [entry EXCEPT ![k] = Absent] /\ now' = now
      BY <2>2, Zenon DEF EscrowFinish, EscrowCancel
    <3> QED
      BY <3>1, OtherDelay, Zenon
  <2> QED
    BY <1>1, <2>1, <2>2, Zenon DEF EscrowStep
<1>2. CASE PayChanStep
  <2>1. ASSUME NEW a \in Account, NEW dst \in Account, NEW amt \in Amount, NEW cancel,
               PayChanCreate(a, dst, amt, cancel)
        PROVE  DelayInv'
    <3> DEFINE x == [kind |-> "paychan", owner |-> a, dest |-> dst, amount |-> amt, paid |-> 0,
                     cancel |-> cancel, expiration |-> Absent, asked |-> Absent]
    <3>1. PICK k \in Free : entry' = [entry EXCEPT ![k] = x]
      BY <2>1, Zenon DEF PayChanCreate
    <3>2. k \in Key /\ AskedOK(x) /\ now' = now
      BY <2>1, Zenon DEF Free, PayChanCreate, AskedOK
    <3> HIDE DEF x
    <3> QED
      BY <3>1, <3>2, OtherDelay, Zenon
  <2>2. ASSUME NEW a \in Account, NEW k \in Key, NEW amt, FundExpired(a, k, amt) \/ ClaimExpired(a, k)
        PROVE  DelayInv'
    <3>1. entry' = [entry EXCEPT ![k] = Absent] /\ now' = now
      BY <2>2, Zenon DEF FundExpired, ClaimExpired, CloseChannel
    <3> QED
      BY <3>1, OtherDelay, Zenon
  <2> QED
    BY <1>2, <2>1, <2>2, FundDelay, ClaimDelay, Zenon DEF PayChanStep
<1>3. CASE CheckStep
  <2>1. ASSUME NEW a \in Account, NEW dst \in Account, NEW amt \in Amount, NEW expiration,
               CheckCreate(a, dst, amt, expiration)
        PROVE  DelayInv'
    <3> DEFINE x == [kind |-> "check", owner |-> a, dest |-> dst, amount |-> amt,
                     expiration |-> expiration]
    <3>1. PICK k \in Free : entry' = [entry EXCEPT ![k] = x]
      BY <2>1, Zenon DEF CheckCreate
    <3>2. k \in Key /\ x.kind # "paychan" /\ now' = now
      BY <2>1, Zenon DEF Free, CheckCreate
    <3> HIDE DEF x
    <3> QED
      BY <3>1, <3>2, OtherDelay, Zenon
  <2>2. ASSUME NEW a \in Account, NEW k \in Key, NEW value, NEW atLeast,
               CheckCash(a, k, value, atLeast) \/ CheckCancel(a, k) \/ TicketUse(a, k)
        PROVE  DelayInv'
    <3>1. entry' = [entry EXCEPT ![k] = Absent] /\ now' = now
      BY <2>2, Zenon DEF CheckCash, CheckCancel, CheckGone, TicketUse
    <3> QED
      BY <3>1, OtherDelay, Zenon
  <2>3. ASSUME NEW a \in Account, NEW K \in SUBSET Free, TicketCreate(a, K)
        PROVE  DelayInv'
    <3> DEFINE x == [kind |-> "ticket", owner |-> a]
    <3>1. entry' = [k \in Key |-> IF k \in K THEN x ELSE entry[k]] /\ now' = now
      BY <2>3, Zenon DEF TicketCreate
    <3>2. x.kind # "paychan"
      BY Zenon
    <3> HIDE DEF x
    <3>3. \A k \in Key : entry'[k] = entry[k] \/ entry'[k].kind # "paychan"
      BY <3>1, <3>2, Zenon
    <3> QED
      BY <1>0, <3>1, <3>3, DelayKept, SMTT(30)
  <2> QED
    BY <1>3, <2>1, <2>2, <2>3, Zenon DEF CheckStep
<1>4. CASE URITokenStep
  <2>1. ASSUME NEW a \in Account, NEW b, NEW p, NEW dst, URITokenMint(a, b, p, dst)
        PROVE  DelayInv'
    <3> DEFINE x == [kind |-> "uritoken", owner |-> a, issuer |-> a, burnable |-> b,
                     price |-> p, dest |-> dst]
    <3>1. PICK k \in Free : entry' = [entry EXCEPT ![k] = x]
      BY <2>1, Zenon DEF URITokenMint
    <3>2. k \in Key /\ x.kind # "paychan" /\ now' = now
      BY <2>1, Zenon DEF Free, URITokenMint
    <3> HIDE DEF x
    <3> QED
      BY <3>1, <3>2, OtherDelay, Zenon
  <2>2. ASSUME NEW a \in Account, NEW k \in Key, NEW p \in Price, NEW dst \in Optional(Account),
               URITokenCreateSellOffer(a, k, p, dst)
        PROVE  DelayInv'
    <3>1. /\ Is(k, "uritoken") /\ now' = now
          /\ entry' = [entry EXCEPT ![k].price = p, ![k].dest = dst]
      BY <2>2, Zenon DEF URITokenCreateSellOffer
    <3>2. entry[k] \in URITokenEntry /\ entry[k].kind = "uritoken"
      BY <1>0, <1>00, <3>1, TokenAt, Zenon DEF Is
    <3>3. entry'[k].kind = "uritoken" /\ \A j \in Key \ {k} : entry'[j] = entry[j]
      BY <1>0, <3>1, <3>2, Zenon DEF URITokenEntry
    <3> QED
      BY <1>0, <3>1, <3>3, DelayKept, SMTT(30)
  <2>3. ASSUME NEW a \in Account, NEW k \in Key, URITokenBurn(a, k)
        PROVE  DelayInv'
    <3>1. entry' = [entry EXCEPT ![k] = Absent] /\ now' = now
      BY <2>3, Zenon DEF URITokenBurn
    <3> QED
      BY <3>1, OtherDelay, Zenon
  <2>4. ASSUME NEW a \in Account, NEW k \in Key, NEW n \in Amount \cup {0},
               URITokenCancelSellOffer(a, k) \/ URITokenBuy(a, k, n)
        PROVE  DelayInv'
    <3>1. Is(k, "uritoken") /\ now' = now
      BY <2>4, Zenon DEF URITokenCancelSellOffer, URITokenBuy
    <3>2. entry[k] \in URITokenEntry /\ entry[k].kind = "uritoken"
      BY <1>0, <1>00, <3>1, TokenAt, Zenon DEF Is
    <3>3. \/ entry' = [entry EXCEPT ![k].price = Absent, ![k].dest = Absent]
          \/ entry' = [entry EXCEPT ![k].owner = a, ![k].price = Absent, ![k].dest = Absent]
      BY <2>4, Zenon DEF URITokenCancelSellOffer, URITokenBuy
    <3>4. entry'[k].kind = "uritoken" /\ \A j \in Key \ {k} : entry'[j] = entry[j]
      BY <1>0, <3>2, <3>3, SMTT(30) DEF URITokenEntry
    <3> QED
      BY <1>0, <3>1, <3>4, DelayKept, SMTT(30)
  <2> QED
    BY <1>4, <2>1, <2>2, <2>3, <2>4, Zenon DEF URITokenStep
<1>5. CASE LineStep
  <2>1. entry' = entry /\ now' = now
    BY <1>5, Zenon DEF LineStep, TrustCreate, SetLimit, SetFreeze, TrustChanged, TokenPayment
  <2> QED
    BY <1>same, <2>1, Zenon
<1>6. ASSUME NEW a \in Account, NEW dst \in Account, NEW amt \in Amount, Payment(a, dst, amt)
      PROVE  DelayInv'
  BY <1>same, <1>6, Zenon DEF Payment
<1>7. ASSUME NEW a \in Account, NEW dst \in Account, DeleteAccount(a, dst)
      PROVE  DelayInv'
  <2>1. entry' = [k \in Key |-> IF k \in dir[a] THEN Absent ELSE entry[k]] /\ now' = now
    BY <1>7, Zenon DEF DeleteAccount
  <2>2. \A k \in Key : entry'[k] = entry[k] \/ entry'[k] = Absent
    BY <2>1, Zenon
  <2> QED
    BY <1>0, <2>1, <2>2, DelayKept, SMTT(30)
<1>8. CASE LedgerClose
  <2>1. now' \in Nat /\ now <= now' /\ entry' = entry
    BY <1>0, <1>8, SMTT(30) DEF LedgerClose
  <2> QED
    BY <2>1, DelayKept, Zenon
<1> QED
  BY <1>1, <1>2, <1>3, <1>4, <1>5, <1>6, <1>7, <1>8, Zenon DEF Next

\* The recipient has SettleDelay from every request of the owner to end a channel or
\* to end it sooner, for any delay and width of a time, unless the sum wraps around
\* (PayChanFund, PayChanClaim).
THEOREM SettleDelayAlwaysHonoured == Spec => []SettleDelayHonoured
<1>1. Init => DelayInv
  BY Zenon DEF Init, DelayInv, Is
<1>2. HInv /\ DelayInv /\ [Next]_ledger => DelayInv'
  <2>1. ASSUME HInv, DelayInv, Next
        PROVE  DelayInv'
    BY <2>1, DelayStep, Zenon
  <2>2. ASSUME DelayInv, UNCHANGED ledger
        PROVE  DelayInv'
    BY <2>2, Zenon DEF ledger, DelayInv, Is
  <2> QED
    BY <2>1, <2>2, Zenon
<1>3. HInv /\ DelayInv => SettleDelayHonoured
  <2> SUFFICES ASSUME HInv, DelayInv, NEW k \in Channels, entry[k].expiration # Absent,
                      entry[k].asked + SettleDelay < TimeWidth
               PROVE  entry[k].expiration >= entry[k].asked + SettleDelay
    BY Zenon DEF SettleDelayHonoured
  <2>1. k \in Key /\ entry[k] # Absent /\ entry[k].kind = "paychan" /\ EntriesOK(entry)
    BY Zenon DEF Channels, Entries, HInv, Sound, Linked
  <2>2. entry[k] \in PayChanEntry /\ AskedOK(entry[k])
    BY <2>1, ChannelAt, Zenon DEF DelayInv, Is
  <2>3. entry[k].asked \in Nat /\ entry[k].expiration \in Nat /\ SettleDelay \in Nat
    BY <2>2, DelayAssumption, Zenon DEF PayChanEntry, AskedOK, Optional
  <2> QED
    BY <2>2, <2>3, Zenon DEF AskedOK
<1> QED
  BY <1>1, <1>2, <1>3, HoldingsInvariant, PTL DEF Spec

-----------------------------------------------------------------------------
(* The reserve.                                                            *)

\* No account of r is gone from s or has less; no account owns more entries in ne
\* than in en.
NotLower(r, s) ==
    /\ s \in Roots
    /\ \A b \in Account : r[b] # Absent => s[b] # Absent /\ s[b].bal >= r[b].bal
NoneGained(en, ne) == \A b \in Account : OwnedBy(ne, b) \subseteq OwnedBy(en, b)

\* What ReserveMet says of a step.
ReserveKept ==
    \A a \in Account :
        Exists(a) /\ Exists(a)' =>
            \/ root'[a].bal >= Reserve(root'[a].owners)
            \/ root'[a].bal >= root[a].bal /\ Owned(a)' \subseteq Owned(a)

\* A balance that rises, and an owner count that changes, leave no balance lower.
LEMMA NotLowerRoots ==
    ASSUME NEW r \in Roots, NEW a \in Account, r[a] # Absent
    PROVE  /\ \A n \in Nat : NotLower(r, AddBalance(r, a, n))
           /\ \A n \in Int : NotLower(r, AdjustOwnerCount(r, a, n))
<1>1. \A b \in Account : r[b] # Absent => r[b].bal \in Nat
  BY RootAt, Zenon
<1>2. ASSUME NEW n \in Nat
      PROVE  NotLower(r, AddBalance(r, a, n))
  <2> DEFINE s == AddBalance(r, a, n)
  <2>1. /\ s \in Roots /\ s[a] # Absent /\ s[a].bal = r[a].bal + n
        /\ \A b \in Account : b # a => s[b] = r[b]
    <3>1. n \in Int /\ r[a].bal + n >= 0
      BY <1>1, SMTT(30)
    <3> QED
      BY <3>1, AddBalanceRoots, Zenon
  <2> HIDE DEF s
  <2>2. NotLower(r, s)
    BY <1>1, <2>1, SMTT(30) DEF NotLower
  <2> QED
    BY <2>2, Zenon DEF s
<1>3. ASSUME NEW n \in Int
      PROVE  NotLower(r, AdjustOwnerCount(r, a, n))
  <2> DEFINE s == AdjustOwnerCount(r, a, n)
  <2>1. /\ s \in Roots /\ s[a] # Absent /\ s[a].bal = r[a].bal
        /\ \A b \in Account : b # a => s[b] = r[b]
    BY AdjustOwnerCountRoots, Zenon
  <2> HIDE DEF s
  <2>2. NotLower(r, s)
    BY <1>1, <2>1, SMTT(30) DEF NotLower
  <2> QED
    BY <2>2, Zenon DEF s
<1> QED
  BY <1>2, <1>3, Zenon

\* One change after the other.
LEMMA NotLowerTwice ==
    ASSUME NEW r \in Roots, NEW s, NEW t, NotLower(r, s), NotLower(s, t)
    PROVE  NotLower(r, t)
<1>1. \A b \in Account : /\ r[b] # Absent => r[b].bal \in Nat
                         /\ s[b] # Absent => s[b].bal \in Nat
                         /\ t[b] # Absent => t[b].bal \in Nat
  BY RootAt, Zenon DEF NotLower
<1> QED
  BY <1>1 DEF NotLower

\* No change at all.
LEMMA NotLowerSame == ASSUME NEW r \in Roots PROVE NotLower(r, r)
<1>1. \A b \in Account : r[b] # Absent => r[b].bal \in Nat
  BY RootAt, Zenon
<1> QED
  BY <1>1 DEF NotLower

\* The transfer of what is locked changes owner counts only.
LEMMA NotLowerTransferred ==
    ASSUME root \in Roots, NEW src \in Account, NEW dst \in Account, root[src] # Absent,
           root[dst] # Absent, NEW amt, NEW n
    PROVE  NotLower(root, RootsTransferred(src, dst, amt, n))
<1> DEFINE m == -1
           r == IF dst # Issuer /\ line[dst] = Absent THEN AdjustOwnerCount(root, dst, 1) ELSE root
           released == ReserveReleased(Moved(src, dst, amt, n), src)
<1>0. m \in Int
  OBVIOUS
<1>1. RootsTransferred(src, dst, amt, n) = IF released THEN AdjustOwnerCount(r, src, m) ELSE r
  BY Zenon DEF RootsTransferred
<1>2. NotLower(root, AdjustOwnerCount(root, dst, 1)) /\ NotLower(root, root)
  BY NotLowerRoots, NotLowerSame, SMTT(30)
<1>3. NotLower(root, r)
  BY <1>2, Zenon
<1> HIDE DEF m, r, released
<1>4. r \in Roots /\ r[src] # Absent
  BY <1>3, Zenon DEF NotLower
<1>5. NotLower(r, AdjustOwnerCount(r, src, m))
  BY <1>0, <1>4, NotLowerRoots, Zenon
<1>6. NotLower(root, AdjustOwnerCount(r, src, m))
  BY <1>3, <1>5, NotLowerTwice, Zenon
<1> QED
  BY <1>1, <1>3, <1>6, Zenon

\* Who owns an entry that goes, or that changes but not its owner.
LEMMA NoneGainedAt ==
    ASSUME entry \in [Key -> Optional(Entry)], NEW k \in Key, NEW x,
           x = Absent \/ (entry[k] # Absent /\ x.owner = entry[k].owner)
    PROVE  NoneGained(entry, [entry EXCEPT ![k] = x])
<1> DEFINE ne == [entry EXCEPT ![k] = x]
<1>1. ne[k] = x /\ \A j \in Key \ {k} : ne[j] = entry[j]
  BY Zenon
<1> HIDE DEF ne
<1>2. NoneGained(entry, ne)
  BY <1>1, Zenon DEF NoneGained, OwnedBy
<1> QED
  BY <1>2, Zenon DEF ne

\* Nothing is spent and no entry is added.
LEMMA Unspent ==
    ASSUME NotLower(root, root'), NoneGained(entry, entry')
    PROVE  ReserveKept
<1>1. \A a : Owned(a) = OwnedBy(entry, a) /\ Owned(a)' = OwnedBy(entry', a)
  BY Zenon DEF Owned, Entries, OwnedBy
<1> HIDE DEF Owned
<1> QED
  BY <1>1, Zenon DEF ReserveKept, NotLower, NoneGained, Exists

\* Account a may spend and its entries may grow, but it keeps its reserve.
LEMMA SpentBy ==
    ASSUME NEW a \in Account, root'[a].bal >= Reserve(root'[a].owners),
           \A b \in Account \ {a} :
               /\ root[b] # Absent /\ root'[b] # Absent => root'[b].bal >= root[b].bal
               /\ OwnedBy(entry', b) \subseteq OwnedBy(entry, b)
    PROVE  ReserveKept
<1>1. \A b : Owned(b) = OwnedBy(entry, b) /\ Owned(b)' = OwnedBy(entry', b)
  BY Zenon DEF Owned, Entries, OwnedBy
<1> HIDE DEF Owned
<1>2. ASSUME NEW b \in Account, Exists(b), Exists(b)'
      PROVE  \/ root'[b].bal >= Reserve(root'[b].owners)
             \/ root'[b].bal >= root[b].bal /\ Owned(b)' \subseteq Owned(b)
  <2>1. CASE b = a
    BY <2>1, Zenon
  <2>2. CASE b # a
    BY <1>1, <1>2, <2>2, Zenon DEF Exists
  <2> QED
    BY <2>1, <2>2, Zenon
<1> QED
  BY <1>2, Zenon DEF ReserveKept

\* A new entry of a, paid for by a: an escrow, a channel, a check or a URI token.
LEMMA CreateKeeps ==
    ASSUME root \in Roots, entry \in [Key -> Optional(Entry)], NEW a \in Account, root[a] # Absent,
           NEW x \in Int, root[a].bal + x >= Reserve(root[a].owners + 1), NEW r \in Roots,
           r[a] # Absent, r[a].owners = root[a].owners, r[a].bal = root[a].bal + x,
           \A b \in Account \ {a} : r[b] = root[b],
           root' = AdjustOwnerCount(r, a, 1),
           NEW k \in Key, NEW e, e.owner = a, entry' = [entry EXCEPT ![k] = e]
    PROVE  ReserveKept
<1>1. /\ root'[a].bal = r[a].bal /\ root'[a].owners = Confined(r[a].owners + 1)
      /\ \A b \in Account \ {a} : root'[b] = r[b]
  BY AdjustOwnerCountRoots, SMTT(30)
<1>2. root[a].owners \in Nat
  BY RootAt, Zenon
<1>3. Confined(r[a].owners + 1) = root[a].owners + 1
  BY <1>2 DEF Confined
<1>4. \A b \in Account \ {a} : root[b] # Absent => root[b].bal \in Nat
  BY RootAt, Zenon
<1>5. \A b \in Account \ {a} : OwnedBy(entry', b) \subseteq OwnedBy(entry, b)
  BY Zenon DEF OwnedBy
<1>6. root'[a].bal >= Reserve(root'[a].owners)
  BY <1>1, <1>3, Zenon
<1>7. \A b \in Account \ {a} : root[b] # Absent => root'[b].bal >= root[b].bal
  BY <1>1, <1>4, SMTT(30)
<1> QED
  BY <1>5, <1>6, <1>7, SpentBy, Zenon

\* The owner of an entry that goes has no less.
LEMMA GoneKeeps ==
    ASSUME NEW r, NotLower(root, r), root \in Roots, entry \in [Key -> Optional(Entry)],
           NEW o \in Account, root[o] # Absent, NEW x \in Nat, NEW n \in Int,
           root' = AdjustOwnerCount(AddBalance(r, o, x), o, n),
           NEW k \in Key, entry' = [entry EXCEPT ![k] = Absent]
    PROVE  ReserveKept
<1> DEFINE s == AddBalance(r, o, x)
<1>1. r \in Roots /\ r[o] # Absent
  BY Zenon DEF NotLower
<1>2. NotLower(r, s)
  BY <1>1, NotLowerRoots, Zenon
<1> HIDE DEF s
<1>3. s \in Roots /\ s[o] # Absent
  BY <1>1, <1>2, Zenon DEF NotLower
<1>4. NotLower(s, AdjustOwnerCount(s, o, n))
  BY <1>3, NotLowerRoots, Zenon
<1>5. NotLower(root, s)
  BY <1>2, NotLowerTwice, Zenon
<1>6. NotLower(root, AdjustOwnerCount(s, o, n))
  BY <1>4, <1>5, NotLowerTwice, Zenon
<1>7. NotLower(root, root')
  BY <1>6, Zenon DEF s
<1>8. NoneGained(entry, entry')
  BY NoneGainedAt, Zenon
<1> QED
  BY <1>7, <1>8, Unspent, Zenon

\* The owner of an entry that goes without paying it anything.
LEMMA DroppedKeeps ==
    ASSUME NEW r, NotLower(root, r), root \in Roots, entry \in [Key -> Optional(Entry)],
           NEW o \in Account, root[o] # Absent, NEW n \in Int,
           root' = AdjustOwnerCount(r, o, n),
           NEW k \in Key, entry' = [entry EXCEPT ![k] = Absent]
    PROVE  ReserveKept
<1>1. r \in Roots /\ r[o] # Absent
  BY Zenon DEF NotLower
<1>2. NotLower(r, AdjustOwnerCount(r, o, n))
  BY <1>1, NotLowerRoots, Zenon
<1>3. NotLower(root, root')
  BY <1>2, NotLowerTwice, Zenon
<1>4. NoneGained(entry, entry')
  BY NoneGainedAt, Zenon
<1> QED
  BY <1>3, <1>4, Unspent, Zenon

\* Escrows: the creator's funds are tested, and finishing or cancelling only pays.
LEMMA EscrowKeeps ==
    ASSUME HInv, EscrowStep
    PROVE  ReserveKept
<1> DEFINE m == -1
<1>0. /\ mode \in Mode /\ root \in Roots /\ entry \in [Key -> Optional(Entry)] /\ m \in Int
      /\ native \in BOOLEAN /\ EntriesOK(entry) /\ PartiesOK(root, entry, line)
  BY ModeTypes DEF HInv, Sound, Linked, EntriesOK
<1>1. ASSUME NEW a \in Account, NEW dst \in Account, NEW amt \in Amount, NEW finish, NEW cancel,
             EscrowCreate(a, dst, amt, finish, cancel)
      PROVE  ReserveKept
  <2> DEFINE e == [kind |-> "escrow", owner |-> a, dest |-> dst, amount |-> amt,
                   finish |-> finish, cancel |-> cancel]
             x == IF native THEN -amt ELSE 0
             r == AddBalance(root, a, x)
  <2>1. PICK k \in Free : entry' = [entry EXCEPT ![k] = e]
    BY <1>1, Zenon DEF EscrowCreate
  <2>2. /\ k \in Key /\ e.owner = a /\ root[a] # Absent /\ root' = AdjustOwnerCount(r, a, 1)
        /\ root[a].bal >= Reserve(root[a].owners + 1) + (IF native THEN amt ELSE 0)
    BY <1>1, Zenon DEF Free, EscrowCreate, Exists
  <2>3. amt \in Nat /\ root[a].bal \in Nat /\ Reserve(root[a].owners + 1) \in Nat
    <3>1. root[a].bal \in Nat /\ root[a].owners + 1 \in Nat
      BY <1>0, <2>2, RootAt, SMTT(30)
    <3> QED
      BY <1>0, <3>1, ReserveNat, ModeTypes, Zenon
  <2>4. x \in Int /\ root[a].bal + x >= Reserve(root[a].owners + 1) /\ root[a].bal + x >= 0
    BY <1>0, <2>2, <2>3, SMTT(30)
  <2> HIDE DEF e, x
  <2>5. /\ r \in Roots /\ r[a] # Absent /\ r[a].owners = root[a].owners /\ r[a].bal = root[a].bal + x
        /\ \A b \in Account : b # a => r[b] = root[b]
    BY <1>0, <2>2, <2>4, AddBalanceRoots, SMTT(30)
  <2> HIDE DEF r
  <2> QED
    BY <1>0, <2>1, <2>2, <2>4, <2>5, CreateKeeps, Zenon
<1>2. ASSUME NEW k \in Key, Is(k, "escrow")
      PROVE  /\ entry[k].owner \in Account /\ entry[k].dest \in Account
             /\ root[entry[k].owner] # Absent /\ root[entry[k].dest] # Absent
             /\ entry[k].amount \in Nat
  <2>1. entry[k] \in Entry /\ entry[k].kind = "escrow"
    BY <1>0, <1>2, Zenon DEF Is, Optional
  <2>2. entry[k] \in EscrowEntry /\ Parties(entry[k]) = {entry[k].owner, entry[k].dest}
    BY <2>1, ByKind, Zenon DEF Parties
  <2> HIDE DEF Parties
  <2> QED
    BY <1>0, <1>2, <2>2, Zenon DEF EscrowEntry, PartiesOK, Is
<1>3. ASSUME NEW a \in Account, NEW k \in Key, EscrowFinish(a, k)
      PROVE  ReserveKept
  <2> DEFINE e == entry[k]
             r == IF native THEN AddBalance(root, e.dest, e.amount)
                  ELSE RootsTransferred(e.owner, e.dest, e.amount, m)
  <2>1. /\ Is(k, "escrow") /\ entry' = [entry EXCEPT ![k] = Absent]
        /\ root' = AdjustOwnerCount(r, e.owner, m)
    BY <1>3, Zenon DEF EscrowFinish
  <2>2. /\ e.owner \in Account /\ e.dest \in Account /\ root[e.owner] # Absent
        /\ root[e.dest] # Absent /\ e.amount \in Nat
    BY <1>2, <2>1, Zenon
  <2>3. NotLower(root, r)
    BY <1>0, <2>2, NotLowerRoots, NotLowerTransferred, Zenon
  <2> HIDE DEF e, r, m
  <2> QED
    BY <1>0, <2>1, <2>2, <2>3, DroppedKeeps, Zenon
<1>4. ASSUME NEW a \in Account, NEW k \in Key, EscrowCancel(a, k)
      PROVE  ReserveKept
  <2> DEFINE e == entry[k]
             x == IF native THEN e.amount ELSE 0
  <2>1. /\ Is(k, "escrow") /\ entry' = [entry EXCEPT ![k] = Absent]
        /\ root' = AdjustOwnerCount(AddBalance(root, e.owner, x), e.owner, m)
    BY <1>4, Zenon DEF EscrowCancel
  <2>2. e.owner \in Account /\ root[e.owner] # Absent /\ x \in Nat
    BY <1>2, <2>1, Zenon
  <2>3. NotLower(root, root)
    BY <1>0, NotLowerSame, Zenon
  <2> HIDE DEF e, x, m
  <2> QED
    BY <1>0, <2>1, <2>2, <2>3, GoneKeeps, Zenon
<1> QED
  BY <1>1, <1>3, <1>4, Zenon DEF EscrowStep

\* Closing a channel gives the owner what remains.
LEMMA CloseKeeps ==
    ASSUME HInv, NEW k \in Key, Is(k, "paychan"), NEW e \in PayChanEntry, e.paid <= e.amount,
           e.owner = entry[k].owner, NEW l, NEW r, NotLower(root, r), CloseChannel(k, e, l, r)
    PROVE  ReserveKept
<1> DEFINE m == -1
           x == IF native THEN Remaining(e) ELSE 0
<1>0. /\ mode \in Mode /\ root \in Roots /\ entry \in [Key -> Optional(Entry)] /\ m \in Int
      /\ native \in BOOLEAN /\ EntriesOK(entry) /\ PartiesOK(root, entry, line)
  BY ModeTypes, SMTT(30) DEF HInv, Sound, Linked, EntriesOK
<1>1. /\ entry' = [entry EXCEPT ![k] = Absent]
      /\ root' = AdjustOwnerCount(AddBalance(r, e.owner, x), e.owner, m)
  BY Zenon DEF CloseChannel
<1>2. e.owner \in Account /\ x \in Nat
  BY <1>0 DEF PayChanEntry, Remaining
<1>3. root[e.owner] # Absent
  <2>1. entry[k] # Absent /\ e.owner \in Parties(entry[k])
    BY <1>0, ChannelAt, SMTT(30) DEF Is
  <2> HIDE DEF Parties
  <2> QED
    BY <1>0, <2>1, Zenon DEF PartiesOK
<1> HIDE DEF x, m
<1> QED
  BY <1>0, <1>1, <1>2, <1>3, GoneKeeps, Zenon

\* Fund: the owner's balance covers the reserve and the amount.
LEMMA FundKeeps ==
    ASSUME HInv, NEW a \in Account, NEW k \in Key, NEW amt \in Amount,
           NEW extend \in Optional(mode.deadlines), Fund(a, k, amt, extend)
    PROVE  ReserveKept
<1> DEFINE e == entry[k]
           f == IF extend = Absent THEN e ELSE WithExpiration(e, extend)
           g == [f EXCEPT !.amount = @ + amt]
           x == IF native THEN -amt ELSE 0
<1>0. /\ mode \in Mode /\ root \in Roots /\ entry \in [Key -> Optional(Entry)] /\ now \in Nat
      /\ native \in BOOLEAN /\ EntriesOK(entry) /\ amt \in Nat /\ extend \in Optional(Nat)
  BY ModeTypes, SMTT(30) DEF HInv, Sound, Linked, EntriesOK, Optional
<1>1. /\ e # Absent /\ e.kind = "paychan" /\ a = e.owner /\ root[a] # Absent
      /\ root[a].bal >= Reserve(root[a].owners) + (IF native THEN amt ELSE 0)
      /\ root' = AddBalance(root, a, x) /\ entry' = [entry EXCEPT ![k] = g]
  BY Zenon DEF Fund, Is, Exists
<1>2. e \in PayChanEntry
  BY <1>0, <1>1, ChannelAt, Zenon
<1>3. f \in PayChanEntry /\ f.owner = a
  BY <1>0, <1>1, <1>2, ExpirationType, Zenon
<1> HIDE DEF f
<1>4. g.owner = a
  BY <1>3, Zenon DEF PayChanEntry
<1> HIDE DEF g
<1>5. root[a].bal \in Nat /\ Reserve(root[a].owners) \in Nat
  BY <1>0, <1>1, RootAt, ReserveNat, Zenon
<1>6. x \in Int /\ root[a].bal + x >= Reserve(root[a].owners) /\ root[a].bal + x >= 0
  BY <1>0, <1>1, <1>5, SMTT(30)
<1> HIDE DEF x
<1>7. /\ root'[a].bal = root[a].bal + x /\ root'[a].owners = root[a].owners
      /\ \A b \in Account : b # a => root'[b] = root[b]
  BY <1>0, <1>1, <1>6, AddBalanceRoots, SMTT(30)
<1>8. \A b \in Account : root[b] # Absent => root[b].bal \in Nat
  BY <1>0, RootAt, Zenon
<1>9. \A b \in Account \ {a} : /\ root[b] # Absent /\ root'[b] # Absent => root'[b].bal >= root[b].bal
                               /\ OwnedBy(entry', b) \subseteq OwnedBy(entry, b)
  BY <1>0, <1>1, <1>4, <1>7, <1>8, SMTT(30) DEF OwnedBy
<1>10. root'[a].bal >= Reserve(root'[a].owners)
  BY <1>6, <1>7, Zenon
<1> QED
  BY <1>9, <1>10, SpentBy, Zenon

\* A claim only pays.
LEMMA ClaimKeeps ==
    ASSUME HInv, NEW a \in Account, NEW k \in Key, NEW req \in Optional(Amount), NEW flag,
           Claim(a, k, req, flag)
    PROVE  ReserveKept
<1> DEFINE e == entry[k]
           pays == req # Absent
           delta == req - e.paid
           claimed == IF pays THEN [e EXCEPT !.paid = req] ELSE e
           l == IF pays /\ ~native THEN LinesTransferred(e.owner, e.dest, delta, 0) ELSE line
           r == IF ~pays THEN root
                ELSE IF native THEN AddBalance(root, e.dest, delta)
                ELSE RootsTransferred(e.owner, e.dest, delta, 0)
           closes == flag = "close" /\ (a = e.dest \/ claimed.paid = claimed.amount)
<1>0. /\ mode \in Mode /\ root \in Roots /\ entry \in [Key -> Optional(Entry)] /\ now \in Nat
      /\ native \in BOOLEAN /\ EntriesOK(entry) /\ PartiesOK(root, entry, line)
  BY ModeTypes, SMTT(30) DEF HInv, Sound, Linked, EntriesOK
<1>1. /\ Is(k, "paychan") /\ e # Absent /\ e.kind = "paychan"
      /\ pays => e.paid < req /\ req <= e.amount
      /\ closes => CloseChannel(k, claimed, l, r)
      /\ ~closes => entry' = [entry EXCEPT ![k] = Renewed(claimed, flag)] /\ root' = r
  BY Zenon DEF Claim, Is
<1>2. /\ e \in PayChanEntry /\ e.paid \in Nat /\ e.amount \in Nat /\ e.paid <= e.amount
      /\ e.owner \in Account /\ e.dest \in Account /\ Parties(e) = {e.owner, e.dest}
  BY <1>0, <1>1, ChannelAt, Zenon
<1>3. root[e.owner] # Absent /\ root[e.dest] # Absent
  <2> HIDE DEF Parties
  <2> QED
    BY <1>0, <1>1, <1>2, Zenon DEF PartiesOK
<1>4. pays => req \in Nat /\ delta \in Nat
  <2>1. pays => req \in Nat
    BY <1>0, ModeTypes, Zenon DEF Optional
  <2> QED
    BY <1>1, <1>2, <2>1, SMTT(30)
<1>5. claimed \in PayChanEntry /\ claimed.owner = e.owner /\ claimed.paid <= claimed.amount
  BY <1>1, <1>2, <1>4, Zenon DEF PayChanEntry
<1>6. NotLower(root, r)
  <2>1. CASE ~pays
    BY <1>0, <2>1, NotLowerSame, Zenon
  <2>2. CASE pays /\ native
    BY <1>0, <1>2, <1>3, <1>4, <2>2, NotLowerRoots, Zenon
  <2>3. CASE pays /\ ~native
    BY <1>0, <1>2, <1>3, <2>3, NotLowerTransferred, Zenon
  <2> QED
    BY <2>1, <2>2, <2>3, Zenon
<1> HIDE DEF r, l, claimed
<1>7. CASE closes
  BY <1>1, <1>5, <1>6, <1>7, CloseKeeps, Zenon
<1>8. CASE ~closes
  <2>1. Renewed(claimed, flag).owner = e.owner
    BY <1>0, <1>5, RenewedType, Zenon
  <2>2. NoneGained(entry, entry')
    BY <1>0, <1>1, <1>8, <2>1, NoneGainedAt, Zenon
  <2> QED
    BY <1>1, <1>6, <1>8, <2>2, Unspent, Zenon
<1> QED
  BY <1>7, <1>8, Zenon

\* Payment channels: see above, and creation as for escrows.
LEMMA PayChanKeeps ==
    ASSUME HInv, PayChanStep
    PROVE  ReserveKept
<1>0. /\ mode \in Mode /\ root \in Roots /\ entry \in [Key -> Optional(Entry)]
      /\ native \in BOOLEAN /\ EntriesOK(entry)
  BY ModeTypes, Zenon DEF HInv, Sound, Linked, EntriesOK
<1>1. ASSUME NEW a \in Account, NEW dst \in Account, NEW amt \in Amount, NEW cancel,
             PayChanCreate(a, dst, amt, cancel)
      PROVE  ReserveKept
  <2> DEFINE e == [kind |-> "paychan", owner |-> a, dest |-> dst, amount |-> amt, paid |-> 0,
                   cancel |-> cancel, expiration |-> Absent, asked |-> Absent]
             x == IF native THEN -amt ELSE 0
             r == AddBalance(root, a, x)
  <2>1. PICK k \in Free : entry' = [entry EXCEPT ![k] = e]
    BY <1>1, Zenon DEF PayChanCreate
  <2>2. /\ k \in Key /\ e.owner = a /\ root[a] # Absent /\ root' = AdjustOwnerCount(r, a, 1)
        /\ root[a].bal >= Reserve(root[a].owners + 1) + (IF native THEN amt ELSE 0)
    BY <1>1, Zenon DEF Free, PayChanCreate, Exists
  <2>3. amt \in Nat /\ root[a].bal \in Nat /\ Reserve(root[a].owners + 1) \in Nat
    <3>1. root[a].bal \in Nat /\ root[a].owners + 1 \in Nat
      BY <1>0, <2>2, RootAt, SMTT(30)
    <3> QED
      BY <1>0, <3>1, ReserveNat, ModeTypes, Zenon
  <2>4. x \in Int /\ root[a].bal + x >= Reserve(root[a].owners + 1) /\ root[a].bal + x >= 0
    BY <1>0, <2>2, <2>3, SMTT(30)
  <2> HIDE DEF e, x
  <2>5. /\ r \in Roots /\ r[a] # Absent /\ r[a].owners = root[a].owners /\ r[a].bal = root[a].bal + x
        /\ \A b \in Account : b # a => r[b] = root[b]
    BY <1>0, <2>2, <2>4, AddBalanceRoots, SMTT(30)
  <2> HIDE DEF r
  <2> QED
    BY <1>0, <2>1, <2>2, <2>4, <2>5, CreateKeeps, Zenon
<1>2. ASSUME NEW a \in Account, NEW k \in Key, NEW amt, FundExpired(a, k, amt) \/ ClaimExpired(a, k)
      PROVE  ReserveKept
  <2>1. Is(k, "paychan") /\ CloseChannel(k, entry[k], line, root)
    BY <1>2, Zenon DEF FundExpired, ClaimExpired
  <2>2. entry[k] \in PayChanEntry /\ entry[k].paid <= entry[k].amount /\ NotLower(root, root)
    BY <1>0, <2>1, ChannelAt, NotLowerSame, Zenon DEF Is
  <2> QED
    BY <2>1, <2>2, CloseKeeps, Zenon
<1> QED
  BY <1>1, <1>2, FundKeeps, ClaimKeeps, Zenon DEF PayChanStep

\* Account by account.
LEMMA KeptEach ==
    ASSUME \A b \in Account :
               root[b] # Absent /\ root'[b] # Absent =>
                   \/ root'[b].bal >= Reserve(root'[b].owners)
                   \/ root'[b].bal >= root[b].bal /\ OwnedBy(entry', b) \subseteq OwnedBy(entry, b)
    PROVE  ReserveKept
<1>1. \A b : Owned(b) = OwnedBy(entry, b) /\ Owned(b)' = OwnedBy(entry', b)
  BY Zenon DEF Owned, Entries, OwnedBy
<1> HIDE DEF Owned
<1> QED
  BY <1>1, Zenon DEF ReserveKept, Exists

\* A payment of drops from a to b.
LEMMA MovedRoots ==
    ASSUME NEW r \in Roots, NEW a \in Account, NEW b \in Account, r[a] # Absent, r[b] # Absent,
           NEW amt \in Nat, amt <= r[a].bal
    PROVE  LET s == AddBalance(AddBalance(r, a, -amt), b, amt)
           IN  /\ s \in Roots /\ s[a] # Absent /\ s[b] # Absent
               /\ s[a].owners = r[a].owners /\ s[b].owners = r[b].owners
               /\ s[a].bal >= r[a].bal - amt /\ s[a].bal \in Nat
               /\ \A c \in Account \ {a} : r[c] # Absent => s[c] # Absent /\ s[c].bal >= r[c].bal
<1> DEFINE x == -amt
           t == AddBalance(r, a, x)
           s == AddBalance(t, b, amt)
<1>1. x \in Int /\ r[a].bal \in Nat /\ r[a].bal + x >= 0 /\ r[a].bal + x = r[a].bal - amt
  BY RootAt
<1> HIDE DEF x
<1>2. /\ t \in Roots /\ t[a] # Absent /\ t[a].bal = r[a].bal + x /\ t[a].owners = r[a].owners
      /\ \A c \in Account : c # a => t[c] = r[c]
  BY <1>1, AddBalanceRoots, Zenon
<1> HIDE DEF t
<1>3. t[b] # Absent /\ t[b].bal \in Nat /\ amt \in Int
  BY <1>2, RootAt, SMTT(30)
<1>4. /\ s \in Roots /\ s[b] # Absent /\ s[b].bal = t[b].bal + amt /\ s[b].owners = t[b].owners
      /\ \A c \in Account : c # b => s[c] = t[c]
  <2>1. t[b].bal + amt >= 0
    BY <1>3
  <2> QED
    BY <1>2, <1>3, <2>1, AddBalanceRoots, SMTT(30)
<1> HIDE DEF s
<1>5. \A c \in Account : r[c] # Absent => r[c].bal \in Nat
  BY RootAt, Zenon
<1>6. s[a] # Absent /\ s[a].owners = r[a].owners /\ s[b].owners = r[b].owners
  BY <1>2, <1>4, Zenon
<1>7. s[a].bal >= r[a].bal - amt /\ s[a].bal \in Nat
  <2>1. s[a].bal \in Nat
    BY <1>4, <1>6, RootAt, Zenon
  <2>2. CASE a = b
    BY <1>1, <1>2, <1>3, <1>4, <2>1, <2>2, SMTT(30)
  <2>3. CASE a # b
    BY <1>1, <1>2, <1>4, <2>1, <2>3, SMTT(30)
  <2> QED
    BY <2>1, <2>2, <2>3, Zenon
<1>8. ASSUME NEW c \in Account \ {a}, r[c] # Absent
      PROVE  s[c] # Absent /\ s[c].bal >= r[c].bal
  <2>1. CASE c = b
    BY <1>2, <1>3, <1>4, <1>5, <1>8, <2>1, SMTT(30)
  <2>2. CASE c # b
    BY <1>2, <1>4, <1>5, <1>8, <2>2, SMTT(30)
  <2> QED
    BY <2>1, <2>2, Zenon
<1>9. /\ s \in Roots /\ s[a] # Absent /\ s[b] # Absent
      /\ s[a].owners = r[a].owners /\ s[b].owners = r[b].owners
      /\ s[a].bal >= r[a].bal - amt /\ s[a].bal \in Nat
      /\ \A c \in Account \ {a} : r[c] # Absent => s[c] # Absent /\ s[c].bal >= r[c].bal
  BY <1>4, <1>6, <1>7, <1>8, Zenon
<1> QED
  BY <1>9, Zenon DEF s, t, x

\* Cashing a check leaves its writer the reserve of what the writer still owns.
LEMMA CheckCashKeeps ==
    ASSUME HInv, NEW a \in Account, NEW k \in Key, NEW value \in Amount, NEW atLeast,
           CheckCash(a, k, value, atLeast)
    PROVE  ReserveKept
<1> DEFINE e == entry[k]
           o == e.owner
           paid == Delivered(e, value, atLeast)
           m == -1
           r == AddBalance(AddBalance(root, o, -paid), a, paid)
<1>0. /\ mode \in Mode /\ root \in Roots /\ EntriesOK(entry) /\ entry \in [Key -> Optional(Entry)]
      /\ value \in Nat /\ m \in Int
  BY ModeTypes, SMTT(30) DEF HInv, Sound, Linked, EntriesOK
<1>1. /\ root[a] # Absent /\ e # Absent /\ e.kind = "check" /\ root[o] # Absent
      /\ paid <= Liquid(o, m) /\ root' = AdjustOwnerCount(r, o, m)
      /\ entry' = [entry EXCEPT ![k] = Absent]
  BY Zenon DEF CheckCash, CheckGone, Is, Exists
<1>2. e \in CheckEntry /\ o \in Account
  <2>1. e \in Entry
    BY <1>0, <1>1, Zenon DEF Optional
  <2> QED
    BY <1>1, <2>1, ByKind, Zenon
<1>3. paid \in Nat /\ paid <= root[o].bal
  BY <1>0, <1>1, <1>2, DeliveredType, Zenon
<1> HIDE DEF paid, e
<1>4. /\ r \in Roots /\ r[o] # Absent /\ r[o].owners = root[o].owners
      /\ r[o].bal >= root[o].bal - paid /\ r[o].bal \in Nat
      /\ \A c \in Account \ {o} : root[c] # Absent => r[c] # Absent /\ r[c].bal >= root[c].bal
  BY <1>0, <1>1, <1>2, <1>3, MovedRoots, SMTT(30)
<1> HIDE DEF r, m, o
<1>5. /\ root'[o].bal = r[o].bal /\ root'[o].owners = Confined(root[o].owners + m)
      /\ \A c \in Account : c # o => root'[c] = r[c]
  <2>1. r \in Roots /\ o \in Account /\ r[o] # Absent /\ m \in Int
    BY <1>0, <1>2, <1>4, Zenon
  <2>2. /\ AdjustOwnerCount(r, o, m)[o].bal = r[o].bal
        /\ AdjustOwnerCount(r, o, m)[o].owners = Confined(r[o].owners + m)
        /\ \A c \in Account : c # o => AdjustOwnerCount(r, o, m)[c] = r[c]
    BY <2>1, AdjustOwnerCountRoots, Zenon
  <2> QED
    BY <1>1, <1>4, <2>2, Zenon
<1>6. \A c \in Account : OwnedBy(entry', c) \subseteq OwnedBy(entry, c)
  BY <1>0, <1>1, Zenon DEF OwnedBy
<1>7. root[o].bal \in Nat /\ Reserve(Confined(root[o].owners + m)) \in Nat
  <2>1. root[o].bal \in Nat /\ root[o].owners \in Nat
    BY <1>0, <1>1, <1>2, RootAt, Zenon
  <2>2. Confined(root[o].owners + m) \in Nat
    BY <1>0, <2>1, SMTT(30) DEF Confined
  <2> QED
    BY <2>1, <2>2, ReserveNat, Zenon
<1>8. root'[o].bal >= Reserve(root'[o].owners) \/ root'[o].bal >= root[o].bal
  <2>1. CASE paid = 0
    BY <1>4, <1>5, <1>7, <2>1, SMTT(30)
  <2>2. CASE paid # 0
    <3>1. /\ root[o].bal >= Reserve(Confined(root[o].owners + m))
          /\ paid <= root[o].bal - Reserve(Confined(root[o].owners + m))
      BY <1>1, <1>3, <1>7, <2>2, SMTT(30) DEF Liquid
    <3>2. r[o].bal >= Reserve(Confined(root[o].owners + m))
      BY <1>3, <1>4, <1>7, <3>1, SMTT(30)
    <3> QED
      BY <1>5, <3>2, Zenon
  <2> QED
    BY <2>1, <2>2, Zenon
<1>9. ASSUME NEW b \in Account, root[b] # Absent, root'[b] # Absent
      PROVE  \/ root'[b].bal >= Reserve(root'[b].owners)
             \/ root'[b].bal >= root[b].bal /\ OwnedBy(entry', b) \subseteq OwnedBy(entry, b)
  <2>1. CASE b = o
    BY <1>6, <1>8, <2>1, Zenon
  <2>2. CASE b # o
    BY <1>4, <1>5, <1>6, <1>9, <2>2, Zenon
  <2> QED
    BY <2>1, <2>2, Zenon
<1> QED
  BY <1>9, KeptEach, Zenon

\* Checks and tickets: the writer's or the buyer's funds are tested, and a ticket
\* that is used or a check that is cancelled moves no drops.
LEMMA CheckKeeps ==
    ASSUME HInv, CheckStep
    PROVE  ReserveKept
<1> DEFINE m == -1
<1>0. /\ mode \in Mode /\ root \in Roots /\ entry \in [Key -> Optional(Entry)] /\ m \in Int
      /\ EntriesOK(entry) /\ PartiesOK(root, entry, line) /\ OwnersOK(root, entry, line)
      /\ NotLower(root, root)
  BY NotLowerSame, SMTT(30) DEF HInv, Sound, Linked, EntriesOK
<1>1. ASSUME NEW a \in Account, NEW dst \in Account, NEW amt \in Amount, NEW expiration,
             CheckCreate(a, dst, amt, expiration)
      PROVE  ReserveKept
  <2> DEFINE e == [kind |-> "check", owner |-> a, dest |-> dst, amount |-> amt,
                   expiration |-> expiration]
  <2>1. PICK k \in Free : entry' = [entry EXCEPT ![k] = e]
    BY <1>1, Zenon DEF CheckCreate
  <2>2. /\ k \in Key /\ e.owner = a /\ root[a] # Absent /\ root' = AdjustOwnerCount(root, a, 1)
        /\ root[a].bal >= Reserve(root[a].owners + 1)
    BY <1>1, Zenon DEF Free, CheckCreate, Exists
  <2> HIDE DEF e
  <2>3. root[a].bal + 0 = root[a].bal /\ 0 \in Int
    BY <1>0, <2>2, RootAt, SMTT(30)
  <2> QED
    BY <1>0, <2>1, <2>2, <2>3, CreateKeeps, Zenon
<1>2. ASSUME NEW a \in Account, NEW k \in Key, CheckCancel(a, k)
      PROVE  ReserveKept
  <2> DEFINE o == entry[k].owner
  <2>1. /\ entry[k] # Absent /\ root' = AdjustOwnerCount(root, o, m)
        /\ entry' = [entry EXCEPT ![k] = Absent]
    BY <1>2, Zenon DEF CheckCancel, CheckGone, Is
  <2>2. o \in Account /\ o \in Parties(entry[k])
    <3>1. entry[k] \in Entry
      BY <1>0, <2>1, Zenon DEF Optional
    <3> QED
      BY <3>1, ByKind, Zenon DEF Parties
  <2>3. root[o] # Absent
    <3> HIDE DEF Parties
    <3> QED
      BY <1>0, <2>1, <2>2, Zenon DEF PartiesOK
  <2> HIDE DEF o, m
  <2> QED
    BY <1>0, <2>1, <2>2, <2>3, DroppedKeeps, Zenon
<1>3. ASSUME NEW a \in Account, NEW K \in SUBSET Free, TicketCreate(a, K)
      PROVE  ReserveKept
  <2> DEFINE e == [kind |-> "ticket", owner |-> a]
             c == Cardinality(K)
             t == root[a].tickets + c
  <2>1. /\ root[a] # Absent /\ root[a].bal >= Reserve(root[a].owners + c)
        /\ entry' = [k \in Key |-> IF k \in K THEN e ELSE entry[k]]
        /\ root' = AdjustOwnerCount([root EXCEPT ![a].tickets = t], a, c)
    BY <1>3, Zenon DEF TicketCreate, Exists
  <2>2. c \in Nat /\ e.owner = a
    <3>1. K \in SUBSET Key /\ IsFiniteSet(Key)
      BY ModeAssumption, Zenon DEF Free
    <3>2. IsFiniteSet(K)
      BY <3>1, FS_Subset, Zenon
    <3> QED
      BY <3>2, FS_CardinalityType, Zenon
  <2> HIDE DEF c, e
  <2>3. t \in Nat /\ c \in Int /\ root[a].owners \in Nat /\ root[a].bal \in Nat
    BY <1>0, <2>1, <2>2, RootAt, SMTT(30)
  <2> HIDE DEF t
  <2>4. Ticketed(root, root', a, t, c)
    BY <1>0, <2>1, <2>3, TicketRoots, Zenon
  <2>5. root'[a].bal >= Reserve(root'[a].owners)
    <3>1. Confined(root[a].owners + c) = root[a].owners + c
      BY <2>2, <2>3, SMTT(30) DEF Confined
    <3> QED
      BY <2>1, <2>4, <3>1, Zenon DEF Ticketed
  <2>6. \A b \in Account : root[b] # Absent => root[b].bal \in Nat
    BY <1>0, RootAt, Zenon
  <2>7. \A b \in Account \ {a} : root[b] # Absent => root'[b].bal >= root[b].bal
    BY <2>4, <2>6, SMTT(30) DEF Ticketed
  <2>8. \A b \in Account \ {a} : OwnedBy(entry', b) \subseteq OwnedBy(entry, b)
    BY <2>1, <2>2, Zenon DEF OwnedBy
  <2> QED
    BY <2>5, <2>7, <2>8, SpentBy, Zenon
<1>4. ASSUME NEW a \in Account, NEW k \in Key, TicketUse(a, k)
      PROVE  ReserveKept
  <2> DEFINE t == root[a].tickets - 1
  <2>1. /\ entry[k] # Absent /\ entry[k].kind = "ticket" /\ entry[k].owner = a
        /\ entry' = [entry EXCEPT ![k] = Absent]
        /\ root' = AdjustOwnerCount([root EXCEPT ![a].tickets = t], a, m)
    BY <1>4, Zenon DEF TicketUse, Is
  <2>2. root[a] # Absent
    <3>1. a \in Parties(entry[k])
      BY <2>1, Zenon DEF Parties
    <3> HIDE DEF Parties
    <3> QED
      BY <1>0, <2>1, <3>1, Zenon DEF PartiesOK
  <2>3. k \in TicketsOf(entry, a)
    BY <2>1, Zenon DEF TicketsOf, OwnedBy
  <2>4. Cardinality(TicketsOf(entry, a)) > 0 /\ Cardinality(TicketsOf(entry, a)) \in Nat
    BY <2>3, CountsFinite, CardAt, Zenon
  <2>5. t \in Nat
    BY <1>0, <2>2, <2>4, SMTT(30) DEF OwnersOK
  <2> HIDE DEF t, m
  <2>6. Ticketed(root, root', a, t, m)
    BY <1>0, <2>1, <2>2, <2>5, TicketRoots, Zenon
  <2>7. \A b \in Account : root[b] # Absent => root[b].bal \in Nat
    BY <1>0, RootAt, Zenon
  <2>8. NotLower(root, root')
    BY <2>2, <2>6, <2>7, SMTT(30) DEF Ticketed, NotLower
  <2>9. NoneGained(entry, entry')
    BY <1>0, <2>1, NoneGainedAt, Zenon
  <2> QED
    BY <2>8, <2>9, Unspent, Zenon
<1> QED
  BY <1>1, <1>2, <1>3, <1>4, CheckCashKeeps, Zenon DEF CheckStep

\* URI tokens: the minter's and the buyer's funds are tested, and the seller's too.
LEMMA URITokenKeeps ==
    ASSUME HInv, URITokenStep
    PROVE  ReserveKept
<1> DEFINE m == -1
<1>0. /\ mode \in Mode /\ root \in Roots /\ entry \in [Key -> Optional(Entry)] /\ m \in Int
      /\ EntriesOK(entry) /\ PartiesOK(root, entry, line) /\ NotLower(root, root)
  BY NotLowerSame, SMTT(30) DEF HInv, Sound, Linked, EntriesOK
<1>1. ASSUME NEW a \in Account, NEW b, NEW p, NEW dst, URITokenMint(a, b, p, dst)
      PROVE  ReserveKept
  <2> DEFINE e == [kind |-> "uritoken", owner |-> a, issuer |-> a, burnable |-> b,
                   price |-> p, dest |-> dst]
             r == [root EXCEPT ![a].minter = TRUE]
  <2>1. PICK k \in Free : entry' = [entry EXCEPT ![k] = e]
    BY <1>1, Zenon DEF URITokenMint
  <2>2. /\ k \in Key /\ e.owner = a /\ root[a] # Absent /\ root' = AdjustOwnerCount(r, a, 1)
        /\ root[a].bal >= Reserve(root[a].owners + 1)
    BY <1>1, Zenon DEF Free, URITokenMint, Exists
  <2> HIDE DEF e
  <2>3. root[a].bal + 0 = root[a].bal /\ 0 \in Int
    BY <1>0, <2>2, RootAt, SMTT(30)
  <2>4. /\ r \in Roots /\ \A c \in Account \ {a} : r[c] = root[c]
        /\ r[a] # Absent /\ r[a].bal = root[a].bal /\ r[a].owners = root[a].owners
    <3>1. root \in Roots /\ root[a] # Absent
      BY <1>0, <2>2, Zenon
    <3>2. /\ r \in Roots /\ \A c \in Account \ {a} : r[c] = root[c]
          /\ r[a] # Absent /\ r[a].bal = root[a].bal /\ r[a].owners = root[a].owners
          /\ r[a].tickets = root[a].tickets /\ r[a].minter = TRUE
      BY <3>1, MinterRoots, Zenon
    <3> HIDE DEF r
    <3> QED
      BY <3>2, Zenon
  <2> HIDE DEF r
  <2> QED
    BY <1>0, <2>1, <2>2, <2>3, <2>4, CreateKeeps, ZenonT(60)
<1>2. ASSUME NEW k \in Key, Is(k, "uritoken")
      PROVE  /\ entry[k] \in URITokenEntry /\ entry[k].owner \in Account
             /\ root[entry[k].owner] # Absent /\ entry[k] # Absent
  <2>1. /\ entry[k] \in URITokenEntry /\ entry[k].owner \in Account /\ entry[k] # Absent
        /\ entry[k].owner \in Parties(entry[k])
    BY <1>0, <1>2, TokenAt, Zenon DEF Is
  <2> HIDE DEF Parties
  <2> QED
    BY <1>0, <2>1, Zenon DEF PartiesOK
<1>3. ASSUME NEW a \in Account, NEW k \in Key, NEW p, NEW dst,
             URITokenCreateSellOffer(a, k, p, dst) \/ URITokenCancelSellOffer(a, k)
      PROVE  ReserveKept
  <2>1. /\ Is(k, "uritoken") /\ root' = root
        /\ \/ entry' = [entry EXCEPT ![k].price = p, ![k].dest = dst]
           \/ entry' = [entry EXCEPT ![k].price = Absent, ![k].dest = Absent]
    BY <1>3, Zenon DEF URITokenCreateSellOffer, URITokenCancelSellOffer
  <2>2. entry[k] \in URITokenEntry /\ entry[k] # Absent
    BY <1>2, <2>1, Zenon
  <2>3. entry'[k].owner = entry[k].owner /\ \A j \in Key \ {k} : entry'[j] = entry[j]
    BY <1>0, <2>1, <2>2, SMTT(30) DEF URITokenEntry
  <2>4. NoneGained(entry, entry')
    BY <2>2, <2>3, Zenon DEF NoneGained, OwnedBy
  <2> QED
    BY <1>0, <2>1, <2>4, Unspent, Zenon
<1>4. ASSUME NEW a \in Account, NEW k \in Key, URITokenBurn(a, k)
      PROVE  ReserveKept
  <2>1. /\ Is(k, "uritoken") /\ root' = AdjustOwnerCount(root, entry[k].owner, m)
        /\ entry' = [entry EXCEPT ![k] = Absent]
    BY <1>4, Zenon DEF URITokenBurn
  <2> HIDE DEF m
  <2> QED
    BY <1>0, <1>2, <2>1, DroppedKeeps, Zenon
<1>5. ASSUME NEW a \in Account, NEW k \in Key, NEW p \in Amount \cup {0}, URITokenBuy(a, k, p)
      PROVE  ReserveKept
  <2> DEFINE o == entry[k].owner
             r == AddBalance(AddBalance(root, a, -p), o, p)
             s == AdjustOwnerCount(r, o, m)
  <2>1. /\ Is(k, "uritoken") /\ root[a] # Absent /\ root' = AdjustOwnerCount(s, a, 1)
        /\ entry' = [entry EXCEPT ![k].owner = a, ![k].price = Absent, ![k].dest = Absent]
        /\ Reserve(root[a].owners + 1) + p <= root[a].bal
        /\ root'[a].bal >= Reserve(root'[a].owners) /\ root'[o].bal >= Reserve(root'[o].owners)
    BY <1>5, Zenon DEF URITokenBuy, Exists
  <2>2. /\ entry[k] \in URITokenEntry /\ o \in Account /\ root[o] # Absent
        /\ p \in Nat /\ p <= root[a].bal
    <3>1. entry[k] \in URITokenEntry /\ o \in Account /\ root[o] # Absent
      BY <1>2, <2>1, Zenon
    <3>2. p \in Nat
      BY <1>0, ModeTypes, SMTT(30)
    <3>3. root[a].bal \in Nat /\ Reserve(root[a].owners + 1) \in Nat
      BY <1>0, <2>1, RootAt, ReserveNat, SMTT(30)
    <3> QED
      BY <2>1, <3>1, <3>2, <3>3, SMTT(30)
  <2>3. entry'[k].owner = a /\ \A j \in Key \ {k} : entry'[j] = entry[j]
    BY <1>0, <2>1, <2>2, Zenon DEF URITokenEntry
  <2> HIDE DEF o
  <2>4. /\ r \in Roots /\ r[a] # Absent /\ r[o] # Absent
        /\ \A c \in Account \ {a} : root[c] # Absent => r[c] # Absent /\ r[c].bal >= root[c].bal
    BY <1>0, <2>1, <2>2, MovedRoots, SMTT(30)
  <2> HIDE DEF r, m
  <2>5. s \in Roots /\ s[a] # Absent /\ \A c \in Account : c # o => s[c] = r[c]
    <3>1. s \in Roots /\ s[o] # Absent /\ \A c \in Account : c # o => s[c] = r[c]
      BY <1>0, <2>2, <2>4, AdjustOwnerCountRoots, Zenon
    <3> QED
      BY <2>4, <3>1, Zenon
  <2> HIDE DEF s
  <2>6. \A c \in Account : c # a => root'[c] = s[c]
    BY <2>1, <2>5, AdjustOwnerCountRoots, SMTT(30)
  <2>7. \A c \in Account \ {a} : OwnedBy(entry', c) \subseteq OwnedBy(entry, c)
    BY <2>3, Zenon DEF OwnedBy
  <2>8. ASSUME NEW c \in Account, root[c] # Absent
        PROVE  \/ root'[c].bal >= Reserve(root'[c].owners)
               \/ root'[c].bal >= root[c].bal /\ OwnedBy(entry', c) \subseteq OwnedBy(entry, c)
    <3>1. CASE c \in {a, o}
      BY <2>1, <3>1, Zenon
    <3>2. CASE c \notin {a, o}
      BY <2>4, <2>5, <2>6, <2>7, <2>8, <3>2, Zenon
    <3> QED
      BY <3>1, <3>2, Zenon
  <2> QED
    BY <2>8, KeptEach, Zenon
<1> QED
  BY <1>1, <1>3, <1>4, <1>5, Zenon DEF URITokenStep

\* TrustSet and payments of tokens change owner counts but no drops.
LEMMA LineKeeps ==
    ASSUME HInv, LineStep
    PROVE  ReserveKept
<1> DEFINE m == -1
<1>0. /\ mode \in Mode /\ root \in Roots /\ m \in Int /\ NotLower(root, root)
      /\ PartiesOK(root, entry, line) /\ Issuer \in Account
  BY NotLowerSame, LedgerAssumption, SMTT(30) DEF HInv, Sound, Linked
<1>1. entry' = entry
  BY Zenon DEF LineStep, TrustCreate, SetLimit, SetFreeze, TrustChanged, TokenPayment
<1>2. NoneGained(entry, entry')
  BY <1>1, Zenon DEF NoneGained
<1>3. ASSUME NEW a \in Account, NEW limit, TrustCreate(a, limit)
      PROVE  NotLower(root, root')
  <2>1. root[a] # Absent /\ root' = AdjustOwnerCount(root, a, 1)
    BY <1>3, Zenon DEF TrustCreate, Exists
  <2> QED
    BY <1>0, <2>1, NotLowerRoots, SMTT(30)
<1>4. ASSUME NEW a \in Account, NEW by, NEW l, line[a] # Absent, TrustChanged(by, a, l)
      PROVE  NotLower(root, root')
  <2> DEFINE h == Count(HolderReserve(l)) - Count(line[a].reserve)
             i == Count(l.frozen) - Count(line[a].frozen)
             r == AdjustOwnerCount(root, a, h)
  <2>1. root' = AdjustOwnerCount(r, Issuer, i)
    BY <1>4, Zenon DEF TrustChanged
  <2>2. h \in Int /\ i \in Int
    BY DEF Count
  <2> HIDE DEF h, i
  <2>3. root[a] # Absent /\ root[Issuer] # Absent
    BY <1>0, <1>4, Zenon DEF PartiesOK
  <2>4. NotLower(root, r)
    BY <1>0, <2>2, <2>3, NotLowerRoots, Zenon
  <2> HIDE DEF r
  <2>5. r \in Roots /\ r[Issuer] # Absent
    BY <1>0, <2>3, <2>4, Zenon DEF NotLower
  <2>6. NotLower(r, root')
    BY <1>0, <2>1, <2>2, <2>5, NotLowerRoots, Zenon
  <2> QED
    BY <1>0, <2>4, <2>6, NotLowerTwice, Zenon
<1>5. ASSUME NEW a \in Account, NEW limit, SetLimit(a, limit)
      PROVE  NotLower(root, root')
  BY <1>4, <1>5, Zenon DEF SetLimit
<1>6. ASSUME NEW a \in Account, NEW frozen, SetFreeze(a, frozen)
      PROVE  NotLower(root, root')
  BY <1>4, <1>6, Zenon DEF SetFreeze
<1>7. ASSUME NEW a \in Account, NEW dst \in Account, NEW amt, TokenPayment(a, dst, amt)
      PROVE  NotLower(root, root')
  <2>1. root[a] # Absent /\ (root' = AdjustOwnerCount(root, a, m) \/ root' = root)
    BY <1>7, Zenon DEF TokenPayment, Exists
  <2> HIDE DEF m
  <2> QED
    BY <1>0, <2>1, NotLowerRoots, Zenon
<1>8. NotLower(root, root')
  BY <1>3, <1>5, <1>6, <1>7, Zenon DEF LineStep
<1> QED
  BY <1>2, <1>8, Unspent, Zenon

\* The payer keeps the reserve.
LEMMA PaymentKeeps ==
    ASSUME HInv, NEW a \in Account, NEW dst \in Account, NEW amt \in Amount, Payment(a, dst, amt)
    PROVE  ReserveKept
<1> DEFINE r == IF Exists(dst) THEN root ELSE [root EXCEPT ![dst] = NewRoot(0)]
<1>0. mode \in Mode /\ root \in Roots /\ amt \in Nat
  BY ModeTypes, Zenon DEF HInv, Sound, Linked
<1>1. /\ root[a] # Absent /\ a # dst /\ root[a].bal >= amt + Reserve(root[a].owners)
      /\ root' = AddBalance(AddBalance(r, a, -amt), dst, amt) /\ entry' = entry
  BY Zenon DEF Payment, Exists
<1>2. /\ r \in Roots /\ r[a] = root[a] /\ r[dst] # Absent
      /\ \A c \in Account : root[c] # Absent => r[c] = root[c]
  <2>1. NewRoot(0) \in AccountRoot
    BY Zenon DEF NewRoot, AccountRoot
  <2>2. NewRoot(0) # Absent
    BY <2>1, AbsentAssumption, Zenon
  <2> QED
    BY <1>0, <1>1, <2>1, <2>2, Zenon DEF Exists, Roots, Optional
<1> HIDE DEF r
<1>3. root[a].bal \in Nat /\ Reserve(root[a].owners) \in Nat
  BY <1>0, <1>1, RootAt, ReserveNat, Zenon
<1>4. r[a] # Absent /\ amt <= r[a].bal
  BY <1>0, <1>1, <1>2, <1>3, SMTT(30)
<1>5. /\ root'[a].owners = r[a].owners /\ root'[a].bal >= r[a].bal - amt /\ root'[a].bal \in Nat
      /\ \A c \in Account \ {a} : r[c] # Absent => root'[c].bal >= r[c].bal
  BY <1>0, <1>1, <1>2, <1>4, MovedRoots, SMTT(30)
<1>6. root'[a].bal >= Reserve(root'[a].owners)
  <2>1. root'[a].owners = root[a].owners /\ root'[a].bal >= Reserve(root[a].owners)
    BY <1>0, <1>1, <1>2, <1>3, <1>5, SMTT(30)
  <2> QED
    BY <2>1, Zenon
<1>7. \A c \in Account \ {a} :
          /\ root[c] # Absent /\ root'[c] # Absent => root'[c].bal >= root[c].bal
          /\ OwnedBy(entry', c) \subseteq OwnedBy(entry, c)
  BY <1>1, <1>2, <1>5, Zenon
<1> QED
  BY <1>6, <1>7, SpentBy, Zenon

\* The account that is deleted is gone; its balance goes to the other.
LEMMA DeleteKeeps ==
    ASSUME HInv, NEW a \in Account, NEW dst \in Account, DeleteAccount(a, dst)
    PROVE  ReserveKept
<1> DEFINE t == AddBalance(root, dst, root[a].bal)
<1>0. root \in Roots
  BY Zenon DEF HInv, Sound, Linked
<1>1. /\ root[a] # Absent /\ root[dst] # Absent /\ root' = [t EXCEPT ![a] = Absent]
      /\ entry' = [k \in Key |-> IF k \in dir[a] THEN Absent ELSE entry[k]]
  BY Zenon DEF DeleteAccount, Exists
<1>2. root[a].bal \in Nat
  BY <1>0, <1>1, RootAt, Zenon
<1>3. NotLower(root, t)
  BY <1>0, <1>1, <1>2, NotLowerRoots, Zenon
<1> HIDE DEF t
<1>4. root'[a] = Absent /\ \A b \in Account \ {a} : root'[b] = t[b]
  BY <1>1, <1>3, Zenon DEF NotLower, Roots
<1>5. \A b \in Account : OwnedBy(entry', b) \subseteq OwnedBy(entry, b)
  BY <1>1, Zenon DEF OwnedBy
<1>6. ASSUME NEW b \in Account, root[b] # Absent, root'[b] # Absent
      PROVE  root'[b].bal >= root[b].bal /\ OwnedBy(entry', b) \subseteq OwnedBy(entry, b)
  BY <1>3, <1>4, <1>5, <1>6, Zenon DEF NotLower
<1> QED
  BY <1>6, KeptEach, Zenon

\* No transaction takes an account below its reserve, except by another's act that
\* takes no drops of it and gives it no entry.
THEOREM ReserveAlwaysMet == Spec => ReserveMet
<1>1. ASSUME HInv, Next
      PROVE  ReserveKept
  <2>1. CASE LedgerClose
    <3>1. root' = root /\ entry' = entry /\ root \in Roots
      BY <1>1, <2>1, Zenon DEF LedgerClose, HInv, Sound, Linked
    <3>2. NotLower(root, root') /\ NoneGained(entry, entry')
      BY <3>1, NotLowerSame, Zenon DEF NoneGained
    <3> QED
      BY <3>2, Unspent, Zenon
  <2> QED
    BY <1>1, <2>1, EscrowKeeps, PayChanKeeps, CheckKeeps, URITokenKeeps, LineKeeps, PaymentKeeps,
       DeleteKeeps, Zenon DEF Next
<1>2. HInv /\ [Next]_ledger => [ReserveKept]_ledger
  BY <1>1, Zenon
<1>3. ReserveMet <=> [][ReserveKept]_ledger
  BY PTL DEF ReserveMet, ReserveKept
<1> QED
  BY <1>2, <1>3, HoldingsInvariant, PTL DEF Spec
=============================================================================
