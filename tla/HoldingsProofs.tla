--------------------------- MODULE HoldingsProofs ---------------------------
(* The safety invariants of Holdings, for any accounts, keys, amounts,     *)
(* modes and reserves.  One lemma for each transactor: it takes sound      *)
(* holdings to sound holdings (those on escrows, payment channels and      *)
(* checks are in HoldingsLemmas).  Then the theorems.                      *)
EXTENDS HoldingsLemmas

\* lsfURITokenIssuer is set.
LEMMA MinterRoots ==
    ASSUME NEW q \in Roots, NEW a \in Account, q[a] # Absent
    PROVE  LET r == [q EXCEPT ![a].minter = TRUE]
           IN  /\ r \in Roots /\ \A b \in Account \ {a} : r[b] = q[b]
               /\ r[a] # Absent /\ r[a].bal = q[a].bal /\ r[a].owners = q[a].owners
               /\ r[a].tickets = q[a].tickets /\ r[a].minter = TRUE
<1>1. q[a] \in AccountRoot
  BY RootAt, Zenon
<1>2. [q[a] EXCEPT !.minter = TRUE] \in AccountRoot
  BY <1>1, Zenon DEF AccountRoot
<1>3. [q EXCEPT ![a].minter = TRUE] = [q EXCEPT ![a] = [q[a] EXCEPT !.minter = TRUE]]
  BY Zenon DEF Roots
<1>4. Absent \notin AccountRoot
  BY AbsentAssumption, Zenon
<1> QED
  BY <1>1, <1>2, <1>3, <1>4, Zenon DEF Roots, Optional, AccountRoot

\* URITokenMint keeps the ledger sound.
LEMMA URITokenMintStep ==
    ASSUME HInv, NEW a \in Account, NEW burnable \in BOOLEAN, NEW price \in Optional(Price),
           NEW dst \in Optional(Account), URITokenMint(a, burnable, price, dst)
    PROVE  Sound(root', dir', entry', line')
<1> DEFINE e == [kind |-> "uritoken", owner |-> a, issuer |-> a, burnable |-> burnable,
                 price |-> price, dest |-> dst]
           r == [root EXCEPT ![a].minter = TRUE]
<1>0. /\ mode \in Mode /\ Linked(root, dir, entry, line) /\ Funded(root, entry, line)
      /\ root \in Roots /\ EntriesOK(entry) /\ PartiesOK(root, entry, line) /\ OwnersOK(root, entry, line)
  BY Zenon DEF HInv, Sound, Linked
<1>1. e \in URITokenEntry
  BY <1>0, ModeTypes, Zenon DEF URITokenEntry, Optional
<1>2. e \in Entry /\ e.kind = "uritoken" /\ e.owner = a /\ e.issuer = a /\ Parties(e) = {a}
  BY <1>1, Zenon DEF Entry, Parties
<1>3. PICK k \in Free : entry' = [entry EXCEPT ![k] = e] /\ dir' = Listed(dir, {a}, k)
  BY Zenon DEF URITokenMint
<1>4. root[a] # Absent /\ line' = line /\ root' = AdjustOwnerCount(r, a, 1)
  BY Zenon DEF URITokenMint, Exists
<1>5. k \in Key /\ entry[k] = Absent
  BY Zenon DEF Free
<1> HIDE DEF e
<1>6. /\ r \in Roots /\ \A b \in Account \ {a} : r[b] = root[b]
      /\ r[a] # Absent /\ r[a].bal = root[a].bal /\ r[a].owners = root[a].owners
      /\ r[a].tickets = root[a].tickets /\ r[a].minter = TRUE
  BY <1>0, <1>4, MinterRoots, Zenon
<1> HIDE DEF r
<1>7. OwnersOK(r, entry, line)
  BY <1>0, <1>4, <1>6, OwnersRoots, Zenon
<1>8. PartiesOK(r, entry, line)
  BY <1>0, <1>4, <1>6, PartiesRoots, Zenon
<1>9. DropsIn(r) = DropsIn(root)
  BY <1>4, <1>6, DropsSame, Zenon
<1>10. Sound(r, dir, entry, line)
  BY <1>0, <1>6, <1>7, <1>8, <1>9, Zenon DEF Sound, Linked, Funded
<1>11. Sound(AdjustOwnerCount(r, e.owner, 1), Listed(dir, Parties(e), k), [entry EXCEPT ![k] = e], line)
  <2>1. /\ e.kind \in {"check", "uritoken"} /\ r[e.issuer] # Absent /\ r[e.issuer].minter
        /\ \A b \in Parties(e) : r[b] # Absent
    BY <1>2, <1>6, Zenon
  <2> HIDE DEF Parties
  <2> QED
    BY <1>2, <1>5, <1>10, <2>1, EmptyComes, Zenon
<1> QED
  BY <1>2, <1>3, <1>4, <1>11, Zenon

\* The URI token with key k.
LEMMA TokenAt ==
    ASSUME NEW en, EntriesOK(en), NEW k \in Key, en[k] # Absent, en[k].kind = "uritoken"
    PROVE  /\ en[k] \in URITokenEntry /\ en[k] \in Entry /\ Parties(en[k]) = {en[k].owner}
           /\ en[k].owner \in Account /\ en[k].issuer \in Account
           /\ en \in [Key -> Optional(Entry)]
<1>1. en[k] \in Entry /\ en \in [Key -> Optional(Entry)]
  BY Zenon DEF EntriesOK, Optional
<1>2. en[k] \in URITokenEntry
  BY <1>1, ByKind, Zenon
<1> QED
  BY <1>1, <1>2, Zenon DEF URITokenEntry, Parties

\* A sell offer is made or withdrawn.
LEMMA OfferStep ==
    ASSUME HInv, NEW k \in Key, Is(k, "uritoken"), NEW p \in Optional(Nat), NEW dst \in Optional(Account)
    PROVE  Sound(root, dir, [entry EXCEPT ![k].price = p, ![k].dest = dst], line)
<1> DEFINE f == [entry[k] EXCEPT !.price = p, !.dest = dst]
<1>0. Sound(root, dir, entry, line) /\ EntriesOK(entry)
  BY Zenon DEF HInv, Sound, Linked
<1>1. entry[k] # Absent /\ entry[k].kind = "uritoken"
  BY Zenon DEF Is
<1>2. /\ entry[k] \in URITokenEntry /\ Parties(entry[k]) = {entry[k].owner}
      /\ entry \in [Key -> Optional(Entry)]
  BY <1>0, <1>1, TokenAt, Zenon
<1>3. /\ f \in URITokenEntry /\ f.kind = "uritoken" /\ f.owner = entry[k].owner
      /\ f.issuer = entry[k].issuer
  BY <1>1, <1>2, Zenon DEF URITokenEntry
<1>4. [entry EXCEPT ![k].price = p, ![k].dest = dst] = [entry EXCEPT ![k] = f]
  BY <1>2, Zenon
<1> HIDE DEF f
<1>5. f \in Entry /\ Parties(f) = Parties(entry[k]) /\ Inside(f) = Inside(entry[k]) /\ f.kind # "paychan"
  BY <1>1, <1>2, <1>3, Zenon DEF Entry, Parties, Inside
<1>6. Sound(root, dir, [entry EXCEPT ![k] = f], line)
  <2> HIDE DEF Parties
  <2> QED
    BY <1>0, <1>1, <1>3, <1>5, ReplaceSame, Zenon
<1> QED
  BY <1>4, <1>6, Zenon

\* URITokenCreateSellOffer keeps the ledger sound.
LEMMA SellOfferStep ==
    ASSUME HInv, NEW a, NEW k \in Key, NEW p \in Price, NEW dst \in Optional(Account),
           URITokenCreateSellOffer(a, k, p, dst)
    PROVE  Sound(root', dir', entry', line')
<1>0. mode \in Mode /\ p \in Optional(Nat)
  BY ModeTypes, Zenon DEF HInv, Optional
<1> QED
  BY <1>0, OfferStep, Zenon DEF URITokenCreateSellOffer

\* URITokenCancelSellOffer keeps the ledger sound.
LEMMA SellOfferCancelStep ==
    ASSUME HInv, NEW a, NEW k \in Key, URITokenCancelSellOffer(a, k)
    PROVE  Sound(root', dir', entry', line')
<1>0. Absent \in Optional(Nat) /\ Absent \in Optional(Account)
  BY Zenon DEF Optional
<1> QED
  BY <1>0, OfferStep, Zenon DEF URITokenCancelSellOffer

\* URITokenBuy keeps the ledger sound: the entry goes from the seller to the buyer.
LEMMA URITokenBuyStep ==
    ASSUME HInv, NEW a \in Account, NEW k \in Key, NEW p \in Amount \cup {0}, URITokenBuy(a, k, p)
    PROVE  Sound(root', dir', entry', line')
<1> DEFINE e == entry[k]
           o == e.owner
           f == [e EXCEPT !.owner = a, !.price = Absent, !.dest = Absent]
           r1 == AddBalance(AddBalance(root, a, -p), o, p)
           r2 == AdjustOwnerCount(r1, o, -1)
           d2 == Unlisted(dir, {o}, k)
           en == [entry EXCEPT ![k] = Absent]
<1>0. /\ mode \in Mode /\ Sound(root, dir, entry, line) /\ root \in Roots /\ EntriesOK(entry)
      /\ PartiesOK(root, entry, line) /\ DirsOK(dir, entry) /\ p \in Nat
  BY ModeTypes DEF HInv, Sound, Linked
<1>1. /\ root[a] # Absent /\ e # Absent /\ e.kind = "uritoken" /\ a # o
      /\ Reserve(root[a].owners + 1) + p <= root[a].bal
      /\ root' = AdjustOwnerCount(r2, a, 1)
      /\ dir' = Unlisted(Listed(dir, {a}, k), {o}, k)
      /\ entry' = [entry EXCEPT ![k].owner = a, ![k].price = Absent, ![k].dest = Absent]
      /\ line' = line
  BY Zenon DEF URITokenBuy, Is, Exists
<1>2. /\ e \in URITokenEntry /\ Parties(e) = {o} /\ o \in Account /\ e.issuer \in Account
      /\ entry \in [Key -> Optional(Entry)]
  BY <1>0, <1>1, TokenAt, Zenon
<1>3. root[o] # Absent /\ root[e.issuer] # Absent /\ root[e.issuer].minter
  BY <1>0, <1>1, <1>2, Zenon DEF PartiesOK
<1>4. p <= root[a].bal
  <2>1. root[a].bal \in Nat /\ Reserve(root[a].owners + 1) \in Nat
    BY <1>0, <1>1, RootAt, ReserveNat, SMTT(30)
  <2> QED
    BY <1>0, <1>1, <2>1, SMTT(30)
<1>5. Sound(r1, dir, entry, line) /\ \A c \in Account : r1[c] # Absent <=> root[c] # Absent
  BY <1>0, <1>1, <1>2, <1>3, <1>4, DropsMove, SMTT(30)
<1> HIDE DEF r1
<1>6. Sound(r2, d2, en, line)
  <2>1. e.kind \in {"check", "uritoken"}
    BY <1>1, Zenon
  <2>2. Sound(AdjustOwnerCount(r1, o, -1), Unlisted(dir, Parties(e), k), en, line)
    <3> HIDE DEF Parties
    <3> QED
      BY <1>1, <1>5, <2>1, EmptyGoes, Zenon
  <2> QED
    BY <1>2, <2>2, Zenon
<1>7. /\ f \in URITokenEntry /\ f.kind = "uritoken" /\ f.owner = a /\ f.issuer = e.issuer
  BY <1>1, <1>2, Zenon DEF URITokenEntry, Optional
<1>8. entry' = [en EXCEPT ![k] = f] /\ en[k] = Absent
  BY <1>1, <1>2, Zenon
<1>9. f \in Entry /\ Parties(f) = {a} /\ f.kind \in {"check", "uritoken"}
  BY <1>7, Zenon DEF Entry, Parties
<1> HIDE DEF f, en
<1>10. dir' = Listed(d2, {a}, k)
  BY <1>0, <1>1, Zenon DEF Unlisted, Listed, DirsOK
<1>11. r2[a] # Absent /\ r2[e.issuer] # Absent /\ r2[e.issuer].minter
  <2> DEFINE n == -1
  <2>1. r1 \in Roots /\ PartiesOK(r1, entry, line) /\ n \in Int
    BY <1>5 DEF Sound, Linked
  <2>2. r1[o] # Absent /\ r1[a] # Absent /\ r1[e.issuer] # Absent /\ r1[e.issuer].minter
    BY <1>1, <1>2, <1>3, <1>5, <2>1, Zenon DEF PartiesOK
  <2>3. r2 = AdjustOwnerCount(r1, o, n)
    BY Zenon
  <2> HIDE DEF n, r2
  <2>4. SameRoots(r1, r2)
    BY <1>2, <2>1, <2>2, <2>3, AdjustSame, Zenon
  <2> QED
    BY <1>2, <2>2, <2>4, Zenon DEF SameRoots
<1> HIDE DEF r2, d2
<1>12. Sound(AdjustOwnerCount(r2, f.owner, 1), Listed(d2, Parties(f), k), [en EXCEPT ![k] = f], line)
  <2>1. \A b \in Parties(f) : r2[b] # Absent
    BY <1>9, <1>11, Zenon
  <2>2. r2[f.issuer] # Absent /\ r2[f.issuer].minter
    BY <1>7, <1>11, Zenon
  <2> HIDE DEF Parties
  <2> QED
    BY <1>6, <1>8, <1>9, <2>1, <2>2, EmptyComes, Zenon
<1> QED
  BY <1>1, <1>7, <1>8, <1>9, <1>10, <1>12, Zenon

\* URITokenBurn keeps the ledger sound, also when the issuer burns.
LEMMA URITokenBurnStep ==
    ASSUME HInv, NEW a \in Account, NEW k \in Key, URITokenBurn(a, k)
    PROVE  Sound(root', dir', entry', line')
<1> DEFINE e == entry[k]
<1>0. Sound(root, dir, entry, line)
  BY Zenon DEF HInv
<1>1. /\ e # Absent /\ e.kind = "uritoken" /\ root' = AdjustOwnerCount(root, e.owner, -1)
      /\ dir' = Unlisted(dir, {e.owner}, k)
      /\ entry' = [entry EXCEPT ![k] = Absent] /\ line' = line
  BY Zenon DEF URITokenBurn, Is
<1>2. Parties(e) = {e.owner}
  BY <1>1, Zenon DEF Parties
<1>3. Sound(AdjustOwnerCount(root, e.owner, -1), Unlisted(dir, Parties(e), k), [entry EXCEPT ![k] = Absent], line)
  <2>1. e.kind \in {"check", "uritoken"}
    BY <1>1, Zenon
  <2> HIDE DEF Parties
  <2> QED
    BY <1>0, <1>1, <2>1, EmptyGoes, Zenon
<1> QED
  BY <1>1, <1>2, <1>3, Zenon

-----------------------------------------------------------------------------
(* Tickets.                                                                *)

\* Entries that hold nothing come or go.
LEMMA HoldingSame ==
    ASSUME NEW en, NEW ne, EntriesOK(en), EntriesOK(ne),
           \A k \in Key : ne[k] = en[k] \/ (InsideAt(en, k) = 0 /\ InsideAt(ne, k) = 0)
    PROVE  /\ DropsInside(ne) = DropsInside(en)
           /\ \A l : LocksOK(l, en) => LocksOK(l, ne)
<1>1. \A k \in Key : InsideAt(ne, k) = InsideAt(en, k)
  BY Zenon DEF InsideAt
<1>2. ASSUME NEW a, NEW k \in Key
      PROVE  InsideFor(ne, a)[k] = InsideFor(en, a)[k]
  <2>1. CASE ne[k] = en[k]
    BY <2>1, Zenon DEF InsideFor, OwnedBy
  <2>2. CASE InsideAt(en, k) = 0 /\ InsideAt(ne, k) = 0
    BY <2>2, Zenon DEF InsideFor, OwnedBy, InsideAt
  <2> QED
    BY <2>1, <2>2, Zenon
<1>3. DropsInside(ne) = DropsInside(en)
  BY <1>1, InsideSame, Zenon
<1>4. ASSUME NEW l, LocksOK(l, en)
      PROVE  LocksOK(l, ne)
  BY <1>2, <1>4, LocksSame, Zenon
<1> QED
  BY <1>3, <1>4, Zenon

\* The root of a counts m tickets, and n entries more.
Ticketed(r, s, a, m, n) ==
    /\ s \in Roots
    /\ \A b \in Account \ {a} : s[b] = r[b]
    /\ s[a] # Absent /\ s[a].bal = r[a].bal /\ s[a].minter = r[a].minter
    /\ s[a].tickets = m /\ s[a].owners = Confined(r[a].owners + n)

\* TicketCount and OwnerCount change together.
LEMMA TicketRoots ==
    ASSUME NEW r \in Roots, NEW a \in Account, r[a] # Absent, NEW m \in Nat, NEW n \in Int
    PROVE  Ticketed(r, AdjustOwnerCount([r EXCEPT ![a].tickets = m], a, n), a, m, n)
<1> DEFINE t == [r EXCEPT ![a].tickets = m]
<1>1. /\ t \in Roots /\ \A b \in Account \ {a} : t[b] = r[b]
      /\ t[a] # Absent /\ t[a].bal = r[a].bal /\ t[a].owners = r[a].owners
      /\ t[a].tickets = m /\ t[a].minter = r[a].minter
  <2>1. r[a] \in AccountRoot
    BY RootAt, Zenon
  <2>2. [r[a] EXCEPT !.tickets = m] \in AccountRoot
    BY <2>1, Zenon DEF AccountRoot
  <2>3. t = [r EXCEPT ![a] = [r[a] EXCEPT !.tickets = m]]
    BY Zenon DEF Roots
  <2>4. Absent \notin AccountRoot
    BY AbsentAssumption, Zenon
  <2> QED
    BY <2>1, <2>2, <2>3, <2>4, Zenon DEF Roots, Optional, AccountRoot
<1> HIDE DEF t
<1> DEFINE s == AdjustOwnerCount(t, a, n)
<1>2. /\ s \in Roots /\ \A b \in Account : b # a => s[b] = t[b]
      /\ s[a] # Absent /\ s[a].bal = t[a].bal /\ s[a].owners = Confined(t[a].owners + n)
      /\ s[a].tickets = t[a].tickets /\ s[a].minter = t[a].minter
  BY <1>1, AdjustOwnerCountRoots
<1> HIDE DEF s
<1>3. Ticketed(r, s, a, m, n)
  BY <1>1, <1>2, Zenon DEF Ticketed
<1> QED
  BY <1>3, Zenon DEF s, t

\* What tickets change and what they do not.
LEMMA TicketsSound ==
    ASSUME NEW r, NEW s, NEW d, NEW nd, NEW en, NEW ne, NEW l, NEW a \in Account, NEW m, NEW n,
           Sound(r, d, en, l), r[a] # Absent, Ticketed(r, s, a, m, n),
           EntriesOK(ne), DirsOK(nd, ne),
           \A k \in Key : \/ ne[k] = en[k]
                          \/ /\ en[k] = Absent \/ (en[k].kind = "ticket" /\ en[k].owner = a)
                             /\ ne[k] = Absent \/ (ne[k].kind = "ticket" /\ ne[k].owner = a),
           Confined(r[a].owners + n) = Cardinality(OwnedBy(ne, a)) + Cardinality(LinesOf(l, a)),
           m = Cardinality(TicketsOf(ne, a))
    PROVE  Sound(s, nd, ne, l)
<1>0. /\ r \in Roots /\ l \in Lines /\ EntriesOK(en) /\ PartiesOK(r, en, l) /\ OwnersOK(r, en, l)
      /\ Funded(r, en, l)
  BY Zenon DEF Sound, Linked
<1>1. \A k \in Key : ne[k] = en[k] \/ (InsideAt(en, k) = 0 /\ InsideAt(ne, k) = 0)
  BY Zenon DEF InsideAt, Inside
<1>2. DropsInside(ne) = DropsInside(en) /\ (LocksOK(l, en) => LocksOK(l, ne))
  BY <1>0, <1>1, HoldingSame, Zenon
<1>3. DropsIn(s) = DropsIn(r)
  BY DropsSame, Zenon DEF Ticketed
<1>4. PartiesOK(r, ne, l)
  BY <1>0 DEF PartiesOK, Parties
<1>5. PartiesOK(s, ne, l)
  BY <1>4, PartiesRoots DEF Ticketed
<1>6. \A b \in Account \ {a} : OwnedBy(ne, b) = OwnedBy(en, b) /\ TicketsOf(ne, b) = TicketsOf(en, b)
  BY Zenon DEF OwnedBy, TicketsOf
<1>7. OwnersOK(s, ne, l)
  BY <1>0, <1>6, Zenon DEF OwnersOK, Ticketed
<1>8. Linked(s, nd, ne, l)
  BY <1>0, <1>5, <1>7, Zenon DEF Linked, Ticketed
<1> QED
  BY <1>0, <1>2, <1>3, <1>8, Zenon DEF Sound, Funded

\* Sets without a common element.
LEMMA CardUnion ==
    ASSUME NEW A, NEW B, IsFiniteSet(A), IsFiniteSet(B), A \cap B = {}
    PROVE  Cardinality(A \cup B) = Cardinality(A) + Cardinality(B)
<1>1. Cardinality(A \cup B) = Cardinality(A) + Cardinality(B) - Cardinality(A \cap B)
  BY FS_Union, Zenon
<1>2. Cardinality({}) = 0 /\ Cardinality(A) \in Nat /\ Cardinality(B) \in Nat
  BY FS_EmptySet, FS_CardinalityType, Zenon
<1>3. Cardinality(A \cap B) = 0
  BY <1>2, Zenon
<1> QED
  BY <1>1, <1>2, <1>3

\* TicketCreate keeps the ledger sound for any number of tickets.
LEMMA TicketCreateStep ==
    ASSUME HInv, NEW a \in Account, NEW K \in SUBSET Free, TicketCreate(a, K)
    PROVE  Sound(root', dir', entry', line')
<1> DEFINE e == [kind |-> "ticket", owner |-> a]
           c == Cardinality(K)
           ne == [k \in Key |-> IF k \in K THEN e ELSE entry[k]]
           nd == [dir EXCEPT ![a] = @ \cup K]
           m == root[a].tickets + c
<1>0. /\ Sound(root, dir, entry, line) /\ root \in Roots /\ EntriesOK(entry) /\ DirsOK(dir, entry)
      /\ OwnersOK(root, entry, line)
  BY Zenon DEF HInv, Sound, Linked
<1>1. /\ root[a] # Absent /\ entry' = ne /\ dir' = nd /\ line' = line
      /\ root' = AdjustOwnerCount([root EXCEPT ![a].tickets = m], a, c)
  BY Zenon DEF TicketCreate, Exists
<1>2. /\ e \in TicketEntry /\ e.kind = "ticket" /\ e.owner = a
  BY Zenon DEF TicketEntry
<1>3. e \in Entry /\ Parties(e) = {a} /\ e # Absent
  <2>1. e \in Entry /\ Parties(e) = {a}
    BY <1>2, Zenon DEF Entry, Parties
  <2> QED
    BY <2>1, ByKind, Zenon
<1> HIDE DEF e
<1>4. K \in SUBSET Key /\ \A k \in K : entry[k] = Absent
  BY Zenon DEF Free
<1>5. /\ \A k \in K : ne[k] = e
      /\ \A k \in Key \ K : ne[k] = entry[k]
      /\ ne \in [Key -> Optional(Entry)]
  BY <1>0, <1>3, <1>4, Zenon DEF EntriesOK, Optional
<1> HIDE DEF ne
<1>6. EntriesOK(ne)
  <2>1. ASSUME NEW k \in Key, ne[k] # Absent, ne[k].kind = "paychan"
        PROVE  ne[k].paid <= ne[k].amount
    <3>1. k \notin K
      BY <1>2, <1>5, <2>1, Zenon
    <3> QED
      BY <1>0, <1>5, <2>1, <3>1, Zenon DEF EntriesOK
  <2> QED
    BY <1>5, <2>1, Zenon DEF EntriesOK
<1>7. DirsOK(nd, ne)
  <2>1. nd \in [Account -> SUBSET Key]
    BY <1>0, <1>4, Zenon DEF DirsOK
  <2>2. ASSUME NEW b \in Account
        PROVE  nd[b] = {k \in Key : ne[k] # Absent /\ b \in Parties(ne[k])}
    <3>1. dir[b] = {k \in Key : entry[k] # Absent /\ b \in Parties(entry[k])}
      BY <1>0, Zenon DEF DirsOK
    <3>2. nd[b] = IF b = a THEN dir[b] \cup K ELSE dir[b]
      BY <1>0, Zenon DEF DirsOK
    <3> HIDE DEF Parties, nd
    <3>3. \A k \in Key : k \in nd[b] <=> ne[k] # Absent /\ b \in Parties(ne[k])
      BY <1>3, <1>4, <1>5, <3>1, <3>2, SMTT(30)
    <3>4. nd[b] \in SUBSET Key
      BY <2>1, Zenon
    <3> QED
      BY <3>3, <3>4, Zenon
  <2> QED
    BY <2>1, <2>2, Zenon DEF DirsOK
<1>8. IsFiniteSet(K) /\ c \in Nat
  <2>1. IsFiniteSet(Key)
    BY ModeAssumption, Zenon
  <2> QED
    BY <1>4, <2>1, FS_Subset, FS_CardinalityType, Zenon
<1>9. /\ OwnedBy(ne, a) = OwnedBy(entry, a) \cup K /\ OwnedBy(entry, a) \cap K = {}
      /\ TicketsOf(ne, a) = TicketsOf(entry, a) \cup K /\ TicketsOf(entry, a) \cap K = {}
  BY <1>2, <1>3, <1>4, <1>5, SMTT(30) DEF OwnedBy, TicketsOf
<1>10. /\ Cardinality(OwnedBy(ne, a)) = Cardinality(OwnedBy(entry, a)) + c
       /\ Cardinality(TicketsOf(ne, a)) = Cardinality(TicketsOf(entry, a)) + c
       /\ Cardinality(OwnedBy(entry, a)) \in Nat /\ Cardinality(TicketsOf(entry, a)) \in Nat
       /\ Cardinality(LinesOf(line, a)) \in Nat
  <2>1. /\ IsFiniteSet(OwnedBy(entry, a)) /\ Cardinality(OwnedBy(entry, a)) \in Nat
        /\ IsFiniteSet(TicketsOf(entry, a)) /\ Cardinality(TicketsOf(entry, a)) \in Nat
        /\ Cardinality(LinesOf(line, a)) \in Nat
    BY CountsFinite, Zenon
  <2>2. Cardinality(OwnedBy(entry, a) \cup K) = Cardinality(OwnedBy(entry, a)) + Cardinality(K)
    BY <1>8, <1>9, <2>1, CardUnion, Zenon
  <2>3. Cardinality(TicketsOf(entry, a) \cup K) = Cardinality(TicketsOf(entry, a)) + Cardinality(K)
    BY <1>8, <1>9, <2>1, CardUnion, Zenon
  <2> QED
    BY <1>9, <2>1, <2>2, <2>3, Zenon
<1>11. /\ root[a].owners = Cardinality(OwnedBy(entry, a)) + Cardinality(LinesOf(line, a))
       /\ root[a].tickets = Cardinality(TicketsOf(entry, a))
  BY <1>0, <1>1, Zenon DEF OwnersOK
<1> HIDE DEF c
<1>12. /\ m \in Nat /\ c \in Int /\ m = Cardinality(TicketsOf(ne, a))
       /\ Confined(root[a].owners + c) = Cardinality(OwnedBy(ne, a)) + Cardinality(LinesOf(line, a))
  BY <1>8, <1>10, <1>11 DEF Confined
<1> HIDE DEF m, nd
<1>13. Ticketed(root, root', a, m, c)
  BY <1>0, <1>1, <1>12, TicketRoots, Zenon
<1>14. \A k \in Key : \/ ne[k] = entry[k]
                      \/ /\ entry[k] = Absent \/ (entry[k].kind = "ticket" /\ entry[k].owner = a)
                         /\ ne[k] = Absent \/ (ne[k].kind = "ticket" /\ ne[k].owner = a)
  BY <1>2, <1>4, <1>5, Zenon
<1>15. Sound(root', nd, ne, line)
  BY <1>0, <1>1, <1>6, <1>7, <1>12, <1>13, <1>14, TicketsSound, SMTT(30)
<1> QED
  BY <1>1, <1>15, Zenon

\* Using a ticket keeps the ledger sound (ticketDelete).
LEMMA TicketUseStep ==
    ASSUME HInv, NEW a \in Account, NEW k \in Key, TicketUse(a, k)
    PROVE  Sound(root', dir', entry', line')
<1> DEFINE ne == [entry EXCEPT ![k] = Absent]
           nd == Unlisted(dir, {a}, k)
           m == root[a].tickets - 1
           n == -1
<1>0. /\ Sound(root, dir, entry, line) /\ root \in Roots /\ EntriesOK(entry) /\ DirsOK(dir, entry)
      /\ PartiesOK(root, entry, line) /\ OwnersOK(root, entry, line)
  BY Zenon DEF HInv, Sound, Linked
<1>1. /\ entry[k] # Absent /\ entry[k].kind = "ticket" /\ entry[k].owner = a
      /\ entry' = ne /\ dir' = nd /\ line' = line
      /\ root' = AdjustOwnerCount([root EXCEPT ![a].tickets = m], a, n)
  BY Zenon DEF TicketUse, Is
<1>2. Parties(entry[k]) = {a}
  BY <1>1, Zenon DEF Parties
<1>3. root[a] # Absent
  BY <1>0, <1>1, <1>2, Zenon DEF PartiesOK
<1>4. EntriesOK(ne) /\ ne[k] = Absent /\ \A j \in Key \ {k} : ne[j] = entry[j]
  BY <1>0, EntrySet DEF Optional
<1>5. DirsOK(nd, ne)
  BY <1>0, <1>1, <1>2, DirsRemove, Zenon
<1> HIDE DEF ne, nd
<1>6. /\ OwnedBy(entry, a) \ {k} = OwnedBy(ne, a) \ {k} /\ k \in OwnedBy(entry, a) /\ k \notin OwnedBy(ne, a)
      /\ TicketsOf(entry, a) \ {k} = TicketsOf(ne, a) \ {k}
      /\ k \in TicketsOf(entry, a) /\ k \notin TicketsOf(ne, a)
  BY <1>1, <1>4, Zenon DEF OwnedBy, TicketsOf
<1>7. /\ Cardinality(OwnedBy(ne, a)) \in Nat /\ Cardinality(TicketsOf(ne, a)) \in Nat
      /\ Cardinality(OwnedBy(entry, a)) = Cardinality(OwnedBy(ne, a)) + 1
      /\ Cardinality(TicketsOf(entry, a)) = Cardinality(TicketsOf(ne, a)) + 1
      /\ Cardinality(LinesOf(line, a)) \in Nat
  <2>1. /\ IsFiniteSet(OwnedBy(entry, a)) /\ IsFiniteSet(TicketsOf(entry, a))
        /\ Cardinality(OwnedBy(ne, a)) \in Nat /\ Cardinality(TicketsOf(ne, a)) \in Nat
        /\ Cardinality(OwnedBy(entry, a)) \in Nat /\ Cardinality(TicketsOf(entry, a)) \in Nat
        /\ Cardinality(LinesOf(line, a)) \in Nat
    BY CountsFinite, Zenon
  <2>2. Cardinality(OwnedBy(ne, a)) = (Cardinality(OwnedBy(entry, a)) - 1) + 0
    BY <1>6, <2>1, CardAt, SMTT(30)
  <2>3. Cardinality(TicketsOf(ne, a)) = (Cardinality(TicketsOf(entry, a)) - 1) + 0
    BY <1>6, <2>1, CardAt, SMTT(30)
  <2> QED
    BY <2>1, <2>2, <2>3, SMTT(30)
<1>8. /\ root[a].owners = Cardinality(OwnedBy(entry, a)) + Cardinality(LinesOf(line, a))
      /\ root[a].tickets = Cardinality(TicketsOf(entry, a))
  BY <1>0, <1>3, Zenon DEF OwnersOK
<1>9. /\ m \in Nat /\ n \in Int /\ m = Cardinality(TicketsOf(ne, a))
      /\ Confined(root[a].owners + n) = Cardinality(OwnedBy(ne, a)) + Cardinality(LinesOf(line, a))
  BY <1>7, <1>8 DEF Confined
<1> HIDE DEF m, n
<1>10. Ticketed(root, root', a, m, n)
  BY <1>0, <1>1, <1>3, <1>9, TicketRoots, Zenon
<1>11. \A j \in Key : \/ ne[j] = entry[j]
                      \/ /\ entry[j] = Absent \/ (entry[j].kind = "ticket" /\ entry[j].owner = a)
                         /\ ne[j] = Absent \/ (ne[j].kind = "ticket" /\ ne[j].owner = a)
  BY <1>1, <1>4, Zenon
<1>12. Sound(root', nd, ne, line)
  BY <1>0, <1>3, <1>4, <1>5, <1>9, <1>10, <1>11, TicketsSound, SMTT(30)
<1> QED
  BY <1>1, <1>12, Zenon

-----------------------------------------------------------------------------
(* Trust lines.                                                            *)

\* From the parts that lines touch to the whole invariant.
LEMMA SoundLines ==
    ASSUME HInv, ~native, NEW s, NEW m, TokensOK(s, entry, entry, m)
    PROVE  Sound(s, dir, entry, m)
  BY Zenon DEF HInv, Sound, Linked, Funded, TokensOK

\* A TrustSet that makes a line keeps the ledger sound.
LEMMA TrustCreateStep ==
    ASSUME HInv, NEW a \in Account, NEW limit \in Limit, TrustCreate(a, limit)
    PROVE  Sound(root', dir', entry', line')
<1> DEFINE y == [NewLine(0) EXCEPT !.limit = limit]
<1>0. mode \in Mode /\ limit \in Nat
  BY ModeTypes, Zenon DEF HInv
<1>1. /\ ~native /\ root[a] # Absent /\ root[Issuer] # Absent /\ a # Issuer /\ line[a] = Absent
      /\ line' = [line EXCEPT ![a] = y] /\ root' = AdjustOwnerCount(root, a, 1)
      /\ dir' = dir /\ entry' = entry
  BY Zenon DEF TrustCreate, Exists
<1>2. TokensOK(root, entry, entry, line)
  BY <1>1, Zenon DEF HInv, Sound, Linked, Funded, TokensOK
<1>3. y \in RippleState /\ y.locked = 0 /\ y.reserve = TRUE /\ y.frozen = FALSE
  BY <1>0, Zenon DEF NewLine, RippleState
<1> HIDE DEF y
<1>4. TokensOK(root', entry, entry, line')
  BY <1>1, <1>2, <1>3, LineCreated, Zenon
<1> QED
  BY <1>1, <1>4, SoundLines, Zenon

\* A line changes or goes, and both sides' owner counts follow.
LEMMA LineChanged ==
    ASSUME NEW en, NEW a \in Account, a # Issuer, TokensOK(root, en, en, line), line[a] # Absent,
           NEW y \in Optional(RippleState), y = Absent => line[a].locked = 0,
           y # Absent => y.locked = line[a].locked /\ y.count = line[a].count /\ y.locked <= y.bal,
           NEW h \in Int, h = Count(HoldsReserve(y)) - Count(line[a].reserve),
           NEW i \in Int, i = Count(IsFrozen(y)) - Count(line[a].frozen)
    PROVE  TokensOK(AdjustOwnerCount(AdjustOwnerCount(root, a, h), Issuer, i), en, en,
                    [line EXCEPT ![a] = y])
<1> DEFINE m == [line EXCEPT ![a] = y]
           r == AdjustOwnerCount(root, a, h)
           s == AdjustOwnerCount(r, Issuer, i)
<1>0. /\ root \in Roots /\ line \in Lines /\ EntriesOK(en) /\ PartiesOK(root, en, line)
      /\ OwnersOK(root, en, line) /\ LocksOK(line, en) /\ Issuer \in Account
  BY LedgerAssumption, Zenon DEF TokensOK
<1>1. root[a] # Absent /\ root[Issuer] # Absent
  BY <1>0, Zenon DEF PartiesOK
<1>2. m \in Lines /\ m[a] = y /\ \A b \in Account \ {a} : m[b] = line[b]
  BY <1>0, Zenon DEF Lines
<1> HIDE DEF m
<1>3. /\ r \in Roots /\ \A b \in Account : b # a => r[b] = root[b]
      /\ r[a] # Absent /\ r[a].owners = Confined(root[a].owners + h) /\ r[a].tickets = root[a].tickets
      /\ SameRoots(root, r)
  BY <1>0, <1>1, AdjustOwnerCountRoots, AdjustSame, SMTT(30)
<1> HIDE DEF r
<1>4. /\ s \in Roots /\ \A b \in Account : b # Issuer => s[b] = r[b]
      /\ s[Issuer] # Absent /\ s[Issuer].owners = Confined(r[Issuer].owners + i)
      /\ s[Issuer].tickets = r[Issuer].tickets /\ SameRoots(r, s)
  BY <1>0, <1>1, <1>3, AdjustOwnerCountRoots, AdjustSame, SMTT(30)
<1> HIDE DEF s
<1>5. OwnersOK(s, en, m)
  <2>1. \A b \in Account : s[b] # Absent => root[b] # Absent /\ s[b].tickets = root[b].tickets
    BY <1>0, <1>1, <1>3, <1>4, Zenon
  <2>2. \A b \in Account \ {a, Issuer} : s[b] # Absent => s[b].owners = root[b].owners
    BY <1>3, <1>4, Zenon
  <2>3. HoldsReserve(line[a]) = line[a].reserve /\ IsFrozen(line[a]) = line[a].frozen
    BY <1>0, Zenon DEF HoldsReserve, IsFrozen, Lines, Optional, RippleState
  <2>4. s[a].owners = Confined(root[a].owners + (Count(HoldsReserve(m[a])) - Count(HoldsReserve(line[a]))))
    BY <1>2, <1>3, <1>4, <2>3, Zenon
  <2>5. s[Issuer].owners = Confined(root[Issuer].owners + (Count(IsFrozen(m[a])) - Count(IsFrozen(line[a]))))
    BY <1>0, <1>2, <1>3, <1>4, <2>3, Zenon
  <2> QED
    BY <1>0, <1>2, <1>4, <2>1, <2>2, <2>4, <2>5, OwnersLine, Zenon
<1>6. PartiesOK(s, en, m)
  <2>1. PartiesOK(root, en, m)
    BY <1>0, <1>1, <1>2, PartiesLine, Zenon
  <2>2. PartiesOK(r, en, m)
    BY <1>0, <1>3, <2>1, SameKeeps, Zenon
  <2> QED
    BY <1>0, <1>4, <2>2, SameKeeps, Zenon
<1>7. LocksOK(m, en)
  <2>1. \A b \in Account \ {Issuer} :
              /\ m[b] = Absent => line[b] = Absent \/ line[b].locked = 0
              /\ m[b] # Absent =>
                    \/ line[b] = Absent /\ m[b].locked = 0
                    \/ /\ line[b] # Absent /\ m[b].locked = line[b].locked
                       /\ m[b].locked <= m[b].bal /\ m[b].count = line[b].count
    <3>1. \A b \in Account \ {Issuer} : line[b] # Absent => line[b].locked <= line[b].bal
      BY <1>0, Zenon DEF LocksOK
    <3> QED
      BY <1>2, <3>1, Zenon
  <2> QED
    BY <1>0, <1>2, <2>1, LocksLine, Zenon
<1>8. TokensOK(s, en, en, m)
  BY <1>0, <1>2, <1>4, <1>5, <1>6, <1>7, Zenon DEF TokensOK
<1> QED
  BY <1>8, Zenon DEF s, r, m

\* TrustSet by either side.  A line in its default state has no balance, so that
\* nothing is locked on it.
LEMMA TrustChangedStep ==
    ASSUME HInv, ~native, NEW a \in Account, a # Issuer, line[a] # Absent, NEW by, NEW x \in RippleState,
           x.bal = line[a].bal, x.locked = line[a].locked, x.count = line[a].count,
           TrustChanged(by, a, x)
    PROVE  Sound(root', dir', entry', line')
<1> DEFINE h == Count(HolderReserve(x)) - Count(line[a].reserve)
           i == Count(x.frozen) - Count(line[a].frozen)
           default == ~HolderReserve(x) /\ ~x.frozen
           z == [x EXCEPT !.reserve = HolderReserve(x)]
           y == IF default THEN Absent ELSE z
<1>1. /\ root' = AdjustOwnerCount(AdjustOwnerCount(root, a, h), Issuer, i)
      /\ line' = [line EXCEPT ![a] = y] /\ dir' = dir /\ entry' = entry
  BY Zenon DEF TrustChanged
<1>2. TokensOK(root, entry, entry, line) /\ line \in Lines
  BY Zenon DEF HInv, Sound, Linked, Funded, TokensOK
<1>3. line[a] \in RippleState /\ line[a].locked <= line[a].bal
  BY <1>2, Zenon DEF TokensOK, LocksOK, Lines, Optional
<1>4. /\ z \in RippleState /\ z.reserve = HolderReserve(x) /\ z.frozen = x.frozen /\ z.bal = x.bal
      /\ z.locked = x.locked /\ z.count = x.count
  BY Zenon DEF RippleState, HolderReserve
<1>5. default => line[a].locked = 0
  BY <1>3 DEF HolderReserve, RippleState
<1>6. z # Absent
  BY <1>4, AbsentAssumption, Zenon
<1> HIDE DEF z
<1>7. /\ y \in Optional(RippleState) /\ (y = Absent => line[a].locked = 0)
      /\ y # Absent => y.locked = line[a].locked /\ y.count = line[a].count /\ y.locked <= y.bal
  <2>1. CASE default
    BY <1>5, <2>1, Zenon DEF Optional
  <2>2. CASE ~default
    <3>1. y = z
      BY <2>2, Zenon
    <3>2. z.locked = line[a].locked /\ z.count = line[a].count /\ z.locked <= z.bal
      BY <1>3, <1>4, Zenon
    <3> HIDE DEF y
    <3> QED
      BY <1>4, <1>6, <3>1, <3>2, Zenon DEF Optional
  <2> QED
    BY <2>1, <2>2, Zenon
<1>8. /\ h = Count(HoldsReserve(y)) - Count(line[a].reserve) /\ h \in Int
      /\ i = Count(IsFrozen(y)) - Count(line[a].frozen) /\ i \in Int
  <2>1. HoldsReserve(y) <=> HolderReserve(x)
    BY <1>4, <1>6, Zenon DEF HoldsReserve
  <2>2. IsFrozen(y) <=> x.frozen
    BY <1>4, <1>6, Zenon DEF IsFrozen
  <2> HIDE DEF y
  <2> QED
    BY <2>1, <2>2, SMTT(30) DEF Count
<1> HIDE DEF h, i, y
<1>9. TokensOK(root', entry, entry, line')
  BY <1>1, <1>2, <1>7, <1>8, LineChanged, Zenon
<1> QED
  BY <1>1, <1>9, SoundLines, Zenon

\* The holder's TrustSet keeps the ledger sound.
LEMMA SetLimitStep ==
    ASSUME HInv, NEW a \in Account, NEW limit \in Limit, SetLimit(a, limit)
    PROVE  Sound(root', dir', entry', line')
<1> DEFINE x == [line[a] EXCEPT !.limit = limit]
<1>0. mode \in Mode /\ limit \in Nat /\ line \in Lines /\ line[a] # Absent
  BY ModeTypes, Zenon DEF HInv, Sound, Linked, SetLimit
<1>1. a # Issuer /\ ~native /\ line[a] \in RippleState
  BY <1>0, Zenon DEF HInv, Sound, Linked, PartiesOK, Funded, Lines, Optional
<1>2. /\ x \in RippleState /\ x.bal = line[a].bal /\ x.locked = line[a].locked
      /\ x.count = line[a].count /\ TrustChanged(a, a, x)
  BY <1>0, <1>1, Zenon DEF RippleState, SetLimit
<1> HIDE DEF x
<1> QED
  BY <1>0, <1>1, <1>2, TrustChangedStep, Zenon

\* The issuer's TrustSet keeps the ledger sound.
LEMMA SetFreezeStep ==
    ASSUME HInv, NEW a \in Account, NEW frozen \in BOOLEAN, SetFreeze(a, frozen)
    PROVE  Sound(root', dir', entry', line')
<1> DEFINE x == [line[a] EXCEPT !.frozen = frozen]
<1>0. line \in Lines /\ line[a] # Absent
  BY Zenon DEF HInv, Sound, Linked, SetFreeze
<1>1. a # Issuer /\ ~native /\ line[a] \in RippleState
  BY <1>0, Zenon DEF HInv, Sound, Linked, PartiesOK, Funded, Lines, Optional
<1>2. /\ x \in RippleState /\ x.bal = line[a].bal /\ x.locked = line[a].locked
      /\ x.count = line[a].count /\ TrustChanged(Issuer, a, x)
  BY <1>1, Zenon DEF RippleState, SetFreeze
<1> HIDE DEF x
<1> QED
  BY <1>0, <1>1, <1>2, TrustChangedStep, Zenon

\* The holder's side of a payment of tokens: the balance goes down to what is locked
\* at most, and a line that is then in its default state gives up its reserve or goes.
LEMMA RedeemStep ==
    ASSUME NEW en, NEW a \in Account, a # Issuer, TokensOK(root, en, en, line), line[a] # Absent,
           NEW amt \in Nat \ {0}, amt <= Spendable(line[a])
    PROVE  LET y == Spent(line[a], amt)
               s == IF line[a].reserve /\ (y = Absent \/ ~y.reserve)
                    THEN AdjustOwnerCount(root, a, -1) ELSE root
           IN  /\ TokensOK(s, en, en, [line EXCEPT ![a] = y])
               /\ SameRoots(root, s)
<1> DEFINE x == line[a]
           w == [x EXCEPT !.bal = @ - amt]
           v == [w EXCEPT !.reserve = FALSE]
           y == Spent(x, amt)
           s == IF x.reserve /\ (y = Absent \/ ~y.reserve) THEN AdjustOwnerCount(root, a, -1) ELSE root
           m == [line EXCEPT ![a] = y]
<1>0. /\ root \in Roots /\ line \in Lines /\ EntriesOK(en) /\ PartiesOK(root, en, line)
      /\ OwnersOK(root, en, line) /\ LocksOK(line, en)
  BY Zenon DEF TokensOK
<1>1. root[a] # Absent /\ root[Issuer] # Absent
  BY <1>0, Zenon DEF PartiesOK
<1>2. x \in RippleState
  BY <1>0, Zenon DEF Lines, Optional
<1>3. x.bal \in Nat /\ x.locked \in Nat /\ amt <= x.bal - x.locked
  BY <1>2, Zenon DEF RippleState, Spendable
<1>4. /\ w \in RippleState /\ w.bal = x.bal - amt /\ w.locked = x.locked /\ w.count = x.count
      /\ w.reserve = x.reserve /\ w.frozen = x.frozen /\ w.limit = x.limit
  BY <1>2, <1>3, SMTT(30) DEF RippleState
<1>5. /\ v \in RippleState /\ v.bal = w.bal /\ v.locked = x.locked /\ v.count = x.count
      /\ v.reserve = FALSE /\ v.frozen = x.frozen
  BY <1>4, Zenon DEF RippleState
<1>6. w # Absent /\ v # Absent /\ x.reserve \in BOOLEAN /\ x.frozen \in BOOLEAN
  BY <1>2, <1>4, <1>5, AbsentAssumption, Zenon DEF RippleState
<1>7. \/ y = w /\ ~(w.bal = 0 /\ w.limit = 0 /\ w.reserve)
      \/ y = v /\ w.bal = 0 /\ w.limit = 0 /\ w.reserve
      \/ y = Absent /\ w.bal = 0 /\ w.limit = 0 /\ w.reserve /\ ~w.frozen
  BY Zenon DEF Spent
<1> HIDE DEF w, v, y
<1>8. /\ y \in Optional(RippleState) /\ (y = Absent => x.locked = 0)
      /\ y # Absent => y.locked = x.locked /\ y.count = x.count /\ y.locked <= y.bal
  <2>1. x.locked <= x.bal - amt /\ (x.bal - amt = 0 => x.locked = 0)
    BY <1>3
  <2>2. CASE y = w
    BY <1>4, <1>6, <2>1, <2>2, Zenon DEF Optional
  <2>3. CASE y = v
    BY <1>4, <1>5, <1>6, <2>1, <2>3, Zenon DEF Optional
  <2>4. CASE y = Absent /\ w.bal = 0
    BY <1>4, <2>1, <2>4, Zenon DEF Optional
  <2> QED
    BY <1>7, <2>2, <2>3, <2>4, Zenon
<1>9. IsFrozen(y) <=> IsFrozen(x)
  BY <1>4, <1>5, <1>6, <1>7, Zenon DEF IsFrozen
<1>10. m \in Lines /\ m[a] = y /\ \A b \in Account \ {a} : m[b] = line[b]
  BY <1>0, <1>8, Zenon DEF Lines
<1> HIDE DEF m
<1>11. s \in Roots /\ PartiesOK(s, en, m) /\ OwnersOK(s, en, m) /\ SameRoots(root, s)
  <2>1. CASE x.reserve /\ (y = Absent \/ ~y.reserve)
    <3> DEFINE n == -1
    <3>1. s = AdjustOwnerCount(root, a, n) /\ n \in Int
      BY <2>1
    <3>2. n = Count(HoldsReserve(m[a])) - Count(HoldsReserve(line[a]))
      BY <1>10, <2>1, SMTT(30) DEF Count, HoldsReserve
    <3> HIDE DEF n, s
    <3>3. s \in Roots
      BY <1>0, <1>1, <3>1, AdjustOwnerCountRoots, Zenon
    <3> QED
      BY <1>0, <1>1, <1>9, <1>10, <3>1, <3>2, <3>3, HolderLine, SMTT(30)
  <2>2. CASE ~(x.reserve /\ (y = Absent \/ ~y.reserve))
    <3>1. s = root
      BY <2>2, Zenon
    <3>2. HoldsReserve(m[a]) <=> HoldsReserve(line[a])
      BY <1>4, <1>5, <1>6, <1>7, <1>10, <2>2, Zenon DEF HoldsReserve
    <3>3. 0 = Count(HoldsReserve(m[a])) - Count(HoldsReserve(line[a])) /\ 0 \in Int
      BY <3>2 DEF Count
    <3> HIDE DEF s
    <3> QED
      BY <1>0, <1>1, <1>9, <1>10, <3>1, <3>3, HolderLine, SMTT(30)
  <2> QED
    BY <2>1, <2>2, Zenon
<1> HIDE DEF s
<1>12. LocksOK(m, en)
  <2>1. \A b \in Account \ {Issuer} :
              /\ m[b] = Absent => line[b] = Absent \/ line[b].locked = 0
              /\ m[b] # Absent =>
                    \/ line[b] = Absent /\ m[b].locked = 0
                    \/ /\ line[b] # Absent /\ m[b].locked = line[b].locked
                       /\ m[b].locked <= m[b].bal /\ m[b].count = line[b].count
    <3>1. \A b \in Account \ {Issuer} : line[b] # Absent => line[b].locked <= line[b].bal
      BY <1>0, Zenon DEF LocksOK
    <3> QED
      BY <1>8, <1>10, <3>1, Zenon
  <2> QED
    BY <1>0, <1>10, <2>1, LocksLine, Zenon
<1>13. TokensOK(s, en, en, m)
  BY <1>0, <1>10, <1>11, <1>12, Zenon DEF TokensOK
<1> QED
  BY <1>11, <1>13, Zenon DEF s, m, y

\* A payment of tokens keeps the ledger sound.
LEMMA TokenPaymentStep ==
    ASSUME HInv, NEW a \in Account, NEW dst \in Account, NEW amt \in Amount, TokenPayment(a, dst, amt)
    PROVE  Sound(root', dir', entry', line')
<1> DEFINE y == Spent(line[a], amt)
           s == IF line[a].reserve /\ (y = Absent \/ ~y.reserve)
                THEN AdjustOwnerCount(root, a, -1) ELSE root
           m == [line EXCEPT ![a] = y]
<1>0. mode \in Mode /\ amt \in Nat \ {0} /\ amt \in Nat
  BY ModeTypes, Zenon DEF HInv
<1>1. ~native /\ a # dst /\ dir' = dir /\ entry' = entry
  BY Zenon DEF TokenPayment
<1>2. TokensOK(root, entry, entry, line) /\ line \in Lines
  BY <1>1, Zenon DEF HInv, Sound, Linked, Funded, TokensOK
<1>3. a # Issuer => line[a] # Absent /\ amt <= Spendable(line[a])
  BY Zenon DEF TokenPayment
<1>4. dst # Issuer => line[dst] # Absent
  BY Zenon DEF TokenPayment
<1>5. a # Issuer => TokensOK(s, entry, entry, m)
  BY <1>0, <1>2, <1>3, RedeemStep, Zenon
<1>6. a # Issuer => m \in Lines /\ m[a] = y /\ \A b \in Account \ {a} : m[b] = line[b]
  BY <1>2, <1>5, Zenon DEF TokensOK, Lines
<1>7. CASE a = Issuer
  <2> DEFINE t == [line EXCEPT ![dst].bal = @ + amt]
  <2>1. root' = root /\ line' = t
    BY <1>1, <1>2, <1>7, Zenon DEF TokenPayment, Lines
  <2>2. TokensOK(root, entry, entry, t)
    BY <1>0, <1>1, <1>2, <1>4, <1>7, LineCredited, Zenon
  <2> QED
    BY <1>1, <2>1, <2>2, SoundLines, Zenon
<1>8. CASE a # Issuer /\ dst = Issuer
  <2>1. root' = s
    BY <1>8, Zenon DEF TokenPayment
  <2>2. line' = m
    BY <1>2, <1>8, Zenon DEF TokenPayment, Lines
  <2> HIDE DEF s, m
  <2> QED
    BY <1>1, <1>5, <1>8, <2>1, <2>2, SoundLines, Zenon
<1>9. CASE a # Issuer /\ dst # Issuer
  <2> DEFINE t == [m EXCEPT ![dst].bal = @ + amt]
  <2>1. root' = s
    BY <1>9, Zenon DEF TokenPayment
  <2>2. m[dst] = line[dst] /\ m[dst] # Absent
    BY <1>1, <1>4, <1>6, <1>9, Zenon
  <2>3. line' = t
    <3>1. line' = [p \in Account |-> IF p = a THEN y
                                     ELSE IF p = dst THEN [line[p] EXCEPT !.bal = @ + amt]
                                     ELSE line[p]]
      BY <1>9, Zenon DEF TokenPayment
    <3> HIDE DEF y, m
    <3> QED
      BY <1>1, <1>6, <1>9, <2>2, <3>1, Zenon DEF Lines
  <2> HIDE DEF s, m, y
  <2>4. TokensOK(s, entry, entry, t)
    BY <1>0, <1>5, <1>9, <2>2, LineCredited, Zenon
  <2> QED
    BY <1>1, <2>1, <2>3, <2>4, SoundLines, Zenon
<1> QED
  BY <1>7, <1>8, <1>9, Zenon

-----------------------------------------------------------------------------
(* Accounts come and go.                                                   *)

\* An account comes: nothing was left for it.
LEMMA AccountComes ==
    ASSUME native, NEW r, NEW d, NEW en, NEW l, Sound(r, d, en, l), NEW a \in Account, r[a] = Absent
    PROVE  Sound([r EXCEPT ![a] = NewRoot(0)], d, en, l)
<1> DEFINE n == NewRoot(0)
           s == [r EXCEPT ![a] = n]
<1>0. /\ r \in Roots /\ l \in Lines /\ EntriesOK(en) /\ DirsOK(d, en)
      /\ PartiesOK(r, en, l) /\ OwnersOK(r, en, l) /\ Funded(r, en, l)
      /\ \A b \in Account : l[b] = Absent
  BY Zenon DEF Sound, Linked, Funded
<1>1. n \in AccountRoot /\ n.bal = 0 /\ n.owners = 0 /\ n.tickets = 0
  BY Zenon DEF NewRoot, AccountRoot
<1>2. n # Absent
  BY <1>1, AbsentAssumption, Zenon
<1> HIDE DEF n
<1>3. s \in Roots /\ s[a] = n /\ \A b \in Account \ {a} : s[b] = r[b]
  BY <1>0, <1>1, Zenon DEF Roots, Optional
<1> HIDE DEF s
<1>4. PartiesOK(s, en, l)
  BY <1>0, <1>3, PartiesRoots, Zenon
<1>5. OwnersOK(s, en, l)
  <2>1. OwnedBy(en, a) = {} /\ TicketsOf(en, a) = {} /\ LinesOf(l, a) = {}
    <3>1. \A k \in Key : en[k] # Absent => en[k].owner # a
      BY <1>0, Zenon DEF PartiesOK, Parties
    <3> QED
      BY <1>0, <3>1, Zenon DEF OwnedBy, TicketsOf, LinesOf
  <2>2. Cardinality({}) = 0
    BY FS_EmptySet, Zenon
  <2>3. /\ s[a].owners = Cardinality(OwnedBy(en, a)) + Cardinality(LinesOf(l, a))
        /\ s[a].tickets = Cardinality(TicketsOf(en, a))
    BY <1>1, <1>3, <2>1, <2>2, SMTT(30)
  <2> QED
    BY <1>0, <1>3, <2>3, Zenon DEF OwnersOK
<1>6. DropsIn(s) = DropsIn(r)
  <2> DEFINE f == [b \in Account |-> IF r[b] # Absent THEN r[b].bal ELSE 0]
             g == [b \in Account |-> IF s[b] # Absent THEN s[b].bal ELSE 0]
  <2>1. \A b \in Account : g[b] = f[b]
    BY <1>1, <1>2, <1>3, Zenon
  <2>2. IsFiniteSet(Account)
    BY ModeAssumption, Zenon
  <2> HIDE DEF f, g
  <2>3. SumFunctionOnSet(g, Account) = SumFunctionOnSet(f, Account)
    BY <2>1, <2>2, SumSame, Zenon
  <2> QED
    BY <2>3, Zenon DEF DropsIn, f, g
<1>7. Sound(s, d, en, l)
  BY <1>0, <1>3, <1>4, <1>5, <1>6, Zenon DEF Sound, Linked, Funded
<1> QED
  BY <1>7, Zenon DEF s, n

\* A payment of drops keeps the ledger sound.
LEMMA PaymentStep ==
    ASSUME HInv, NEW a \in Account, NEW dst \in Account, NEW amt \in Amount, Payment(a, dst, amt)
    PROVE  Sound(root', dir', entry', line')
<1> DEFINE r == IF Exists(dst) THEN root ELSE [root EXCEPT ![dst] = NewRoot(0)]
<1>0. mode \in Mode /\ Sound(root, dir, entry, line) /\ root \in Roots /\ amt \in Nat
  BY ModeTypes, Zenon DEF HInv, Sound, Linked
<1>1. /\ native /\ root[a] # Absent /\ a # dst
      /\ root[a].bal >= amt + Reserve(root[a].owners)
      /\ root' = AddBalance(AddBalance(r, a, -amt), dst, amt)
      /\ dir' = dir /\ entry' = entry /\ line' = line
  BY Zenon DEF Payment, Exists
<1>2. Sound(r, dir, entry, line)
  BY <1>0, <1>1, AccountComes, Zenon DEF Exists
<1>3. r[a] = root[a] /\ r[dst] # Absent
  <2>1. NewRoot(0) # Absent
    <3>1. NewRoot(0) \in AccountRoot
      BY Zenon DEF NewRoot, AccountRoot
    <3> QED
      BY <3>1, AbsentAssumption, Zenon
  <2> QED
    BY <1>0, <1>1, <2>1, Zenon DEF Exists, Roots
<1> HIDE DEF r
<1>4. amt <= r[a].bal
  <2>1. root[a].bal \in Nat /\ Reserve(root[a].owners) \in Nat
    BY <1>0, <1>1, RootAt, ReserveNat, Zenon
  <2> QED
    BY <1>0, <1>1, <1>3, <2>1, SMTT(30)
<1> QED
  BY <1>0, <1>1, <1>2, <1>3, <1>4, DropsMove, Zenon

\* What the directory of an account without obligations lists is its own, and no
\* entry or line needs the account otherwise.
LEMMA OnlyOwn ==
    ASSUME HInv, NEW a \in Account, root[a] # Absent, ~Obligations(a)
    PROVE  /\ \A k \in dir[a] : /\ entry[k] # Absent /\ entry[k].owner = a
                                /\ Parties(entry[k]) = {a} /\ InsideAt(entry, k) = 0
           /\ \A k \in Key : entry[k] # Absent /\ k \notin dir[a] => a \notin Parties(entry[k])
           /\ \A k \in Key : entry[k] # Absent /\ entry[k].kind = "uritoken" => entry[k].issuer # a
           /\ line[a] = Absent
           /\ a = Issuer => \A p \in Account : line[p] = Absent
<1>0. DirsOK(dir, entry) /\ PartiesOK(root, entry, line)
  BY Zenon DEF HInv, Sound, Linked
<1>1. /\ ~root[a].minter /\ line[a] = Absent
      /\ \A k \in dir[a] : entry[k].kind \in {"ticket", "uritoken"}
      /\ a = Issuer => \A p \in Account : line[p] = Absent
  BY Zenon DEF Obligations, Deletable
<1>2. dir[a] = {k \in Key : entry[k] # Absent /\ a \in Parties(entry[k])}
  BY <1>0, Zenon DEF DirsOK
<1>3. ASSUME NEW k \in dir[a]
      PROVE  /\ entry[k] # Absent /\ entry[k].owner = a
             /\ Parties(entry[k]) = {a} /\ InsideAt(entry, k) = 0
  <2>1. entry[k] # Absent /\ a \in Parties(entry[k]) /\ entry[k].kind \in {"ticket", "uritoken"}
    BY <1>1, <1>2, Zenon
  <2> QED
    BY <2>1, Zenon DEF Parties, InsideAt, Inside
<1>4. \A k \in Key : entry[k] # Absent /\ entry[k].kind = "uritoken" => entry[k].issuer # a
  BY <1>0, <1>1, Zenon DEF PartiesOK
<1> QED
  BY <1>1, <1>2, <1>3, <1>4, Zenon

\* AccountDelete keeps the ledger sound.
LEMMA DeleteAccountStep ==
    ASSUME HInv, NEW a \in Account, NEW dst \in Account, DeleteAccount(a, dst)
    PROVE  Sound(root', dir', entry', line')
<1> DEFINE x == root[a].bal
           t == AddBalance(root, dst, x)
           s == [t EXCEPT ![a] = Absent]
           ne == [k \in Key |-> IF k \in dir[a] THEN Absent ELSE entry[k]]
           nd == [dir EXCEPT ![a] = {}]
<1>0. /\ Linked(root, dir, entry, line) /\ Funded(root, entry, line)
      /\ root \in Roots /\ line \in Lines /\ EntriesOK(entry) /\ DirsOK(dir, entry)
      /\ PartiesOK(root, entry, line) /\ OwnersOK(root, entry, line)
  BY Zenon DEF HInv, Sound, Linked
<1>1. /\ root[a] # Absent /\ root[dst] # Absent /\ a # dst /\ ~Obligations(a)
      /\ root' = s /\ dir' = nd /\ entry' = ne /\ line' = line
  BY Zenon DEF DeleteAccount, Exists
<1>2. /\ \A k \in dir[a] : /\ entry[k] # Absent /\ entry[k].owner = a
                           /\ Parties(entry[k]) = {a} /\ InsideAt(entry, k) = 0
      /\ \A k \in Key : entry[k] # Absent /\ k \notin dir[a] => a \notin Parties(entry[k])
      /\ \A k \in Key : entry[k] # Absent /\ entry[k].kind = "uritoken" => entry[k].issuer # a
      /\ line[a] = Absent
      /\ a = Issuer => \A p \in Account : line[p] = Absent
  <2> HIDE DEF Parties
  <2> QED
    BY <1>1, OnlyOwn, Zenon
<1>3. x \in Int /\ x \in Nat /\ root[dst].bal + x >= 0
  BY <1>0, <1>1, RootAt, SMTT(30)
<1>4. /\ Linked(t, dir, entry, line) /\ DropsIn(root) \in Int /\ DropsIn(t) = DropsIn(root) + x
      /\ \A b \in Account : t[b] # Absent <=> root[b] # Absent
      /\ t[a] = root[a]
  <2> HIDE DEF x
  <2> QED
    BY <1>0, <1>1, <1>3, LinkedBalance, SMTT(30)
<1>5. t \in Roots /\ PartiesOK(t, entry, line) /\ OwnersOK(t, entry, line)
  BY <1>4, Zenon DEF Linked
<1> HIDE DEF t
<1>6. s \in Roots /\ s[a] = Absent /\ \A b \in Account \ {a} : s[b] = t[b]
  BY <1>5, Zenon DEF Roots, Optional
<1>7. DropsIn(s) = DropsIn(t) - x
  <2> DEFINE f == [b \in Account |-> IF t[b] # Absent THEN t[b].bal ELSE 0]
             g == [b \in Account |-> IF s[b] # Absent THEN s[b].bal ELSE 0]
  <2>1. \A b \in Account : f[b] \in Int /\ g[b] \in Int
    BY <1>5, <1>6, RootAt, SMTT(30)
  <2>2. (\A b \in Account \ {a} : g[b] = f[b]) /\ f[a] = x /\ g[a] = 0
    BY <1>1, <1>4, <1>6, SMTT(30)
  <2>3. IsFiniteSet(Account)
    BY ModeAssumption, Zenon
  <2>4. DropsIn(s) = SumFunctionOnSet(g, Account) /\ DropsIn(t) = SumFunctionOnSet(f, Account)
    BY Zenon DEF DropsIn
  <2> HIDE DEF f, g, x, s
  <2>5. /\ SumFunctionOnSet(f, Account) \in Int
        /\ SumFunctionOnSet(g, Account) = (SumFunctionOnSet(f, Account) - f[a]) + g[a]
    BY <2>1, <2>2, <2>3, SumUpdate, SMTT(30)
  <2> QED
    BY <1>3, <2>2, <2>4, <2>5, SMTT(30)
<1> HIDE DEF s, x
<1>8. /\ \A k \in Key : ne[k] = IF k \in dir[a] THEN Absent ELSE entry[k]
      /\ ne \in [Key -> Optional(Entry)]
  BY <1>0, Zenon DEF EntriesOK, Optional
<1> HIDE DEF ne
<1>9. EntriesOK(ne)
  BY <1>0, <1>8, Zenon DEF EntriesOK
<1>10. DirsOK(nd, ne)
  <2>1. nd \in [Account -> SUBSET Key]
    BY <1>0, Zenon DEF DirsOK
  <2>2. ASSUME NEW b \in Account
        PROVE  nd[b] = {k \in Key : ne[k] # Absent /\ b \in Parties(ne[k])}
    <3>1. dir[b] = {k \in Key : entry[k] # Absent /\ b \in Parties(entry[k])}
      BY <1>0, Zenon DEF DirsOK
    <3>2. nd[b] = IF b = a THEN {} ELSE dir[b]
      BY <1>0, Zenon DEF DirsOK
    <3>3. nd[b] \in SUBSET Key
      BY <2>1, Zenon
    <3> HIDE DEF Parties, nd
    <3>4. \A k \in Key : k \in nd[b] <=> ne[k] # Absent /\ b \in Parties(ne[k])
      BY <1>2, <1>8, <3>1, <3>2, SMTT(30)
    <3> QED
      BY <3>3, <3>4, Zenon
  <2> QED
    BY <2>1, <2>2, Zenon DEF DirsOK
<1> HIDE DEF nd
<1>11. PartiesOK(s, ne, line)
  <2>1. ASSUME NEW k \in Key, ne[k] # Absent
        PROVE  /\ \A b \in Parties(ne[k]) : s[b] # Absent
               /\ ne[k].kind = "uritoken" => s[ne[k].issuer] # Absent /\ s[ne[k].issuer].minter
    <3>1. ne[k] = entry[k] /\ entry[k] # Absent /\ a \notin Parties(entry[k])
      BY <1>2, <1>8, <2>1, Zenon
    <3>2. entry[k] \in Entry /\ Parties(entry[k]) \in SUBSET Account
      BY <1>0, <3>1, InsideType, ByKind, Zenon
    <3>3. entry[k].kind = "uritoken" => entry[k].issuer \in Account /\ entry[k].issuer # a
      BY <1>0, <1>2, <3>1, TokenAt, Zenon
    <3>4. /\ \A b \in Parties(entry[k]) : t[b] # Absent
          /\ entry[k].kind = "uritoken" => t[entry[k].issuer] # Absent /\ t[entry[k].issuer].minter
      BY <1>5, <3>1, Zenon DEF PartiesOK
    <3> HIDE DEF Parties
    <3> QED
      BY <1>6, <3>1, <3>2, <3>3, <3>4, Zenon
  <2>2. \A b \in Account : line[b] # Absent => s[b] # Absent /\ s[Issuer] # Absent
    BY <1>2, <1>5, <1>6, LedgerAssumption, Zenon DEF PartiesOK
  <2>3. line[Issuer] = Absent
    BY <1>0, Zenon DEF PartiesOK
  <2> QED
    BY <2>1, <2>2, <2>3, Zenon DEF PartiesOK
<1>12. OwnersOK(s, ne, line)
  <2>1. \A b \in Account \ {a} : OwnedBy(ne, b) = OwnedBy(entry, b) /\ TicketsOf(ne, b) = TicketsOf(entry, b)
    BY <1>2, <1>8, SMTT(30) DEF OwnedBy, TicketsOf
  <2> QED
    BY <1>5, <1>6, <2>1, Zenon DEF OwnersOK
<1>13. DropsInside(ne) = DropsInside(entry) /\ (LocksOK(line, entry) => LocksOK(line, ne))
  <2>1. \A k \in Key : ne[k] = entry[k] \/ (InsideAt(entry, k) = 0 /\ InsideAt(ne, k) = 0)
    BY <1>2, <1>8, Zenon DEF InsideAt
  <2> QED
    BY <1>0, <1>9, <2>1, HoldingSame, Zenon
<1>14. DropsIn(s) = DropsIn(root)
  BY <1>3, <1>4, <1>7, SMTT(30)
<1>15. Linked(s, nd, ne, line)
  BY <1>0, <1>6, <1>9, <1>10, <1>11, <1>12, Zenon DEF Linked
<1> QED
  BY <1>0, <1>1, <1>13, <1>14, <1>15, Zenon DEF Sound, Funded

-----------------------------------------------------------------------------
(* The invariant.                                                          *)

\* The root and the line of a holder in the first ledger.
FirstRoot(b, c) == [NewRoot(b) EXCEPT !.owners = c]
FirstLine(b, c) == [NewLine(b) EXCEPT !.limit = c]

IsFirstRoot(x, b, c) == x \in AccountRoot /\ x.bal = b /\ x.owners = c /\ x.tickets = 0
IsFirstLine(x) ==
    x \in RippleState /\ x.locked = 0 /\ x.count = 0 /\ x.reserve = TRUE /\ x.frozen = FALSE

\* Their formats.
LEMMA FirstRecords ==
    ASSUME NEW b \in Nat, NEW c \in Nat
    PROVE  IsFirstRoot(FirstRoot(b, c), b, c) /\ IsFirstLine(FirstLine(b, c))
  BY Zenon DEF FirstRoot, FirstLine, IsFirstRoot, IsFirstLine, NewRoot, NewLine, AccountRoot, RippleState

\* The first ledger has the accounts and lines of the mode and no entries.
LEMMA InitSound == ASSUME Init PROVE HInv
<1> DEFINE D == DOMAIN mode.drops
           H == DOMAIN mode.held
<1>0. /\ mode \in Mode /\ now = 0 /\ native \in BOOLEAN /\ mode.end \in Nat
      /\ mode.drops \in [D -> Nat] /\ D \subseteq Account
      /\ mode.held \in [H -> [bal : Nat, limit : Nat]] /\ H \subseteq D \ {Issuer}
      /\ H # {} => Issuer \in D
  BY ModeAssumption, Zenon DEF Init, native
<1>1. /\ dir = [a \in Account |-> {}] /\ entry = [k \in Key |-> Absent]
      /\ line = [a \in Account |-> IF native \/ a \notin H THEN Absent
                                   ELSE FirstLine(mode.held[a].bal, mode.held[a].limit)]
      /\ root = [a \in Account |->
                  IF a \in D THEN FirstRoot(mode.drops[a], Count(line[a] # Absent))
                  ELSE Absent]
  BY Zenon DEF Init, FirstLine, FirstRoot
<1> HIDE DEF D, H
<1>2. ASSUME NEW a \in Account, ~native, a \in H
      PROVE  /\ line[a] \in RippleState /\ line[a] # Absent /\ line[a].locked = 0 /\ line[a].count = 0
             /\ line[a].reserve = TRUE /\ line[a].frozen = FALSE
  <2> DEFINE b == mode.held[a].bal
             c == mode.held[a].limit
  <2>1. b \in Nat /\ c \in Nat
    BY <1>0, <1>2, Zenon
  <2>2. line[a] = FirstLine(b, c)
    BY <1>1, <1>2, Zenon
  <2> HIDE DEF b, c
  <2>3. IsFirstLine(line[a])
    BY <2>1, <2>2, FirstRecords, Zenon
  <2> QED
    BY <2>3, AbsentAssumption, Zenon DEF IsFirstLine
<1>3. \A a \in Account : native \/ a \notin H => line[a] = Absent
  BY <1>1, Zenon
<1>4. line \in Lines
  BY <1>1, <1>2, <1>3, Zenon DEF Lines, Optional
<1>5. ASSUME NEW a \in Account, a \in D
      PROVE  /\ root[a] \in AccountRoot /\ root[a] # Absent /\ root[a].bal = mode.drops[a]
             /\ root[a].owners = Count(line[a] # Absent) /\ root[a].tickets = 0
  <2> DEFINE b == mode.drops[a]
             c == Count(line[a] # Absent)
  <2>1. b \in Nat /\ c \in Nat
    BY <1>0, <1>5, Zenon DEF Count
  <2>2. root[a] = FirstRoot(b, c)
    BY <1>1, <1>5, Zenon
  <2> HIDE DEF b, c
  <2>3. IsFirstRoot(root[a], b, c)
    BY <2>1, <2>2, FirstRecords, Zenon
  <2> QED
    BY <2>3, AbsentAssumption, Zenon DEF IsFirstRoot, b, c
<1>6. \A a \in Account : a \notin D => root[a] = Absent
  BY <1>1, Zenon
<1>7. root \in Roots
  BY <1>1, <1>5, <1>6, Zenon DEF Roots, Optional
<1>8. EntriesOK(entry) /\ DirsOK(dir, entry)
  BY <1>1, Zenon DEF EntriesOK, DirsOK, Optional
<1>9. PartiesOK(root, entry, line)
  BY <1>0, <1>1, <1>2, <1>3, <1>5, LedgerAssumption, Zenon DEF PartiesOK
<1>10. OwnersOK(root, entry, line)
  <2>1. ASSUME NEW a \in Account, root[a] # Absent
        PROVE  /\ root[a].owners = Cardinality(OwnedBy(entry, a)) + Cardinality(LinesOf(line, a))
               /\ root[a].tickets = Cardinality(TicketsOf(entry, a))
    <3>1. a \in D
      BY <1>6, <2>1, Zenon
    <3>2. OwnedBy(entry, a) = {} /\ TicketsOf(entry, a) = {}
      BY <1>1, Zenon DEF OwnedBy, TicketsOf
    <3>3. LinesOf(line, a) = IF line[a] # Absent THEN {a} ELSE {}
      <4>1. CASE a = Issuer
        BY <1>0, <1>2, <1>3, <4>1, Zenon DEF LinesOf
      <4>2. CASE a # Issuer
        BY <1>2, <1>3, <4>2, Zenon DEF LinesOf
      <4> QED
        BY <4>1, <4>2, Zenon
    <3>4. Cardinality({}) = 0 /\ Cardinality({a}) = 1
      BY FS_EmptySet, FS_Singleton, Zenon
    <3> QED
      BY <1>5, <3>1, <3>2, <3>3, <3>4, SMTT(30) DEF Count
  <2> QED
    BY <2>1, Zenon DEF OwnersOK
<1>11. IsFiniteSet(Account) /\ IsFiniteSet(Key) /\ IsFiniteSet({})
  BY ModeAssumption, FS_EmptySet, Zenon
<1>12. ASSUME NEW f, \A k \in Key : f[k] = 0
       PROVE  SumFunctionOnSet(f, Key) = 0
  <2>1. SumFunctionOnSet(f, Key) = SumFunctionOnSet(f, {})
    BY <1>11, <1>12, SumZero, SMTT(30)
  <2> QED
    BY <1>11, <2>1, SumPick, Zenon
<1>13. DropsIn(root) + DropsInside(entry) = SumFunction(mode.drops)
  <2> DEFINE f == [a \in Account |-> IF root[a] # Absent THEN root[a].bal ELSE 0]
             g == [k \in Key |-> InsideAt(entry, k)]
  <2>1. /\ \A a \in Account : f[a] \in Int
        /\ \A a \in Account \ D : f[a] = 0
        /\ \A a \in D : f[a] = mode.drops[a]
    BY <1>0, <1>5, <1>6, SMTT(30)
  <2>2. \A k \in Key : g[k] = 0
    BY <1>1, Zenon DEF InsideAt
  <2>3. DropsIn(root) = SumFunctionOnSet(f, Account) /\ DropsInside(entry) = SumFunctionOnSet(g, Key)
    BY Zenon DEF DropsIn, DropsInside
  <2> HIDE DEF f, g
  <2>4. SumFunctionOnSet(f, Account) = SumFunctionOnSet(f, D)
    BY <1>0, <1>11, <2>1, SumZero, Zenon
  <2>5. IsFiniteSet(D)
    BY <1>0, <1>11, FS_Subset, Zenon
  <2>6. SumFunctionOnSet(f, D) = SumFunctionOnSet(mode.drops, D)
    BY <2>1, <2>5, SumSame, Zenon
  <2>7. SumFunctionOnSet(g, Key) = 0
    BY <1>12, <2>2, Zenon
  <2>8. SumFunction(mode.drops) = SumFunctionOnSet(mode.drops, D)
    BY Zenon DEF SumFunction, D
  <2>9. SumFunctionOnSet(mode.drops, D) \in Nat
    BY <1>0, <2>5, SumType, Zenon
  <2> QED
    BY <2>3, <2>4, <2>6, <2>7, <2>8, <2>9, SMTT(30)
<1>14. ~native => LocksOK(line, entry)
  <2>1. ASSUME NEW a
        PROVE  LockedFor(entry, a) = 0 /\ Busy(entry, a) = {}
    <3>1. \A k \in Key : InsideFor(entry, a)[k] = 0
      BY <1>1, Zenon DEF InsideFor, OwnedBy
    <3>2. Busy(entry, a) = {}
      BY <1>1, Zenon DEF Busy, OwnedBy
    <3> QED
      BY <1>12, <3>1, <3>2, Zenon DEF LockedFor
  <2>2. Cardinality({}) = 0
    BY FS_EmptySet, Zenon
  <2>3. \A a \in Account : line[a] # Absent => line[a] \in RippleState /\ line[a].locked = 0 /\ line[a].count = 0
    BY <1>2, <1>3, Zenon
  <2>4. \A a \in Account : line[a] # Absent => line[a].bal \in Nat
    BY <2>3, Zenon DEF RippleState
  <2> QED
    BY <2>1, <2>2, <2>3, <2>4, SMTT(30) DEF LocksOK
<1>15. Funded(root, entry, line)
  BY <1>3, <1>13, <1>14, Zenon DEF Funded
<1>16. now \in 0 .. mode.end
  BY <1>0
<1> QED
  BY <1>0, <1>4, <1>7, <1>8, <1>9, <1>10, <1>15, <1>16, Zenon DEF HInv, Sound, Linked

\* Every transaction keeps the ledger sound.
LEMMA StepSound ==
    ASSUME HInv, Next
    PROVE  Sound(root', dir', entry', line') /\ mode' = mode /\ now' \in 0 .. mode.end
<1>0. now \in 0 .. mode.end /\ mode \in Mode
  BY Zenon DEF HInv
<1>1. CASE EscrowStep
  <2>1. ASSUME NEW a \in Account, NEW dst \in Account, NEW amt \in Amount,
               NEW finish \in Optional(mode.deadlines), NEW cancel \in Optional(mode.deadlines),
               EscrowCreate(a, dst, amt, finish, cancel)
        PROVE  Sound(root', dir', entry', line') /\ mode' = mode /\ now' = now
    BY <2>1, EscrowCreateStep, Zenon DEF EscrowCreate
  <2>2. ASSUME NEW a \in Account, NEW k \in Key, EscrowFinish(a, k)
        PROVE  Sound(root', dir', entry', line') /\ mode' = mode /\ now' = now
    BY <2>2, EscrowFinishStep, Zenon DEF EscrowFinish
  <2>3. ASSUME NEW a \in Account, NEW k \in Key, EscrowCancel(a, k)
        PROVE  Sound(root', dir', entry', line') /\ mode' = mode /\ now' = now
    BY <2>3, EscrowCancelStep, Zenon DEF EscrowCancel
  <2> QED
    BY <1>0, <1>1, <2>1, <2>2, <2>3, Zenon DEF EscrowStep
<1>2. CASE PayChanStep
  <2>1. ASSUME NEW a \in Account, NEW dst \in Account, NEW amt \in Amount,
               NEW cancel \in Optional(mode.deadlines), PayChanCreate(a, dst, amt, cancel)
        PROVE  Sound(root', dir', entry', line') /\ mode' = mode /\ now' = now
    BY <2>1, PayChanCreateStep, Zenon DEF PayChanCreate
  <2>2. ASSUME NEW a \in Account, NEW k \in Key, NEW amt \in Amount, FundExpired(a, k, amt)
        PROVE  Sound(root', dir', entry', line') /\ mode' = mode /\ now' = now
    BY <2>2, ClosedStep, Zenon DEF FundExpired, CloseChannel
  <2>3. ASSUME NEW a \in Account, NEW k \in Key, NEW amt \in Amount,
               NEW extend \in Optional(mode.deadlines), Fund(a, k, amt, extend)
        PROVE  Sound(root', dir', entry', line') /\ mode' = mode /\ now' = now
    BY <2>3, FundStep, Zenon DEF Fund
  <2>4. ASSUME NEW a \in Account, NEW k \in Key, ClaimExpired(a, k)
        PROVE  Sound(root', dir', entry', line') /\ mode' = mode /\ now' = now
    BY <2>4, ClosedStep, Zenon DEF ClaimExpired, CloseChannel
  <2>5. ASSUME NEW a \in Account, NEW k \in Key, NEW req \in Optional(Amount), NEW flag,
               Claim(a, k, req, flag)
        PROVE  Sound(root', dir', entry', line') /\ mode' = mode /\ now' = now
    <3>1. mode' = mode /\ now' = now
      BY <2>5, Zenon DEF Claim, CloseChannel
    <3> QED
      BY <2>5, <3>1, ClaimStep, Zenon
  <2> QED
    BY <1>0, <1>2, <2>1, <2>2, <2>3, <2>4, <2>5, Zenon DEF PayChanStep
<1>3. CASE CheckStep
  <2>1. ASSUME NEW a \in Account, NEW dst \in Account, NEW amt \in Amount,
               NEW expiration \in Optional(mode.deadlines), CheckCreate(a, dst, amt, expiration)
        PROVE  Sound(root', dir', entry', line') /\ mode' = mode /\ now' = now
    BY <2>1, CheckCreateStep, Zenon DEF CheckCreate
  <2>2. ASSUME NEW a \in Account, NEW k \in Key, NEW value \in Amount, NEW atLeast \in BOOLEAN,
               CheckCash(a, k, value, atLeast)
        PROVE  Sound(root', dir', entry', line') /\ mode' = mode /\ now' = now
    BY <2>2, CheckCashStep, Zenon DEF CheckCash, CheckGone
  <2>3. ASSUME NEW a \in Account, NEW k \in Key, CheckCancel(a, k)
        PROVE  Sound(root', dir', entry', line') /\ mode' = mode /\ now' = now
    BY <2>3, CheckCancelStep, Zenon DEF CheckCancel, CheckGone
  <2>4. ASSUME NEW a \in Account, NEW K \in SUBSET Free, TicketCreate(a, K)
        PROVE  Sound(root', dir', entry', line') /\ mode' = mode /\ now' = now
    BY <2>4, TicketCreateStep, Zenon DEF TicketCreate
  <2>5. ASSUME NEW a \in Account, NEW k \in Key, TicketUse(a, k)
        PROVE  Sound(root', dir', entry', line') /\ mode' = mode /\ now' = now
    BY <2>5, TicketUseStep, Zenon DEF TicketUse
  <2> QED
    BY <1>0, <1>3, <2>1, <2>2, <2>3, <2>4, <2>5, Zenon DEF CheckStep
<1>4. CASE URITokenStep
  <2>1. ASSUME NEW a \in Account, NEW b \in BOOLEAN, NEW p \in Optional(Price),
               NEW dst \in Optional(Account), URITokenMint(a, b, p, dst)
        PROVE  Sound(root', dir', entry', line') /\ mode' = mode /\ now' = now
    BY <2>1, URITokenMintStep, Zenon DEF URITokenMint
  <2>2. ASSUME NEW a \in Account, NEW k \in Key, NEW p \in Price, NEW dst \in Optional(Account),
               URITokenCreateSellOffer(a, k, p, dst)
        PROVE  Sound(root', dir', entry', line') /\ mode' = mode /\ now' = now
    BY <2>2, SellOfferStep, Zenon DEF URITokenCreateSellOffer
  <2>3. ASSUME NEW a \in Account, NEW k \in Key, URITokenCancelSellOffer(a, k)
        PROVE  Sound(root', dir', entry', line') /\ mode' = mode /\ now' = now
    BY <2>3, SellOfferCancelStep, Zenon DEF URITokenCancelSellOffer
  <2>4. ASSUME NEW a \in Account, NEW k \in Key, NEW p \in Amount \cup {0}, URITokenBuy(a, k, p)
        PROVE  Sound(root', dir', entry', line') /\ mode' = mode /\ now' = now
    BY <2>4, URITokenBuyStep, Zenon DEF URITokenBuy
  <2>5. ASSUME NEW a \in Account, NEW k \in Key, URITokenBurn(a, k)
        PROVE  Sound(root', dir', entry', line') /\ mode' = mode /\ now' = now
    BY <2>5, URITokenBurnStep, Zenon DEF URITokenBurn
  <2> QED
    BY <1>0, <1>4, <2>1, <2>2, <2>3, <2>4, <2>5, Zenon DEF URITokenStep
<1>5. CASE LineStep
  <2>1. ASSUME NEW a \in Account, NEW limit \in Limit, TrustCreate(a, limit)
        PROVE  Sound(root', dir', entry', line') /\ mode' = mode /\ now' = now
    BY <2>1, TrustCreateStep, Zenon DEF TrustCreate
  <2>2. ASSUME NEW a \in Account, NEW limit \in Limit, SetLimit(a, limit)
        PROVE  Sound(root', dir', entry', line') /\ mode' = mode /\ now' = now
    BY <2>2, SetLimitStep, Zenon DEF SetLimit, TrustChanged
  <2>3. ASSUME NEW a \in Account, NEW frozen \in BOOLEAN, SetFreeze(a, frozen)
        PROVE  Sound(root', dir', entry', line') /\ mode' = mode /\ now' = now
    BY <2>3, SetFreezeStep, Zenon DEF SetFreeze, TrustChanged
  <2>4. ASSUME NEW a \in Account, NEW dst \in Account, NEW amt \in Amount, TokenPayment(a, dst, amt)
        PROVE  Sound(root', dir', entry', line') /\ mode' = mode /\ now' = now
    BY <2>4, TokenPaymentStep, Zenon DEF TokenPayment
  <2> QED
    BY <1>0, <1>5, <2>1, <2>2, <2>3, <2>4, Zenon DEF LineStep
<1>6. ASSUME NEW a \in Account, NEW dst \in Account, NEW amt \in Amount, Payment(a, dst, amt)
      PROVE  Sound(root', dir', entry', line') /\ mode' = mode /\ now' \in 0 .. mode.end
  BY <1>0, <1>6, PaymentStep, Zenon DEF Payment
<1>7. ASSUME NEW a \in Account, NEW dst \in Account, DeleteAccount(a, dst)
      PROVE  Sound(root', dir', entry', line') /\ mode' = mode /\ now' \in 0 .. mode.end
  BY <1>0, <1>7, DeleteAccountStep, Zenon DEF DeleteAccount
<1>8. CASE LedgerClose
  <2>1. mode.end \in Nat
    BY <1>0, ModeTypes, Zenon
  <2>2. now' \in 0 .. mode.end
    BY <1>0, <1>8, <2>1, SMTT(30) DEF LedgerClose
  <2> QED
    BY <1>8, <2>2, Zenon DEF LedgerClose, HInv
<1> QED
  BY <1>1, <1>2, <1>3, <1>4, <1>5, <1>6, <1>7, <1>8, Zenon DEF Next

\* The invariant is inductive.
THEOREM HoldingsInvariant == Spec => []HInv
<1>1. Init => HInv
  BY InitSound, Zenon
<1>2. HInv /\ [Next]_ledger => HInv'
  <2>1. ASSUME HInv, Next
        PROVE  HInv'
    <3>1. Sound(root', dir', entry', line') /\ mode' = mode /\ now' \in 0 .. mode.end
      BY <2>1, StepSound, Zenon
    <3> QED
      BY <2>1, <3>1, Zenon DEF HInv, Sound, Funded, native
  <2>2. ASSUME HInv, UNCHANGED ledger
        PROVE  HInv'
    BY <2>2, Zenon DEF ledger, HInv, Sound, Funded, native
  <2> QED
    BY <2>1, <2>2, Zenon
<1> QED
  BY <1>1, <1>2, PTL DEF Spec

\* Every transaction leaves records of their formats.
THEOREM HoldingsTypeCorrect == Spec => []TypeOK
<1>1. HInv => TypeOK
  BY Zenon DEF HInv, Sound, Linked, EntriesOK, DirsOK, Roots, Lines, TypeOK, Channels, Entries
<1> QED
  BY <1>1, HoldingsInvariant, PTL

\* Every deletion finds its page: owner directories are exact.
THEOREM DirectoriesAlwaysExact == Spec => []DirectoriesExact
<1>1. HInv => DirectoriesExact
  <2> HIDE DEF Parties
  <2> QED
    BY Zenon DEF HInv, Sound, Linked, DirsOK, DirectoriesExact, Entries
<1> QED
  BY <1>1, HoldingsInvariant, PTL

\* OwnerCount and TicketCount count what an account answers for.
THEOREM OwnersAlwaysExact == Spec => []OwnersExact
<1>1. HInv => OwnersExact
  <2> SUFFICES ASSUME HInv, NEW a \in Account, Exists(a)
               PROVE  /\ root[a].owners = Cardinality(Owned(a))
                            + Cardinality({p \in Account : /\ line[p] # Absent
                                                           /\ IF a = Issuer THEN line[p].frozen
                                                              ELSE p = a /\ line[p].reserve})
                      /\ root[a].tickets = Cardinality({k \in Owned(a) : entry[k].kind = "ticket"})
    BY Zenon DEF OwnersExact
  <2>1. Owned(a) = OwnedBy(entry, a)
    BY Zenon DEF Owned, Entries, OwnedBy
  <2>2. {k \in Owned(a) : entry[k].kind = "ticket"} = TicketsOf(entry, a)
    BY <2>1, Zenon DEF TicketsOf
  <2>3. {p \in Account : line[p] # Absent /\ IF a = Issuer THEN line[p].frozen
                                            ELSE p = a /\ line[p].reserve} = LinesOf(line, a)
    BY Zenon DEF LinesOf
  <2> QED
    BY <2>1, <2>2, <2>3, Zenon DEF HInv, Sound, Linked, OwnersOK, Exists
<1> QED
  BY <1>1, HoldingsInvariant, PTL

\* No account goes that an entry or a line still needs.
THEOREM PartiesAlwaysExist == Spec => []PartiesExist
<1>1. HInv => PartiesExist
  <2> HIDE DEF Parties
  <2> QED
    BY Zenon DEF HInv, Sound, Linked, PartiesOK, PartiesExist, Entries, Exists
<1> QED
  BY <1>1, HoldingsInvariant, PTL

\* Transactions neither make nor lose drops.
THEOREM DropsAlwaysConserved == Spec => []DropsConserved
<1>1. HInv => DropsConserved
  <2> SUFFICES ASSUME HInv, native
               PROVE  SumFunction(Held) + SumFunction(HeldInside) = SumFunction(mode.drops)
    BY Zenon DEF DropsConserved
  <2>1. DOMAIN Held = Account /\ DOMAIN HeldInside = Key
    BY Zenon DEF Held, HeldInside
  <2>2. Held = [a \in Account |-> IF root[a] # Absent THEN root[a].bal ELSE 0]
    BY Zenon DEF Held, Exists
  <2>3. HeldInside = [k \in Key |-> InsideAt(entry, k)]
    BY Zenon DEF HeldInside, InsideAt
  <2>4. SumFunction(Held) = DropsIn(root) /\ SumFunction(HeldInside) = DropsInside(entry)
    BY <2>1, <2>2, <2>3, Zenon DEF SumFunction, DropsIn, DropsInside
  <2> QED
    BY <2>4, Zenon DEF HInv, Sound, Funded
<1> QED
  BY <1>1, HoldingsInvariant, PTL

\* What is locked on a line is what its holder's escrows and channels hold.
THEOREM LockedAlwaysExact == Spec => []LockedExact
<1>1. HInv => LockedExact
  <2> SUFFICES ASSUME HInv, NEW a \in Account \ {Issuer}
               PROVE  /\ native \/ (IF line[a] = Absent THEN 0 ELSE line[a].locked) = SumFunction(HeldFor(a))
                      /\ line[a] # Absent => (IF line[a] = Absent THEN 0 ELSE line[a].locked) <= line[a].bal
    BY Zenon DEF LockedExact
  <2>1. Owned(a) = OwnedBy(entry, a)
    BY Zenon DEF Owned, Entries, OwnedBy
  <2>2. HeldFor(a) = InsideFor(entry, a) /\ DOMAIN InsideFor(entry, a) = Key
    BY <2>1, Zenon DEF HeldFor, InsideFor
  <2>3. SumFunction(HeldFor(a)) = LockedFor(entry, a)
    BY <2>2, Zenon DEF SumFunction, LockedFor
  <2> QED
    BY <2>3, Zenon DEF HInv, Sound, Funded, LocksOK
<1> QED
  BY <1>1, HoldingsInvariant, PTL

\* LockCount covers every entry with something locked.
THEOREM LockCountAlwaysCovers == Spec => []LockCountCovers
<1>1. HInv => LockCountCovers
  <2> SUFFICES ASSUME HInv, NEW a \in Account \ {Issuer}, line[a] # Absent
               PROVE  line[a].count >= Cardinality({k \in Owned(a) : Inside(entry[k]) > 0})
    BY Zenon DEF LockCountCovers
  <2>1. {k \in Owned(a) : Inside(entry[k]) > 0} = Busy(entry, a)
    BY Zenon DEF Owned, Entries, OwnedBy, Busy
  <2>2. ~native /\ line \in Lines
    BY Zenon DEF HInv, Sound, Linked, Funded
  <2>3. Cardinality(Busy(entry, a)) <= line[a].count
    BY <2>2, Zenon DEF HInv, Sound, Funded, LocksOK
  <2>4. Cardinality(Busy(entry, a)) \in Nat /\ line[a].count \in Nat
    BY <2>2, CountsFinite, Zenon DEF Lines, Optional, RippleState
  <2> QED
    BY <2>1, <2>3, <2>4, Zenon
<1> QED
  BY <1>1, HoldingsInvariant, PTL
=============================================================================
