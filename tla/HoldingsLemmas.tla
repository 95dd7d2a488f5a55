--------------------------- MODULE HoldingsLemmas ---------------------------
(* Lemmas for the proofs about Holdings.  First, facts about the sum of a  *)
(* function over a finite set (SumFunctionOnSet of the library): its       *)
(* unfolding, its type, and how it changes with the function; induction is *)
(* by a least counterexample among the cardinalities.  Then the parts of   *)
(* the invariant as predicates on roots, directories, entries and lines,   *)
(* what one change of a ledger entry does to each part, and that the       *)
(* transactors on escrows, payment channels and checks keep them.          *)
EXTENDS Holdings, Functions, FiniteSetTheorems, WellFoundedInduction, TLAPS

\* The element that the fold takes first, one step of it, and a table of its results.
Pick(s) == CHOOSE x \in s : TRUE
SumStep(it, f, s) == IF s = {} THEN 0 ELSE f[Pick(s)] + it[s \ {Pick(s)}]
SumTable(it, f, S) == it = [s \in SUBSET S |-> SumStep(it, f, s)]

\* Every set of naturals that has an element has a least one.
LEMMA LeastNatural ==
    ASSUME NEW T \in SUBSET Nat, T # {}
    PROVE  \E n \in T : \A m \in T : ~(m < n)
<1> DEFINE Less == {p \in Nat \X Nat : p[1] < p[2]}
<1>1. IsWellFoundedOn(Less, Nat)
  BY NatLessThanWellFounded, Zenon DEF OpToRel
<1> HIDE DEF Less
<1>2. PICK n \in T : \A m \in T : ~(<<m, n>> \in Less)
  BY <1>1, WFMin, Zenon
<1>3. \A m \in T : m < n => <<m, n>> \in Less
  BY Zenon DEF Less
<1> QED
  BY <1>2, <1>3, Zenon

\* The library's sum is the table's last value.
LEMMA SumIsTable ==
    ASSUME NEW f, NEW S
    PROVE  SumFunctionOnSet(f, S) = (CHOOSE it : SumTable(it, f, S))[S]
  BY Zenon DEF SumFunctionOnSet, FoldFunctionOnSet, MapThenFoldSet, SumTable, SumStep, Pick

\* Tables of functions that agree where the tables overlap agree there.
LEMMA TablesAgree ==
    ASSUME NEW f, NEW g, NEW S, NEW T, IsFiniteSet(S), NEW it, NEW jt,
           SumTable(it, f, S), SumTable(jt, g, T), \A x \in S \cap T : f[x] = g[x]
    PROVE  \A s \in SUBSET (S \cap T) : it[s] = jt[s]
<1> DEFINE Bad == {n \in Nat : \E s \in SUBSET (S \cap T) : Cardinality(s) = n /\ it[s] # jt[s]}
<1>1. \A s \in SUBSET (S \cap T) : IsFiniteSet(s) /\ Cardinality(s) \in Nat
  BY FS_Subset, FS_CardinalityType, Zenon
<1>2. \A s \in SUBSET (S \cap T) : it[s] = SumStep(it, f, s) /\ jt[s] = SumStep(jt, g, s)
  BY Zenon DEF SumTable
<1>3. ASSUME Bad # {} PROVE FALSE
  <2>1. PICK n \in Bad : \A m \in Bad : ~(m < n)
    BY <1>3, LeastNatural, Zenon
  <2>2. PICK s \in SUBSET (S \cap T) : Cardinality(s) = n /\ it[s] # jt[s]
    BY Zenon
  <2>3. s # {}
    BY <1>2, <2>2, Zenon DEF SumStep
  <2> DEFINE x == Pick(s)
             t == s \ {x}
  <2>4. x \in s
    BY <2>3, Zenon DEF Pick
  <2>5. Cardinality(t) = n - 1 /\ Cardinality(t) \in Nat
    BY <1>1, <2>2, <2>4, FS_RemoveElement, Zenon
  <2>6. n - 1 \notin Bad
    BY <2>1, <2>5
  <2>7. it[t] = jt[t]
    BY <2>5, <2>6, Zenon
  <2> QED
    BY <1>2, <2>2, <2>3, <2>4, <2>7, Zenon DEF SumStep
<1> QED
  BY <1>1, <1>3, Zenon

\* A finite set has a table.
LEMMA TableExists ==
    ASSUME NEW f, NEW S, IsFiniteSet(S)
    PROVE  \E it : SumTable(it, f, S)
<1> DEFINE Bad == {n \in Nat : \E s \in SUBSET S : Cardinality(s) = n /\ ~\E it : SumTable(it, f, s)}
<1>1. \A s \in SUBSET S : IsFiniteSet(s) /\ Cardinality(s) \in Nat
  BY FS_Subset, FS_CardinalityType, Zenon
<1>2. ASSUME Bad # {} PROVE FALSE
  <2>1. PICK n \in Bad : \A m \in Bad : ~(m < n)
    BY <1>2, LeastNatural, Zenon
  <2>2. PICK s \in SUBSET S : Cardinality(s) = n /\ ~\E it : SumTable(it, f, s)
    BY Zenon
  <2> DEFINE Tab(t) == CHOOSE it : SumTable(it, f, t)
             Rest(t) == t \ {Pick(t)}
             new == [t \in SUBSET s |-> IF t = {} THEN 0 ELSE f[Pick(t)] + Tab(Rest(t))[Rest(t)]]
  <2>3. ASSUME NEW t \in SUBSET s, t # {} PROVE SumTable(Tab(Rest(t)), f, Rest(t))
    <3>1. Pick(t) \in t /\ Rest(t) \in SUBSET S
      BY <2>3, Zenon DEF Pick
    <3>2. Cardinality(Rest(t)) < n
      <4>1. Cardinality(t) <= n /\ Cardinality(t) \in Nat
        BY <1>1, <2>2, FS_Subset, Zenon
      <4>2. Cardinality(Rest(t)) = Cardinality(t) - 1
        BY <1>1, <3>1, FS_RemoveElement, Zenon
      <4> QED
        BY <4>1, <4>2
    <3>3. \E it : SumTable(it, f, Rest(t))
      BY <1>1, <2>1, <3>1, <3>2, Zenon
    <3> QED
      BY <3>3, Zenon
  <2>4. ASSUME NEW t \in SUBSET s, t # {}
        PROVE  new[Rest(t)] = Tab(Rest(t))[Rest(t)]
    <3> DEFINE u == Rest(t)
    <3>1. SumTable(Tab(u), f, u)
      BY <2>3, <2>4, Zenon
    <3>2. Tab(u)[u] = SumStep(Tab(u), f, u)
      BY <3>1, Zenon DEF SumTable
    <3>3. CASE u = {}
      BY <3>2, <3>3, Zenon DEF SumStep
    <3>4. CASE u # {}
      <4>1. SumTable(Tab(Rest(u)), f, Rest(u))
        BY <2>3, <3>4, Zenon
      <4>2. IsFiniteSet(u) /\ Rest(u) \in SUBSET (u \cap Rest(u))
        BY <1>1, Zenon
      <4> HIDE DEF Tab, Rest
      <4>3. Tab(u)[Rest(u)] = Tab(Rest(u))[Rest(u)]
        BY <3>1, <4>1, <4>2, TablesAgree
      <4> USE DEF Rest
      <4>4. Tab(u)[u] = f[Pick(u)] + Tab(u)[Rest(u)]
        BY <3>2, <3>4, Zenon DEF SumStep
      <4>5. new[u] = f[Pick(u)] + Tab(Rest(u))[Rest(u)]
        BY <3>4, Zenon
      <4> QED
        BY <4>3, <4>4, <4>5, Zenon
    <3> QED
      BY <3>3, <3>4, Zenon
  <2>5. ASSUME NEW t \in SUBSET s PROVE new[t] = SumStep(new, f, t)
    <3>1. CASE t = {}
      BY <3>1, Zenon DEF SumStep
    <3>2. CASE t # {}
      <4>1. new[t] = f[Pick(t)] + Tab(Rest(t))[Rest(t)]
        BY <3>2, Zenon
      <4> HIDE DEF new, Tab
      <4> QED
        BY <3>2, <2>4, <4>1, Zenon DEF SumStep
    <3> QED
      BY <3>1, <3>2, Zenon
  <2>6. SumTable(new, f, s)
    BY <2>5, Zenon DEF SumTable
  <2> QED
    BY <2>2, <2>6, Zenon
<1> QED
  BY <1>1, <1>2, Zenon

\* Sums of functions that agree on the set are equal.
LEMMA SumSame ==
    ASSUME NEW f, NEW g, NEW S, IsFiniteSet(S), \A x \in S : f[x] = g[x]
    PROVE  SumFunctionOnSet(f, S) = SumFunctionOnSet(g, S)
<1>1. ASSUME NEW it, NEW jt, NEW T, T = S, SumTable(it, f, S), SumTable(jt, g, T)
      PROVE  it[S] = jt[S]
  <2>1. \A x \in S \cap T : f[x] = g[x]
    BY Zenon
  <2>2. \A s \in SUBSET (S \cap T) : it[s] = jt[s]
    BY <1>1, <2>1, TablesAgree, SMTT(30)
  <2> QED
    BY <1>1, <2>2, Zenon
<1> DEFINE tf == CHOOSE it : SumTable(it, f, S)
           tg == CHOOSE it : SumTable(it, g, S)
<1>2. SumTable(tf, f, S) /\ SumTable(tg, g, S)
  BY TableExists, Zenon
<1>3. SumFunctionOnSet(f, S) = tf[S] /\ SumFunctionOnSet(g, S) = tg[S]
  BY SumIsTable, Zenon
<1> HIDE DEF tf, tg
<1> QED
  BY <1>1, <1>2, <1>3, Zenon

\* The sum takes the picked element first.
LEMMA SumPick ==
    ASSUME NEW f, NEW S, IsFiniteSet(S)
    PROVE  /\ S = {} => SumFunctionOnSet(f, S) = 0
           /\ S # {} => /\ Pick(S) \in S
                        /\ SumFunctionOnSet(f, S) =
                             f[Pick(S)] + SumFunctionOnSet(f, S \ {Pick(S)})
<1> DEFINE R == S \ {Pick(S)}
           it == CHOOSE it : SumTable(it, f, S)
           jt == CHOOSE jt : SumTable(jt, f, R)
<1>1. IsFiniteSet(R)
  BY FS_RemoveElement, Zenon
<1>2. SumTable(it, f, S) /\ SumTable(jt, f, R)
  BY <1>1, TableExists, Zenon
<1>3. SumFunctionOnSet(f, S) = it[S] /\ SumFunctionOnSet(f, R) = jt[R]
  BY SumIsTable, Zenon
<1> HIDE DEF it, jt
<1>4. R \in SUBSET (S \cap R)
  BY Zenon
<1> HIDE DEF R
<1>5. it[R] = jt[R]
  BY <1>2, <1>4, TablesAgree
<1>6. it[S] = SumStep(it, f, S)
  BY <1>2, Zenon DEF SumTable
<1> USE DEF R
<1> QED
  BY <1>3, <1>5, <1>6, Zenon DEF SumStep, Pick

\* The sum of integers is an integer, that of naturals a natural.
LEMMA SumType ==
    ASSUME NEW f, NEW S, IsFiniteSet(S)
    PROVE  /\ (\A x \in S : f[x] \in Int) => SumFunctionOnSet(f, S) \in Int
           /\ (\A x \in S : f[x] \in Nat) => SumFunctionOnSet(f, S) \in Nat
<1>1. ASSUME NEW D \in SUBSET Int, 0 \in D, \A x, y \in D : x + y \in D, \A x \in S : f[x] \in D
      PROVE  SumFunctionOnSet(f, S) \in D
  <2> DEFINE Bad == {n \in Nat : \E s \in SUBSET S :
                        Cardinality(s) = n /\ SumFunctionOnSet(f, s) \notin D}
  <2>1. \A s \in SUBSET S : IsFiniteSet(s) /\ Cardinality(s) \in Nat
    BY FS_Subset, FS_CardinalityType, Zenon
  <2>2. ASSUME Bad # {} PROVE FALSE
    <3>1. PICK n \in Bad : \A m \in Bad : ~(m < n)
      BY <2>2, LeastNatural, Zenon
    <3>2. PICK s \in SUBSET S : Cardinality(s) = n /\ SumFunctionOnSet(f, s) \notin D
      BY Zenon
    <3> DEFINE t == s \ {Pick(s)}
    <3>3. s # {} /\ Pick(s) \in s
      BY <1>1, <2>1, <3>2, SumPick, Zenon
    <3>4. Cardinality(t) \in Nat /\ Cardinality(t) < n
      BY <2>1, <3>2, <3>3, FS_RemoveElement
    <3>5. SumFunctionOnSet(f, t) \in D
      BY <3>1, <3>4, Zenon
    <3>6. SumFunctionOnSet(f, s) = f[Pick(s)] + SumFunctionOnSet(f, t)
      BY <2>1, <3>3, SumPick, Zenon
    <3> QED
      BY <1>1, <3>2, <3>3, <3>5, <3>6, Zenon
  <2> QED
    BY <2>1, <2>2, Zenon
<1>2. ASSUME \A x \in S : f[x] \in Int PROVE SumFunctionOnSet(f, S) \in Int
  <2>1. Int \in SUBSET Int /\ 0 \in Int /\ \A x, y \in Int : x + y \in Int
    OBVIOUS
  <2> QED
    BY <1>1, <1>2, <2>1, Zenon
<1>3. ASSUME \A x \in S : f[x] \in Nat PROVE SumFunctionOnSet(f, S) \in Nat
  <2>1. Nat \in SUBSET Int /\ 0 \in Nat /\ \A x, y \in Nat : x + y \in Nat
    OBVIOUS
  <2> QED
    BY <1>1, <1>3, <2>1, Zenon
<1> QED
  BY <1>2, <1>3, Zenon

\* Any element may be taken first.
LEMMA SumRemove ==
    ASSUME NEW f, NEW S, IsFiniteSet(S), \A x \in S : f[x] \in Int, NEW x \in S
    PROVE  SumFunctionOnSet(f, S) = f[x] + SumFunctionOnSet(f, S \ {x})
<1> DEFINE Splits(s, y) == SumFunctionOnSet(f, s) = f[y] + SumFunctionOnSet(f, s \ {y})
           Bad == {n \in Nat : \E s \in SUBSET S : Cardinality(s) = n /\ \E y \in s : ~Splits(s, y)}
<1>1. \A s \in SUBSET S : /\ IsFiniteSet(s) /\ Cardinality(s) \in Nat
                          /\ SumFunctionOnSet(f, s) \in Int
  BY FS_Subset, FS_CardinalityType, SumType, Zenon
<1>2. ASSUME Bad # {} PROVE FALSE
  <2>1. PICK n \in Bad : \A m \in Bad : ~(m < n)
    BY <1>2, LeastNatural, Zenon
  <2>2. PICK s \in SUBSET S : Cardinality(s) = n /\ \E y \in s : ~Splits(s, y)
    BY Zenon
  <2>3. PICK y \in s : ~Splits(s, y)
    BY <2>2, Zenon
  <2> DEFINE p == Pick(s)
  <2>4. p \in s /\ Splits(s, p)
    BY <1>1, SumPick, Zenon
  <2> HIDE DEF p
  <2>5. p # y
    BY <2>3, <2>4, Zenon
  <2>6. /\ Cardinality(s \ {p}) \in Nat /\ Cardinality(s \ {p}) < n
        /\ Cardinality(s \ {y}) \in Nat /\ Cardinality(s \ {y}) < n
    BY <1>1, <2>2, <2>4, FS_RemoveElement
  <2> HIDE DEF Splits
  <2>7. Splits(s \ {p}, y) /\ Splits(s \ {y}, p)
    BY <2>1, <2>4, <2>5, <2>6, Zenon
  <2>8. (s \ {p}) \ {y} = (s \ {y}) \ {p}
    BY Zenon
  <2>9. /\ SumFunctionOnSet(f, s \ {p}) \in Int /\ SumFunctionOnSet(f, s \ {y}) \in Int
        /\ SumFunctionOnSet(f, (s \ {y}) \ {p}) \in Int
        /\ f[p] \in Int /\ f[y] \in Int
    BY <1>1, <2>4, Zenon
  <2> DEFINE rest == SumFunctionOnSet(f, (s \ {y}) \ {p})
  <2>10. SumFunctionOnSet(f, s) = f[p] + SumFunctionOnSet(f, s \ {p})
    BY <2>4, Zenon DEF Splits
  <2>11. /\ SumFunctionOnSet(f, s \ {p}) = f[y] + rest
         /\ SumFunctionOnSet(f, s \ {y}) = f[p] + rest
    BY <2>7, <2>8, Zenon DEF Splits
  <2>12. SumFunctionOnSet(f, s) # f[y] + SumFunctionOnSet(f, s \ {y})
    BY <2>3, Zenon DEF Splits
  <2> HIDE DEF rest
  <2>13. rest \in Int
    BY <2>9, Zenon DEF rest
  <2> QED
    BY <2>9, <2>10, <2>11, <2>12, <2>13
<1>3. Cardinality(S) \notin Bad
  BY <1>2, Zenon
<1> QED
  BY <1>1, <1>3, Zenon

\* Changing the function at one element changes the sum by as much.
LEMMA SumUpdate ==
    ASSUME NEW f, NEW g, NEW S, IsFiniteSet(S), NEW x \in S,
           \A y \in S : f[y] \in Int /\ g[y] \in Int, \A y \in S \ {x} : g[y] = f[y]
    PROVE  /\ SumFunctionOnSet(f, S) \in Int /\ SumFunctionOnSet(g, S) \in Int
           /\ SumFunctionOnSet(g, S) = (SumFunctionOnSet(f, S) - f[x]) + g[x]
<1>1. IsFiniteSet(S \ {x})
  BY FS_RemoveElement, Zenon
<1>2. SumFunctionOnSet(g, S \ {x}) = SumFunctionOnSet(f, S \ {x})
  BY <1>1, SumSame, Zenon
<1>3. /\ SumFunctionOnSet(f, S) = f[x] + SumFunctionOnSet(f, S \ {x})
      /\ SumFunctionOnSet(g, S) = g[x] + SumFunctionOnSet(g, S \ {x})
  BY SumRemove
<1>4. SumFunctionOnSet(f, S \ {x}) \in Int
  BY <1>1, SumType, Zenon
<1> QED
  BY <1>2, <1>3, <1>4

\* The same at two elements.
LEMMA SumUpdateTwo ==
    ASSUME NEW f, NEW g, NEW S, IsFiniteSet(S), NEW x \in S, NEW z \in S, x # z,
           \A y \in S : f[y] \in Int /\ g[y] \in Int, \A y \in S \ {x, z} : g[y] = f[y]
    PROVE  /\ SumFunctionOnSet(f, S) \in Int /\ SumFunctionOnSet(g, S) \in Int
           /\ SumFunctionOnSet(g, S) =
                ((SumFunctionOnSet(f, S) - f[x]) - f[z]) + (g[x] + g[z])
<1> DEFINE h == [y \in S |-> IF y = x THEN g[y] ELSE f[y]]
<1>1. /\ \A y \in S : h[y] \in Int
      /\ \A y \in S \ {x} : h[y] = f[y]
      /\ \A y \in S \ {z} : g[y] = h[y]
      /\ h[x] = g[x] /\ h[z] = f[z]
  BY Zenon
<1> HIDE DEF h
<1>2. /\ SumFunctionOnSet(f, S) \in Int /\ SumFunctionOnSet(h, S) \in Int
      /\ SumFunctionOnSet(h, S) = (SumFunctionOnSet(f, S) - f[x]) + h[x]
  BY <1>1, SumUpdate
<1>3. /\ SumFunctionOnSet(g, S) \in Int
      /\ SumFunctionOnSet(g, S) = (SumFunctionOnSet(h, S) - h[z]) + g[z]
  BY <1>1, SumUpdate
<1> QED
  BY <1>1, <1>2, <1>3

\* No summand is above the sum of naturals.
LEMMA SumCovers ==
    ASSUME NEW f, NEW S, IsFiniteSet(S), \A y \in S : f[y] \in Nat, NEW x \in S
    PROVE  f[x] <= SumFunctionOnSet(f, S)
<1>1. SumFunctionOnSet(f, S) = f[x] + SumFunctionOnSet(f, S \ {x})
  BY SumRemove
<1>2. SumFunctionOnSet(f, S \ {x}) \in Nat
  BY FS_RemoveElement, SumType, Zenon
<1> QED
  BY <1>1, <1>2

\* Elements at which the function is zero do not count.
LEMMA SumZero ==
    ASSUME NEW f, NEW S, IsFiniteSet(S), NEW T \in SUBSET S,
           \A x \in S : f[x] \in Int, \A x \in S \ T : f[x] = 0
    PROVE  SumFunctionOnSet(f, S) = SumFunctionOnSet(f, T)
<1> DEFINE Bad == {n \in Nat : \E s \in SUBSET S :
                      /\ T \subseteq s /\ Cardinality(s) = n
                      /\ SumFunctionOnSet(f, s) # SumFunctionOnSet(f, T)}
<1>1. \A s \in SUBSET S : /\ IsFiniteSet(s) /\ Cardinality(s) \in Nat
                          /\ SumFunctionOnSet(f, s) \in Int
  BY FS_Subset, FS_CardinalityType, SumType, Zenon
<1>2. ASSUME Bad # {} PROVE FALSE
  <2>1. PICK n \in Bad : \A m \in Bad : ~(m < n)
    BY <1>2, LeastNatural, Zenon
  <2>2. PICK s \in SUBSET S : /\ T \subseteq s /\ Cardinality(s) = n
                             /\ SumFunctionOnSet(f, s) # SumFunctionOnSet(f, T)
    BY Zenon
  <2>3. PICK y \in s : y \notin T
    BY <2>2
  <2>4. Cardinality(s \ {y}) \in Nat /\ Cardinality(s \ {y}) < n
    BY <1>1, <2>2, FS_RemoveElement
  <2>5. SumFunctionOnSet(f, s \ {y}) = SumFunctionOnSet(f, T)
    BY <2>1, <2>2, <2>3, <2>4, Zenon
  <2>6. SumFunctionOnSet(f, s) = f[y] + SumFunctionOnSet(f, s \ {y})
    BY <1>1, SumRemove
  <2> QED
    BY <1>1, <2>2, <2>3, <2>5, <2>6
<1> QED
  BY <1>1, <1>2, Zenon

Roots == [Account -> Optional(AccountRoot)]
Lines == [Account -> Optional(RippleState)]

\* The entries en, and the parts of the invariant as predicates on roots r,
\* directories d, entries en and lines l, so that a transaction can be taken as
\* several changes one after the other.
EntriesOK(en) ==
    /\ en \in [Key -> Optional(Entry)]
    /\ \A k \in Key : en[k] # Absent /\ en[k].kind = "paychan" => en[k].paid <= en[k].amount

DirsOK(d, en) ==
    /\ d \in [Account -> SUBSET Key]
    /\ \A a \in Account : d[a] = {k \in Key : en[k] # Absent /\ a \in Parties(en[k])}

PartiesOK(r, en, l) ==
    /\ \A k \in Key : en[k] # Absent =>
          /\ \A a \in Parties(en[k]) : r[a] # Absent
          /\ en[k].kind = "uritoken" => r[en[k].issuer] # Absent /\ r[en[k].issuer].minter
    /\ \A a \in Account : l[a] # Absent => r[a] # Absent /\ r[Issuer] # Absent
    /\ l[Issuer] = Absent

OwnedBy(en, a) == {k \in Key : en[k] # Absent /\ en[k].owner = a}
TicketsOf(en, a) == {k \in OwnedBy(en, a) : en[k].kind = "ticket"}
LinesOf(l, a) == {p \in Account : l[p] # Absent /\ IF a = Issuer THEN l[p].frozen
                                                  ELSE p = a /\ l[p].reserve}
OwnersOK(r, en, l) ==
    \A a \in Account : r[a] # Absent =>
        /\ r[a].owners = Cardinality(OwnedBy(en, a)) + Cardinality(LinesOf(l, a))
        /\ r[a].tickets = Cardinality(TicketsOf(en, a))

InsideAt(en, k) == IF en[k] # Absent THEN Inside(en[k]) ELSE 0
DropsIn(r) == SumFunctionOnSet([a \in Account |-> IF r[a] # Absent THEN r[a].bal ELSE 0], Account)
DropsInside(en) == SumFunctionOnSet([k \in Key |-> InsideAt(en, k)], Key)

InsideFor(en, a) == [k \in Key |-> IF k \in OwnedBy(en, a) THEN Inside(en[k]) ELSE 0]
LockedFor(en, a) == SumFunctionOnSet(InsideFor(en, a), Key)
Busy(en, a) == {k \in OwnedBy(en, a) : Inside(en[k]) > 0}
LocksOK(l, en) ==
    \A a \in Account \ {Issuer} :
        /\ LockedFor(en, a) = IF l[a] = Absent THEN 0 ELSE l[a].locked
        /\ l[a] # Absent => /\ l[a].locked <= l[a].bal
                            /\ Cardinality(Busy(en, a)) <= l[a].count

\* What belongs together does; what is held is all there.
Linked(r, d, en, l) ==
    /\ r \in Roots /\ l \in Lines /\ EntriesOK(en) /\ DirsOK(d, en)
    /\ PartiesOK(r, en, l) /\ OwnersOK(r, en, l)
Funded(r, en, l) ==
    /\ native => /\ DropsIn(r) + DropsInside(en) = SumFunction(mode.drops)
                 /\ \A a \in Account : l[a] = Absent
    /\ ~native => LocksOK(l, en)
Sound(r, d, en, l) == Linked(r, d, en, l) /\ Funded(r, en, l)

\* The inductive invariant.
HInv ==
    /\ mode \in Mode
    /\ now \in 0 .. mode.end
    /\ Sound(root, dir, entry, line)

-----------------------------------------------------------------------------
(* Cardinalities.                                                          *)

\* Sets that differ in one element at most.
LEMMA CardAt ==
    ASSUME NEW A, NEW B, NEW p, IsFiniteSet(A), A \ {p} = B \ {p}
    PROVE  /\ IsFiniteSet(B) /\ Cardinality(A) \in Nat /\ Cardinality(B) \in Nat
           /\ p \in A => Cardinality(A) > 0
           /\ Cardinality(B) = (Cardinality(A) - (IF p \in A THEN 1 ELSE 0))
                               + (IF p \in B THEN 1 ELSE 0)
<1>1. /\ IsFiniteSet(A \ {p}) /\ Cardinality(A \ {p}) \in Nat
      /\ Cardinality(A \ {p}) = IF p \in A THEN Cardinality(A) - 1 ELSE Cardinality(A)
  BY FS_RemoveElement, FS_CardinalityType, Zenon
<1>2. /\ IsFiniteSet((B \ {p}) \cup {p})
      /\ Cardinality((B \ {p}) \cup {p}) = Cardinality(B \ {p}) + 1
  BY <1>1, FS_AddElement, Zenon
<1>3. p \in B => (B \ {p}) \cup {p} = B
  BY Zenon
<1>4. p \notin B => B = A \ {p}
  BY Zenon
<1>5. Cardinality(A) \in Nat
  BY FS_CardinalityType, Zenon
<1>6. CASE p \in B
  BY <1>1, <1>2, <1>3, <1>5, <1>6
<1>7. CASE p \notin B
  <2>1. IsFiniteSet(B) /\ Cardinality(B) = Cardinality(A \ {p})
    BY <1>1, <1>4, <1>7, Zenon
  <2> QED
    BY <1>1, <1>5, <1>7, <2>1
<1> QED
  BY <1>6, <1>7, Zenon

\* Every set that is counted is finite.
LEMMA CountsFinite ==
    ASSUME NEW en, NEW l, NEW a
    PROVE  /\ IsFiniteSet(OwnedBy(en, a)) /\ Cardinality(OwnedBy(en, a)) \in Nat
           /\ IsFiniteSet(TicketsOf(en, a)) /\ Cardinality(TicketsOf(en, a)) \in Nat
           /\ IsFiniteSet(LinesOf(l, a)) /\ Cardinality(LinesOf(l, a)) \in Nat
           /\ IsFiniteSet(Busy(en, a)) /\ Cardinality(Busy(en, a)) \in Nat
<1>1. /\ OwnedBy(en, a) \in SUBSET Key /\ TicketsOf(en, a) \in SUBSET Key
      /\ LinesOf(l, a) \in SUBSET Account /\ Busy(en, a) \in SUBSET Key
  BY Zenon DEF OwnedBy, TicketsOf, LinesOf, Busy
<1>2. IsFiniteSet(Key) /\ IsFiniteSet(Account)
  BY ModeAssumption, Zenon
<1> HIDE DEF OwnedBy, TicketsOf, LinesOf, Busy
<1> QED
  BY <1>1, <1>2, FS_Subset, FS_CardinalityType, Zenon

-----------------------------------------------------------------------------
(* Roots.                                                                  *)

\* A balance changes and nothing else does.
LEMMA AddBalanceRoots ==
    ASSUME NEW r \in Roots, NEW a \in Account, r[a] # Absent, NEW n \in Int, r[a].bal + n >= 0
    PROVE  /\ AddBalance(r, a, n) \in Roots
           /\ \A b \in Account : b # a => AddBalance(r, a, n)[b] = r[b]
           /\ AddBalance(r, a, n)[a] # Absent
           /\ AddBalance(r, a, n)[a].bal = r[a].bal + n
           /\ AddBalance(r, a, n)[a].owners = r[a].owners
           /\ AddBalance(r, a, n)[a].tickets = r[a].tickets
           /\ AddBalance(r, a, n)[a].minter = r[a].minter
<1>1. r[a] \in AccountRoot
  BY Zenon DEF Roots, Optional
<1>2. [r[a] EXCEPT !.bal = @ + n] \in AccountRoot
  BY <1>1 DEF AccountRoot
<1>3. AddBalance(r, a, n) = [r EXCEPT ![a] = [r[a] EXCEPT !.bal = @ + n]]
  BY Zenon DEF AddBalance, Roots
<1>4. Absent \notin AccountRoot
  BY AbsentAssumption, Zenon
<1> QED
  BY <1>1, <1>2, <1>3, <1>4, Zenon DEF Roots, Optional, AccountRoot

\* An owner count changes and nothing else does (adjustOwnerCount).
LEMMA AdjustOwnerCountRoots ==
    ASSUME NEW r \in Roots, NEW a \in Account, r[a] # Absent, NEW n \in Int
    PROVE  /\ AdjustOwnerCount(r, a, n) \in Roots
           /\ \A b \in Account : b # a => AdjustOwnerCount(r, a, n)[b] = r[b]
           /\ AdjustOwnerCount(r, a, n)[a] # Absent
           /\ AdjustOwnerCount(r, a, n)[a].bal = r[a].bal
           /\ AdjustOwnerCount(r, a, n)[a].owners = Confined(r[a].owners + n)
           /\ AdjustOwnerCount(r, a, n)[a].tickets = r[a].tickets
           /\ AdjustOwnerCount(r, a, n)[a].minter = r[a].minter
<1>1. r[a] \in AccountRoot
  BY Zenon DEF Roots, Optional
<1>2. Confined(r[a].owners + n) \in Nat
  BY <1>1 DEF AccountRoot, Confined
<1> DEFINE new == [r[a] EXCEPT !.owners = Confined(@ + n)]
<1>3. new \in AccountRoot
  BY <1>1, <1>2, Zenon DEF AccountRoot
<1>4. AdjustOwnerCount(r, a, n) = [r EXCEPT ![a] = new]
  BY Zenon DEF AdjustOwnerCount, Roots
<1>5. Absent \notin AccountRoot
  BY AbsentAssumption, Zenon
<1> QED
  BY <1>1, <1>3, <1>4, <1>5, Zenon DEF Roots, Optional, AccountRoot

\* Roots that count the same entries and tickets for the same accounts.
LEMMA OwnersRoots ==
    ASSUME NEW r, NEW s, NEW en, NEW l, OwnersOK(r, en, l),
           \A a \in Account : s[a] # Absent =>
               r[a] # Absent /\ s[a].owners = r[a].owners /\ s[a].tickets = r[a].tickets
    PROVE  OwnersOK(s, en, l)
  BY Zenon DEF OwnersOK

\* Roots that keep all accounts and their lsfURITokenIssuer.
LEMMA PartiesRoots ==
    ASSUME NEW r, NEW s, NEW en, NEW l, PartiesOK(r, en, l), EntriesOK(en),
           \A a \in Account : r[a] # Absent => s[a] # Absent /\ (r[a].minter => s[a].minter)
    PROVE  PartiesOK(s, en, l)
<1>1. \A k \in Key : en[k] # Absent => Parties(en[k]) \subseteq Account
  BY Zenon DEF EntriesOK, Optional, Entry, Parties, EscrowEntry, PayChanEntry, CheckEntry,
         TicketEntry, URITokenEntry
<1>2. \A k \in Key : en[k] # Absent /\ en[k].kind = "uritoken" => en[k].issuer \in Account
  BY Zenon DEF EntriesOK, Optional, Entry, EscrowEntry, PayChanEntry, CheckEntry,
         TicketEntry, URITokenEntry
<1>3. Issuer \in Account
  BY LedgerAssumption, Zenon
<1> HIDE DEF Parties
<1> QED
  BY <1>1, <1>2, <1>3, Zenon DEF PartiesOK

\* Drops move only with a balance.
LEMMA DropsSame ==
    ASSUME NEW r, NEW s,
           \A a \in Account : /\ r[a] # Absent <=> s[a] # Absent
                              /\ r[a] # Absent => s[a].bal = r[a].bal
    PROVE  DropsIn(s) = DropsIn(r)
<1> DEFINE F(q) == [a \in Account |-> IF q[a] # Absent THEN q[a].bal ELSE 0]
<1>1. \A a \in Account : F(s)[a] = F(r)[a]
  BY Zenon
<1>2. IsFiniteSet(Account)
  BY ModeAssumption, Zenon
<1>3. DropsIn(r) = SumFunctionOnSet(F(r), Account) /\ DropsIn(s) = SumFunctionOnSet(F(s), Account)
  BY Zenon DEF DropsIn
<1> HIDE DEF F
<1> QED
  BY <1>1, <1>2, <1>3, SumSame, Zenon

\* One balance changes by n, and so does the sum of all.
LEMMA DropsAdd ==
    ASSUME NEW r \in Roots, NEW s \in Roots, NEW a \in Account, NEW n \in Int,
           r[a] # Absent, s[a] # Absent, s[a].bal = r[a].bal + n,
           \A b \in Account \ {a} : /\ r[b] # Absent <=> s[b] # Absent
                                    /\ r[b] # Absent => s[b].bal = r[b].bal
    PROVE  DropsIn(r) \in Int /\ DropsIn(s) = DropsIn(r) + n
<1> DEFINE F(q) == [b \in Account |-> IF q[b] # Absent THEN q[b].bal ELSE 0]
<1>1. \A b \in Account : F(r)[b] \in Int /\ F(s)[b] \in Int
  BY DEF Roots, Optional, AccountRoot
<1>2. \A b \in Account \ {a} : F(s)[b] = F(r)[b]
  BY Zenon
<1>3. F(s)[a] = F(r)[a] + n
  BY Zenon
<1>4. IsFiniteSet(Account)
  BY ModeAssumption, Zenon
<1>5. DropsIn(r) = SumFunctionOnSet(F(r), Account) /\ DropsIn(s) = SumFunctionOnSet(F(s), Account)
  BY Zenon DEF DropsIn
<1> HIDE DEF F
<1>6. /\ SumFunctionOnSet(F(r), Account) \in Int
      /\ SumFunctionOnSet(F(s), Account) = (SumFunctionOnSet(F(r), Account) - F(r)[a]) + F(s)[a]
  BY <1>1, <1>2, <1>4, SumUpdate
<1> QED
  BY <1>1, <1>3, <1>5, <1>6

-----------------------------------------------------------------------------
(* Entries.                                                                *)

\* The format of an entry follows from its kind.
LEMMA ByKind ==
    ASSUME NEW e \in Entry
    PROVE  /\ e.kind = "escrow" => e \in EscrowEntry
           /\ e.kind = "paychan" => e \in PayChanEntry
           /\ e.kind = "check" => e \in CheckEntry
           /\ e.kind = "ticket" => e \in TicketEntry
           /\ e.kind = "uritoken" => e \in URITokenEntry
           /\ e.kind \in {"escrow", "paychan", "check", "ticket", "uritoken"}
           /\ e.owner \in Account
           /\ Parties(e) \in SUBSET Account
           /\ e # Absent
<1>1. e # Absent
  BY AbsentAssumption, Zenon
<1>2. CASE e \in EscrowEntry
  BY <1>1, <1>2, Zenon DEF EscrowEntry, Parties
<1>3. CASE e \in PayChanEntry
  BY <1>1, <1>3, Zenon DEF PayChanEntry, Parties
<1>4. CASE e \in CheckEntry
  BY <1>1, <1>4, Zenon DEF CheckEntry, Parties
<1>5. CASE e \in TicketEntry
  BY <1>1, <1>5, Zenon DEF TicketEntry, Parties
<1>6. CASE e \in URITokenEntry
  BY <1>1, <1>6, Zenon DEF URITokenEntry, Parties
<1> QED
  BY <1>2, <1>3, <1>4, <1>5, <1>6, Zenon DEF Entry

\* An entry holds a natural number of drops or tokens.
LEMMA InsideType ==
    ASSUME NEW en, EntriesOK(en), NEW k \in Key
    PROVE  /\ InsideAt(en, k) \in Nat
           /\ en[k] # Absent => en[k] \in Entry /\ Inside(en[k]) \in Nat
<1>1. CASE en[k] = Absent
  BY <1>1, Zenon DEF InsideAt
<1>2. CASE en[k] # Absent
  <2>1. en[k] \in Entry
    BY <1>2, Zenon DEF EntriesOK, Optional
  <2>2. Inside(en[k]) \in Nat
    <3>1. CASE en[k].kind = "escrow"
      BY <2>1, <3>1, ByKind, Zenon DEF Inside, EscrowEntry
    <3>2. CASE en[k].kind = "paychan"
      BY <1>2, <2>1, <3>2, ByKind DEF Inside, Remaining, PayChanEntry, EntriesOK
    <3>3. CASE en[k].kind \notin {"escrow", "paychan"}
      BY <3>3, Zenon DEF Inside
    <3> QED
      BY <3>1, <3>2, <3>3, Zenon
  <2> QED
    BY <1>2, <2>1, <2>2, Zenon DEF InsideAt
<1> QED
  BY <1>1, <1>2, Zenon

\* One entry changes.
LEMMA EntrySet ==
    ASSUME NEW en, EntriesOK(en), NEW k \in Key, NEW x \in Optional(Entry),
           x # Absent /\ x.kind = "paychan" => x.paid <= x.amount
    PROVE  /\ EntriesOK([en EXCEPT ![k] = x])
           /\ [en EXCEPT ![k] = x][k] = x
           /\ \A j \in Key \ {k} : [en EXCEPT ![k] = x][j] = en[j]
  BY Zenon DEF EntriesOK

\* A new entry is listed with all its parties (dirInsert).
LEMMA DirsAdd ==
    ASSUME NEW d, NEW en, DirsOK(d, en), EntriesOK(en), NEW k \in Key, en[k] = Absent,
           NEW e \in Entry
    PROVE  DirsOK(Listed(d, Parties(e), k), [en EXCEPT ![k] = e])
<1>1. e # Absent /\ [en EXCEPT ![k] = e][k] = e /\ \A j \in Key \ {k} : [en EXCEPT ![k] = e][j] = en[j]
  BY ByKind, Zenon DEF EntriesOK
<1> QED
  BY <1>1, Zenon DEF DirsOK, Listed

\* An entry that goes is taken from the directories of all its parties (dirRemove).
LEMMA DirsRemove ==
    ASSUME NEW d, NEW en, DirsOK(d, en), EntriesOK(en), NEW k \in Key, en[k] # Absent
    PROVE  DirsOK(Unlisted(d, Parties(en[k]), k), [en EXCEPT ![k] = Absent])
<1>1. [en EXCEPT ![k] = Absent][k] = Absent /\ \A j \in Key \ {k} : [en EXCEPT ![k] = Absent][j] = en[j]
  BY Zenon DEF EntriesOK
<1> QED
  BY <1>1, Zenon DEF DirsOK, Unlisted

\* An entry that keeps its parties stays where it is listed.
LEMMA DirsReplace ==
    ASSUME NEW d, NEW en, DirsOK(d, en), EntriesOK(en), NEW k \in Key, en[k] # Absent,
           NEW e \in Entry, Parties(e) = Parties(en[k])
    PROVE  DirsOK(d, [en EXCEPT ![k] = e])
<1>1. e # Absent /\ [en EXCEPT ![k] = e][k] = e /\ \A j \in Key \ {k} : [en EXCEPT ![k] = e][j] = en[j]
  BY ByKind, Zenon DEF EntriesOK
<1> QED
  BY <1>1 DEF DirsOK

\* An entry may come once its parties exist, or change among such entries, or go.
LEMMA PartiesSet ==
    ASSUME NEW r, NEW en, NEW l, PartiesOK(r, en, l), EntriesOK(en), NEW k \in Key,
           NEW x \in Optional(Entry),
           x # Absent => /\ \A a \in Parties(x) : r[a] # Absent
                         /\ x.kind = "uritoken" => r[x.issuer] # Absent /\ r[x.issuer].minter
    PROVE  PartiesOK(r, [en EXCEPT ![k] = x], l)
<1>1. [en EXCEPT ![k] = x][k] = x /\ \A j \in Key \ {k} : [en EXCEPT ![k] = x][j] = en[j]
  BY Zenon DEF EntriesOK
<1> HIDE DEF Parties
<1> QED
  BY <1>1 DEF PartiesOK

\* The owner of a new entry counts one more.
LEMMA OwnersAdd ==
    ASSUME NEW r \in Roots, NEW en, NEW l, OwnersOK(r, en, l), EntriesOK(en), NEW k \in Key,
           en[k] = Absent, NEW e \in Entry, e.kind # "ticket", r[e.owner] # Absent
    PROVE  OwnersOK(AdjustOwnerCount(r, e.owner, 1), [en EXCEPT ![k] = e], l)
<1> DEFINE ne == [en EXCEPT ![k] = e]
           s == AdjustOwnerCount(r, e.owner, 1)
<1>1. e # Absent /\ e.owner \in Account /\ ne[k] = e /\ \A j \in Key \ {k} : ne[j] = en[j]
  BY ByKind, Zenon DEF EntriesOK
<1>2. /\ \A b \in Account : b # e.owner => s[b] = r[b]
      /\ s[e.owner].owners = Confined(r[e.owner].owners + 1)
      /\ s[e.owner].tickets = r[e.owner].tickets
  BY <1>1, AdjustOwnerCountRoots
<1> HIDE DEF ne, s
<1>3. ASSUME NEW a \in Account, s[a] # Absent
      PROVE  /\ s[a].owners = Cardinality(OwnedBy(ne, a)) + Cardinality(LinesOf(l, a))
             /\ s[a].tickets = Cardinality(TicketsOf(ne, a))
  <2>1. r[a] # Absent
    BY <1>2, <1>3, Zenon
  <2>2. /\ r[a].owners = Cardinality(OwnedBy(en, a)) + Cardinality(LinesOf(l, a))
        /\ r[a].tickets = Cardinality(TicketsOf(en, a))
    BY <2>1, Zenon DEF OwnersOK
  <2>3. TicketsOf(ne, a) = TicketsOf(en, a)
    BY <1>1 DEF TicketsOf, OwnedBy
  <2>4. Cardinality(OwnedBy(en, a)) \in Nat /\ Cardinality(LinesOf(l, a)) \in Nat
    BY CountsFinite, Zenon
  <2>5. CASE a # e.owner
    <3>1. OwnedBy(ne, a) = OwnedBy(en, a)
      BY <1>1, <2>5 DEF OwnedBy
    <3> QED
      BY <1>2, <2>2, <2>3, <2>5, <3>1, Zenon
  <2>6. CASE a = e.owner
    <3>1. OwnedBy(ne, a) = OwnedBy(en, a) \cup {k} /\ k \notin OwnedBy(en, a)
      BY <1>1, <2>6 DEF OwnedBy
    <3>2. Cardinality(OwnedBy(ne, a)) = Cardinality(OwnedBy(en, a)) + 1
      BY <3>1, CountsFinite, FS_AddElement, Zenon
    <3>3. Confined(r[a].owners + 1) = r[a].owners + 1
      BY <2>2, <2>4 DEF Confined
    <3> QED
      BY <1>2, <2>2, <2>3, <2>4, <2>6, <3>2, <3>3, SMTT(30)
  <2> QED
    BY <2>5, <2>6, Zenon
<1> QED
  BY <1>3, Zenon DEF OwnersOK, ne, s

\* The owner of an entry that goes counts one less.
LEMMA OwnersRemove ==
    ASSUME NEW r \in Roots, NEW en, NEW l, OwnersOK(r, en, l), EntriesOK(en), NEW k \in Key,
           en[k] # Absent, en[k].kind # "ticket", r[en[k].owner] # Absent
    PROVE  OwnersOK(AdjustOwnerCount(r, en[k].owner, -1), [en EXCEPT ![k] = Absent], l)
<1> DEFINE o == en[k].owner
           ne == [en EXCEPT ![k] = Absent]
           s == AdjustOwnerCount(r, o, -1)
<1>1. o \in Account /\ ne[k] = Absent /\ \A j \in Key \ {k} : ne[j] = en[j]
  BY ByKind, Zenon DEF EntriesOK, Optional
<1>2. /\ \A b \in Account : b # o => s[b] = r[b]
      /\ s[o].owners = Confined(r[o].owners + (-1))
      /\ s[o].tickets = r[o].tickets
  BY <1>1, AdjustOwnerCountRoots
<1> HIDE DEF ne, s
<1>3. ASSUME NEW a \in Account, s[a] # Absent
      PROVE  /\ s[a].owners = Cardinality(OwnedBy(ne, a)) + Cardinality(LinesOf(l, a))
             /\ s[a].tickets = Cardinality(TicketsOf(ne, a))
  <2>1. r[a] # Absent
    BY <1>2, <1>3, Zenon
  <2>2. /\ r[a].owners = Cardinality(OwnedBy(en, a)) + Cardinality(LinesOf(l, a))
        /\ r[a].tickets = Cardinality(TicketsOf(en, a))
    BY <2>1, Zenon DEF OwnersOK
  <2>3. TicketsOf(ne, a) = TicketsOf(en, a)
    BY <1>1 DEF TicketsOf, OwnedBy
  <2>4. Cardinality(OwnedBy(ne, a)) \in Nat /\ Cardinality(LinesOf(l, a)) \in Nat
    BY CountsFinite, Zenon
  <2>5. CASE a # o
    <3>1. OwnedBy(ne, a) = OwnedBy(en, a)
      BY <1>1, <2>5 DEF OwnedBy
    <3> QED
      BY <1>2, <2>2, <2>3, <2>5, <3>1, Zenon
  <2>6. CASE a = o
    <3>1. OwnedBy(en, a) = OwnedBy(ne, a) \cup {k} /\ k \notin OwnedBy(ne, a)
      BY <1>1, <2>6 DEF OwnedBy
    <3>2. Cardinality(OwnedBy(en, a)) = Cardinality(OwnedBy(ne, a)) + 1
      BY <3>1, CountsFinite, FS_AddElement, Zenon
    <3>3. Confined(r[a].owners + (-1)) = r[a].owners - 1
      BY <2>2, <2>4, <3>2 DEF Confined
    <3> QED
      BY <1>2, <2>2, <2>3, <2>4, <2>6, <3>2, <3>3
  <2> QED
    BY <2>5, <2>6, Zenon
<1> QED
  BY <1>3, Zenon DEF OwnersOK, ne, s

\* An entry that keeps its owner and its kind is counted as before.
LEMMA OwnersReplace ==
    ASSUME NEW r, NEW en, NEW l, OwnersOK(r, en, l), EntriesOK(en), NEW k \in Key,
           en[k] # Absent, NEW e \in Entry, e.owner = en[k].owner, e.kind = en[k].kind
    PROVE  OwnersOK(r, [en EXCEPT ![k] = e], l)
<1> DEFINE ne == [en EXCEPT ![k] = e]
<1>1. e # Absent /\ ne[k] = e /\ \A j \in Key \ {k} : ne[j] = en[j]
  BY ByKind, Zenon DEF EntriesOK
<1> HIDE DEF ne
<1>2. \A a \in Account : OwnedBy(ne, a) = OwnedBy(en, a) /\ TicketsOf(ne, a) = TicketsOf(en, a)
  BY <1>1, Zenon DEF OwnedBy, TicketsOf
<1>3. OwnersOK(r, ne, l)
  BY <1>2, Zenon DEF OwnersOK
<1> QED
  BY <1>3, Zenon DEF ne

\* What all entries hold changes by what the one that changes held and holds.
LEMMA InsideSet ==
    ASSUME NEW en, NEW ne, EntriesOK(en), EntriesOK(ne), NEW k \in Key,
           \A j \in Key \ {k} : ne[j] = en[j]
    PROVE  /\ DropsInside(en) \in Int
           /\ DropsInside(ne) = (DropsInside(en) - InsideAt(en, k)) + InsideAt(ne, k)
<1> DEFINE F(q) == [j \in Key |-> InsideAt(q, j)]
<1>1. \A j \in Key : F(en)[j] \in Int /\ F(ne)[j] \in Int
  BY InsideType
<1>2. \A j \in Key \ {k} : F(ne)[j] = F(en)[j]
  BY Zenon DEF InsideAt
<1>3. F(en)[k] = InsideAt(en, k) /\ F(ne)[k] = InsideAt(ne, k)
  BY Zenon
<1>4. DropsInside(en) = SumFunctionOnSet(F(en), Key) /\ DropsInside(ne) = SumFunctionOnSet(F(ne), Key)
  BY Zenon DEF DropsInside
<1>5. IsFiniteSet(Key)
  BY ModeAssumption, Zenon
<1> HIDE DEF F
<1>6. /\ SumFunctionOnSet(F(en), Key) \in Int
      /\ SumFunctionOnSet(F(ne), Key) = (SumFunctionOnSet(F(en), Key) - F(en)[k]) + F(ne)[k]
  BY <1>1, <1>2, <1>5, SumUpdate
<1> QED
  BY <1>3, <1>4, <1>6, Zenon

\* Entries that hold the same.
LEMMA InsideSame ==
    ASSUME NEW en, NEW ne, \A j \in Key : InsideAt(ne, j) = InsideAt(en, j)
    PROVE  DropsInside(ne) = DropsInside(en)
<1> DEFINE F(q) == [j \in Key |-> InsideAt(q, j)]
<1>1. \A j \in Key : F(ne)[j] = F(en)[j]
  BY Zenon
<1>2. DropsInside(en) = SumFunctionOnSet(F(en), Key) /\ DropsInside(ne) = SumFunctionOnSet(F(ne), Key)
  BY Zenon DEF DropsInside
<1>3. IsFiniteSet(Key)
  BY ModeAssumption, Zenon
<1> HIDE DEF F
<1> QED
  BY <1>1, <1>2, <1>3, SumSame, Zenon

-----------------------------------------------------------------------------
(* Lines.                                                                  *)

HoldsReserve(x) == x # Absent /\ x.reserve
IsFrozen(x) == x # Absent /\ x.frozen

\* One line changes, and the owner counts of its two sides with it.
LEMMA OwnersLine ==
    ASSUME NEW r \in Roots, NEW s \in Roots, NEW en, NEW l \in Lines, NEW m \in Lines,
           OwnersOK(r, en, l), NEW a \in Account, a # Issuer,
           \A b \in Account \ {a} : m[b] = l[b],
           \A b \in Account : s[b] # Absent => r[b] # Absent /\ s[b].tickets = r[b].tickets,
           \A b \in Account \ {a, Issuer} : s[b] # Absent => s[b].owners = r[b].owners,
           s[a] # Absent =>
               s[a].owners = Confined(r[a].owners
                                + (Count(HoldsReserve(m[a])) - Count(HoldsReserve(l[a])))),
           s[Issuer] # Absent =>
               s[Issuer].owners = Confined(r[Issuer].owners
                                + (Count(IsFrozen(m[a])) - Count(IsFrozen(l[a]))))
    PROVE  OwnersOK(s, en, m)
<1>1. ASSUME NEW b \in Account, s[b] # Absent
      PROVE  /\ s[b].owners = Cardinality(OwnedBy(en, b)) + Cardinality(LinesOf(m, b))
             /\ s[b].tickets = Cardinality(TicketsOf(en, b))
  <2>1. r[b] # Absent /\ s[b].tickets = r[b].tickets
    BY <1>1, Zenon
  <2>2. /\ r[b].owners = Cardinality(OwnedBy(en, b)) + Cardinality(LinesOf(l, b))
        /\ r[b].tickets = Cardinality(TicketsOf(en, b))
    BY <2>1, Zenon DEF OwnersOK
  <2>3. Cardinality(OwnedBy(en, b)) \in Nat
    BY CountsFinite, Zenon
  <2>4. LinesOf(l, b) \ {a} = LinesOf(m, b) \ {a}
    BY Zenon DEF LinesOf
  <2>5. /\ Cardinality(LinesOf(l, b)) \in Nat /\ Cardinality(LinesOf(m, b)) \in Nat
        /\ a \in LinesOf(l, b) => Cardinality(LinesOf(l, b)) > 0
        /\ Cardinality(LinesOf(m, b)) =
             (Cardinality(LinesOf(l, b)) - (IF a \in LinesOf(l, b) THEN 1 ELSE 0))
             + (IF a \in LinesOf(m, b) THEN 1 ELSE 0)
    <3>1. IsFiniteSet(LinesOf(l, b))
      BY CountsFinite, Zenon
    <3> HIDE DEF LinesOf
    <3> QED
      BY <2>4, <3>1, CardAt
  <2>6. CASE b = Issuer
    <3>1. (a \in LinesOf(l, b) <=> IsFrozen(l[a])) /\ (a \in LinesOf(m, b) <=> IsFrozen(m[a]))
      BY <2>6, Zenon DEF LinesOf, IsFrozen
    <3>2. s[b].owners = Confined(r[b].owners + (Count(IsFrozen(m[a])) - Count(IsFrozen(l[a]))))
      BY <1>1, <2>6, Zenon
    <3> HIDE DEF IsFrozen
    <3> QED
      BY <2>1, <2>2, <2>3, <2>5, <3>1, <3>2 DEF Count, Confined
  <2>7. CASE b = a
    <3>1. (a \in LinesOf(l, b) <=> HoldsReserve(l[a])) /\ (a \in LinesOf(m, b) <=> HoldsReserve(m[a]))
      BY <2>7, Zenon DEF LinesOf, HoldsReserve
    <3>2. s[b].owners = Confined(r[b].owners + (Count(HoldsReserve(m[a])) - Count(HoldsReserve(l[a]))))
      BY <1>1, <2>7, Zenon
    <3> HIDE DEF HoldsReserve
    <3> QED
      BY <2>1, <2>2, <2>3, <2>5, <3>1, <3>2 DEF Count, Confined
  <2>8. CASE b \notin {a, Issuer}
    <3>1. a \notin LinesOf(l, b) /\ a \notin LinesOf(m, b)
      BY <2>8, Zenon DEF LinesOf
    <3>2. s[b].owners = r[b].owners
      BY <1>1, <2>8, Zenon
    <3> QED
      BY <2>1, <2>2, <2>3, <2>5, <3>1, <3>2
  <2> QED
    BY <2>6, <2>7, <2>8, Zenon
<1> QED
  BY <1>1, Zenon DEF OwnersOK

\* A line may come between a holder and an issuer that exist, change, or go.
LEMMA PartiesLine ==
    ASSUME NEW r, NEW en, NEW l, NEW m, PartiesOK(r, en, l), NEW a \in Account, a # Issuer,
           \A b \in Account \ {a} : m[b] = l[b],
           m[a] # Absent => r[a] # Absent /\ r[Issuer] # Absent
    PROVE  PartiesOK(r, en, m)
<1>1. Issuer \in Account
  BY LedgerAssumption, Zenon
<1> HIDE DEF Parties
<1> QED
  BY <1>1, Zenon DEF PartiesOK

\* The line y is x with other locks and another balance.
Relocked(x, y, bal, lock, cnt) ==
    /\ y \in RippleState
    /\ y.bal = bal /\ y.limit = x.limit /\ y.reserve = x.reserve /\ y.frozen = x.frozen
    /\ y.locked = IF lock = 0 \/ cnt = 0 THEN 0 ELSE lock
    /\ y.count = IF lock = 0 \/ cnt = 0 THEN 0 ELSE cnt

\* What WithLock leaves alone and what it sets.
LEMMA WithLockLine ==
    ASSUME NEW x \in RippleState, NEW lock \in Nat, NEW cnt \in Nat
    PROVE  Relocked(x, WithLock(x, lock, cnt), x.bal, lock, cnt)
<1>1. CASE lock = 0 \/ cnt = 0
  BY <1>1, Zenon DEF WithLock, RippleState, Relocked
<1>2. CASE ~(lock = 0 \/ cnt = 0)
  BY <1>2, Zenon DEF WithLock, RippleState, Relocked
<1> QED
  BY <1>1, <1>2, Zenon

\* What PaidOut leaves alone and what it sets.
LEMMA PaidOutLine ==
    ASSUME NEW x \in RippleState, NEW amt \in Nat, NEW n \in Int,
           amt <= x.locked, x.locked <= x.bal, x.count + n >= 0
    PROVE  Relocked(x, PaidOut(x, amt, n), x.bal - amt, x.locked - amt, x.count + n)
<1> DEFINE v == WithLock(x, x.locked - amt, x.count + n)
<1>1. x.locked - amt \in Nat /\ x.count + n \in Nat /\ x.bal - amt \in Nat
  BY DEF RippleState
<1>2. Relocked(x, v, x.bal, x.locked - amt, x.count + n)
  <2>1. ASSUME NEW q \in Nat, NEW d \in Nat PROVE Relocked(x, WithLock(x, q, d), x.bal, q, d)
    BY WithLockLine, Zenon
  <2> HIDE DEF Relocked
  <2> QED
    BY <1>1, <2>1, Zenon
<1>3. PaidOut(x, amt, n) = [v EXCEPT !.bal = @ - amt]
  BY Zenon DEF PaidOut
<1> HIDE DEF v
<1>4. CASE x.locked - amt = 0 \/ x.count + n = 0
  BY <1>1, <1>2, <1>3, <1>4, Zenon DEF RippleState, Relocked
<1>5. CASE ~(x.locked - amt = 0 \/ x.count + n = 0)
  BY <1>1, <1>2, <1>3, <1>5, Zenon DEF RippleState, Relocked
<1> QED
  BY <1>4, <1>5, Zenon

-----------------------------------------------------------------------------
(* Locks.                                                                  *)

\* What the entries of an account hold, and those that hold something.
LEMMA LockedType ==
    ASSUME NEW en, EntriesOK(en), NEW a
    PROVE  /\ \A k \in Key : InsideFor(en, a)[k] \in Nat
           /\ LockedFor(en, a) \in Nat
           /\ \A k \in Key : InsideFor(en, a)[k] <= LockedFor(en, a)
           /\ Busy(en, a) = {k \in Key : InsideFor(en, a)[k] > 0}
           /\ LockedFor(en, a) = 0 => Busy(en, a) = {}
           /\ Busy(en, a) = {} => LockedFor(en, a) = 0
<1> DEFINE f == InsideFor(en, a)
<1>1. \A k \in Key : f[k] \in Nat
  BY InsideType, Zenon DEF InsideFor, OwnedBy
<1>2. IsFiniteSet(Key)
  BY ModeAssumption, Zenon
<1>3. Busy(en, a) = {k \in Key : f[k] > 0}
  BY InsideType DEF InsideFor, OwnedBy, Busy
<1>4. LockedFor(en, a) = SumFunctionOnSet(f, Key)
  BY Zenon DEF LockedFor
<1> HIDE DEF f
<1>5. SumFunctionOnSet(f, Key) \in Nat
  BY <1>1, <1>2, SumType, Zenon
<1>6. \A k \in Key : f[k] <= SumFunctionOnSet(f, Key)
  BY <1>1, <1>2, SumCovers, Zenon
<1>7. SumFunctionOnSet(f, Key) = 0 => Busy(en, a) = {}
  BY <1>1, <1>3, <1>5, <1>6
<1>8. ASSUME Busy(en, a) = {} PROVE SumFunctionOnSet(f, Key) = 0
  <2>1. {} \in SUBSET Key /\ \A k \in Key : f[k] \in Int
    BY <1>1
  <2>2. \A k \in Key \ {} : f[k] = 0
    BY <1>1, <1>3, <1>8
  <2>3. SumFunctionOnSet(f, Key) = SumFunctionOnSet(f, {})
    BY <1>2, <2>1, <2>2, SumZero, Zenon
  <2> QED
    BY <2>3, SumPick, FS_EmptySet, Zenon
<1> QED
  BY <1>1, <1>3, <1>4, <1>5, <1>6, <1>7, <1>8, Zenon DEF f

\* Entries that hold the same for a.
LEMMA LockedSame ==
    ASSUME NEW en, NEW ne, EntriesOK(en), EntriesOK(ne), NEW a,
           \A k \in Key : InsideFor(ne, a)[k] = InsideFor(en, a)[k]
    PROVE  LockedFor(ne, a) = LockedFor(en, a) /\ Busy(ne, a) = Busy(en, a)
<1>1. IsFiniteSet(Key)
  BY ModeAssumption, Zenon
<1>2. LockedFor(ne, a) = LockedFor(en, a)
  BY <1>1, SumSame, Zenon DEF LockedFor
<1> QED
  BY <1>2, LockedType

\* The locks stay right when no entry's holding changes but that of the issuer.
LEMMA LocksSame ==
    ASSUME NEW en, NEW ne, EntriesOK(en), EntriesOK(ne), NEW l, LocksOK(l, en),
           \A a \in Account \ {Issuer} : \A k \in Key :
               InsideFor(ne, a)[k] = InsideFor(en, a)[k]
    PROVE  LocksOK(l, ne)
<1>1. \A a \in Account \ {Issuer} : LockedFor(ne, a) = LockedFor(en, a) /\ Busy(ne, a) = Busy(en, a)
  BY LockedSame, Zenon
<1> QED
  BY <1>1, Zenon DEF LocksOK

\* Only the entry k changes, which is a's before and after, or comes or goes.
EntryChanged(en, ne, k, a) ==
    /\ EntriesOK(en) /\ EntriesOK(ne)
    /\ \A j \in Key \ {k} : ne[j] = en[j]
    /\ en[k] # Absent => en[k].owner = a
    /\ ne[k] # Absent => ne[k].owner = a

\* The entry k of a changes: for a what is inside it counts, for others nothing changes.
LEMMA LockedSet ==
    ASSUME NEW en, NEW ne, NEW k \in Key, NEW a, EntryChanged(en, ne, k, a)
    PROVE  /\ LockedFor(ne, a) = (LockedFor(en, a) - InsideAt(en, k)) + InsideAt(ne, k)
           /\ InsideFor(en, a)[k] = InsideAt(en, k) /\ InsideFor(ne, a)[k] = InsideAt(ne, k)
           /\ Busy(en, a) \ {k} = Busy(ne, a) \ {k}
           /\ \A b : b # a => LockedFor(ne, b) = LockedFor(en, b) /\ Busy(ne, b) = Busy(en, b)
<1>0. EntriesOK(en) /\ EntriesOK(ne)
  BY Zenon DEF EntryChanged
<1>1. \A j \in Key \ {k} : \A b : InsideFor(ne, b)[j] = InsideFor(en, b)[j]
  BY Zenon DEF InsideFor, OwnedBy, EntryChanged
<1>2. InsideFor(en, a)[k] = InsideAt(en, k) /\ InsideFor(ne, a)[k] = InsideAt(ne, k)
  BY Zenon DEF EntryChanged, InsideFor, InsideAt, OwnedBy
<1>3. ASSUME NEW b, b # a
      PROVE  LockedFor(ne, b) = LockedFor(en, b) /\ Busy(ne, b) = Busy(en, b)
  <2>1. InsideFor(en, b)[k] = 0 /\ InsideFor(ne, b)[k] = 0
    BY <1>3, Zenon DEF InsideFor, OwnedBy, EntryChanged
  <2>2. \A j \in Key : InsideFor(ne, b)[j] = InsideFor(en, b)[j]
    BY <1>1, <2>1, Zenon
  <2> QED
    BY <1>0, <2>2, LockedSame, Zenon
<1> DEFINE f == InsideFor(en, a)
           g == InsideFor(ne, a)
<1>4. \A j \in Key : f[j] \in Int /\ g[j] \in Int
  BY <1>0, LockedType
<1>5. \A j \in Key \ {k} : g[j] = f[j]
  BY <1>1, Zenon
<1>6. IsFiniteSet(Key)
  BY ModeAssumption, Zenon
<1> HIDE DEF f, g
<1>7. SumFunctionOnSet(g, Key) = (SumFunctionOnSet(f, Key) - f[k]) + g[k]
  BY <1>4, <1>5, <1>6, SumUpdate
<1>8. LockedFor(ne, a) = (LockedFor(en, a) - InsideAt(en, k)) + InsideAt(ne, k)
  BY <1>2, <1>7, Zenon DEF LockedFor, f, g
<1>9. Busy(en, a) \ {k} = Busy(ne, a) \ {k}
  <2>1. Busy(en, a) = {j \in Key : f[j] > 0} /\ Busy(ne, a) = {j \in Key : g[j] > 0}
    BY <1>0, LockedType, Zenon DEF f, g
  <2> QED
    BY <1>5, <2>1
<1> QED
  BY <1>2, <1>3, <1>8, <1>9, Zenon

\* The lock of the entry k of a changes with the entry.  The count that n leaves
\* still covers the entries that hold something, so that the two fields of the line
\* go together only when nothing is locked any more.
LEMMA LocksStep ==
    ASSUME NEW en, NEW ne, NEW k \in Key, NEW a \in Account, a # Issuer,
           EntryChanged(en, ne, k, a), NEW l \in Lines, NEW m \in Lines, LocksOK(l, en),
           \A b \in Account \ {a} : m[b] = l[b],
           l[a] # Absent, NEW n \in Int, NEW lock \in Int, NEW bal \in Int,
           lock = (l[a].locked - InsideAt(en, k)) + InsideAt(ne, k),
           Relocked(l[a], m[a], bal, lock, l[a].count + n), lock <= bal,
           InsideAt(ne, k) > 0 /\ InsideAt(en, k) = 0 => n >= 1,
           InsideAt(ne, k) > 0 \/ InsideAt(en, k) = 0 => n >= 0,
           n >= -1
    PROVE  LocksOK(m, ne)
<1>0. EntriesOK(en) /\ EntriesOK(ne)
  BY Zenon DEF EntryChanged
<1>1. /\ LockedFor(ne, a) = (LockedFor(en, a) - InsideAt(en, k)) + InsideAt(ne, k)
      /\ InsideFor(en, a)[k] = InsideAt(en, k) /\ InsideFor(ne, a)[k] = InsideAt(ne, k)
      /\ Busy(en, a) \ {k} = Busy(ne, a) \ {k}
      /\ \A b : b # a => LockedFor(ne, b) = LockedFor(en, b) /\ Busy(ne, b) = Busy(en, b)
  BY LockedSet
<1>2. /\ LockedFor(en, a) \in Nat /\ LockedFor(ne, a) \in Nat
      /\ LockedFor(ne, a) = 0 => Busy(ne, a) = {}
      /\ Busy(ne, a) = {} => LockedFor(ne, a) = 0
      /\ k \in Busy(en, a) <=> InsideAt(en, k) > 0
      /\ k \in Busy(ne, a) <=> InsideAt(ne, k) > 0
  BY <1>0, <1>1, LockedType
<1>3. InsideAt(en, k) \in Nat /\ InsideAt(ne, k) \in Nat
  BY <1>0, InsideType, Zenon
<1>4. IsFiniteSet(Busy(en, a)) /\ IsFiniteSet(Busy(ne, a))
  BY CountsFinite, Zenon
<1>5. /\ Cardinality(Busy(en, a)) \in Nat /\ Cardinality(Busy(ne, a)) \in Nat
      /\ Cardinality(Busy(ne, a)) =
           (Cardinality(Busy(en, a)) - (IF k \in Busy(en, a) THEN 1 ELSE 0))
           + (IF k \in Busy(ne, a) THEN 1 ELSE 0)
  <2> HIDE DEF Busy
  <2> QED
    BY <1>1, <1>4, CardAt
<1>6. Cardinality(Busy(ne, a)) = 0 => Busy(ne, a) = {}
  BY <1>4, FS_EmptySet, Zenon
<1>7. Busy(ne, a) = {} => Cardinality(Busy(ne, a)) = 0
  BY FS_EmptySet, Zenon
<1>8. /\ LockedFor(en, a) = l[a].locked
      /\ l[a].locked <= l[a].bal
      /\ Cardinality(Busy(en, a)) <= l[a].count
  BY Zenon DEF LocksOK
<1>9. /\ l[a].locked \in Nat /\ l[a].count \in Nat
      /\ m[a] \in RippleState /\ m[a].bal = bal
      /\ m[a].locked = (IF lock = 0 \/ l[a].count + n = 0 THEN 0 ELSE lock)
      /\ m[a].count = (IF lock = 0 \/ l[a].count + n = 0 THEN 0 ELSE l[a].count + n)
  BY Zenon DEF Lines, Optional, RippleState, Relocked
<1>10. LockedFor(ne, a) = lock
  BY <1>1, <1>2, <1>3, <1>8, <1>9, Zenon
<1>11. Cardinality(Busy(ne, a)) <= l[a].count + n
  BY <1>2, <1>3, <1>5, <1>8, <1>9, SMTT(30)
<1>12. l[a].count + n = 0 => LockedFor(ne, a) = 0
  BY <1>2, <1>5, <1>6, <1>11
<1>13. LockedFor(ne, a) = m[a].locked
  BY <1>2, <1>9, <1>10, <1>12, Zenon
<1>14. m[a].locked <= m[a].bal
  BY <1>2, <1>9, <1>10, <1>13, Zenon
<1>15. Cardinality(Busy(ne, a)) <= m[a].count
  BY <1>2, <1>5, <1>7, <1>9, <1>10, <1>11, <1>12
<1>16. ASSUME NEW b \in Account \ {Issuer}
       PROVE  /\ LockedFor(ne, b) = IF m[b] = Absent THEN 0 ELSE m[b].locked
              /\ m[b] # Absent => /\ m[b].locked <= m[b].bal
                                  /\ Cardinality(Busy(ne, b)) <= m[b].count
  <2>1. CASE b = a
    <3>1. m[a] # Absent
      BY <1>9, AbsentAssumption, Zenon
    <3> QED
      BY <1>13, <1>14, <1>15, <2>1, <3>1, Zenon
  <2>2. CASE b # a
    BY <1>1, <2>2, Zenon DEF LocksOK
  <2> QED
    BY <2>1, <2>2, Zenon
<1> QED
  BY <1>16, Zenon DEF LocksOK

\* Lines change without their locks: the balance still covers what is locked, and a
\* line with nothing locked may come or go.
LEMMA LocksLine ==
    ASSUME NEW en, EntriesOK(en), NEW l \in Lines, NEW m \in Lines, LocksOK(l, en),
           \A a \in Account \ {Issuer} :
              /\ m[a] = Absent => l[a] = Absent \/ l[a].locked = 0
              /\ m[a] # Absent =>
                    \/ l[a] = Absent /\ m[a].locked = 0
                    \/ /\ l[a] # Absent /\ m[a].locked = l[a].locked
                       /\ m[a].locked <= m[a].bal /\ m[a].count = l[a].count
    PROVE  LocksOK(m, en)
<1>1. ASSUME NEW a \in Account \ {Issuer}
      PROVE  /\ LockedFor(en, a) = IF m[a] = Absent THEN 0 ELSE m[a].locked
             /\ m[a] # Absent => /\ m[a].locked <= m[a].bal
                                 /\ Cardinality(Busy(en, a)) <= m[a].count
  <2>1. LockedFor(en, a) = 0 => Cardinality(Busy(en, a)) = 0
    BY LockedType, FS_EmptySet, Zenon
  <2>2. m[a] # Absent => m[a].bal \in Nat /\ m[a].count \in Nat
    BY Zenon DEF Lines, Optional, RippleState
  <2>3. CASE m[a] # Absent /\ l[a] = Absent
    <3>1. LockedFor(en, a) = 0
      BY <2>3, Zenon DEF LocksOK
    <3> QED
      BY <2>1, <2>2, <2>3, <3>1
  <2>4. CASE m[a] # Absent /\ l[a] # Absent
    BY <2>4, Zenon DEF LocksOK
  <2>5. CASE m[a] = Absent
    BY <2>5, Zenon DEF LocksOK
  <2> QED
    BY <2>3, <2>4, <2>5, Zenon
<1> QED
  BY <1>1, Zenon DEF LocksOK

-----------------------------------------------------------------------------
(* Locking, unlocking, and transfers of what is locked.                    *)

\* The same lines, reserves and freezes.
SameShape(l, m) ==
    \A b \in Account : /\ m[b] # Absent <=> l[b] # Absent
                       /\ l[b] # Absent => m[b].reserve = l[b].reserve /\ m[b].frozen = l[b].frozen

\* Locks and balances of lines matter to no owner count and no account.
LEMMA ShapeKept ==
    ASSUME NEW r, NEW en, NEW l, NEW m, SameShape(l, m)
    PROVE  /\ PartiesOK(r, en, l) => PartiesOK(r, en, m)
           /\ OwnersOK(r, en, l) => OwnersOK(r, en, m)
<1>1. \A a \in Account : LinesOf(m, a) = LinesOf(l, a)
  BY Zenon DEF SameShape, LinesOf
<1>2. Issuer \in Account
  BY LedgerAssumption, Zenon
<1>3. PartiesOK(r, en, l) => PartiesOK(r, en, m)
  <2> HIDE DEF Parties
  <2> QED
    BY <1>2, Zenon DEF SameShape, PartiesOK
<1>4. OwnersOK(r, en, l) => OwnersOK(r, en, m)
  BY <1>1, Zenon DEF OwnersOK
<1> QED
  BY <1>3, <1>4, Zenon

\* A change of an entry that is the issuer's, or that holds as much as before, needs
\* no change of a lock.
LEMMA LocksOther ==
    ASSUME NEW en, NEW ne, NEW k \in Key, NEW a, EntryChanged(en, ne, k, a),
           NEW l, LocksOK(l, en), a = Issuer \/ InsideAt(ne, k) = InsideAt(en, k)
    PROVE  LocksOK(l, ne)
<1>1. /\ \A b : b # a => LockedFor(ne, b) = LockedFor(en, b) /\ Busy(ne, b) = Busy(en, b)
      /\ InsideFor(en, a)[k] = InsideAt(en, k) /\ InsideFor(ne, a)[k] = InsideAt(ne, k)
  BY LockedSet
<1>2. CASE a = Issuer
  BY <1>1, <1>2, Zenon DEF LocksOK
<1>3. CASE InsideAt(ne, k) = InsideAt(en, k)
  <2>1. \A j \in Key : InsideFor(ne, a)[j] = InsideFor(en, a)[j]
    BY <1>1, <1>3, Zenon DEF EntryChanged, InsideFor, OwnedBy
  <2>2. LockedFor(ne, a) = LockedFor(en, a) /\ Busy(ne, a) = Busy(en, a)
    BY <2>1, LockedSame DEF EntryChanged
  <2> QED
    BY <1>1, <2>2, Zenon DEF LocksOK
<1> QED
  BY <1>2, <1>3, Zenon

\* trustAdjustLockedBalance with the entry it is about.
LEMMA AdjustLockedStep ==
    ASSUME NEW en, NEW ne, NEW k \in Key, NEW a \in Account, a # Issuer,
           EntryChanged(en, ne, k, a), NEW l \in Lines, LocksOK(l, en),
           NEW x \in Int, NEW n \in {1, -1}, CanAdjustLocked(l, a, x, n),
           x = InsideAt(ne, k) - InsideAt(en, k),
           n = -1 => InsideAt(ne, k) = 0
    PROVE  /\ AdjustLocked(l, a, x, n) \in Lines
           /\ LocksOK(AdjustLocked(l, a, x, n), ne)
           /\ SameShape(l, AdjustLocked(l, a, x, n))
<1>0. EntriesOK(en) /\ EntriesOK(ne)
  BY Zenon DEF EntryChanged
<1>1. InsideAt(en, k) \in Nat /\ InsideAt(ne, k) \in Nat
  BY <1>0, InsideType, Zenon
<1>2. CASE x = 0
  <2>1. AdjustLocked(l, a, x, n) = l
    BY <1>2, Zenon DEF AdjustLocked
  <2>2. InsideAt(ne, k) = InsideAt(en, k)
    BY <1>1, <1>2
  <2> QED
    BY <2>1, <2>2, LocksOther, Zenon DEF SameShape
<1>3. CASE x # 0
  <2> DEFINE lock == l[a].locked + x
             w == WithLock(l[a], lock, l[a].count + n)
             m == AdjustLocked(l, a, x, n)
  <2>1. l[a] # Absent /\ l[a] \in RippleState
    BY Zenon DEF CanAdjustLocked, Lines, Optional
  <2>2. lock \in Nat /\ l[a].count + n \in Nat /\ lock <= l[a].bal /\ l[a].bal \in Nat
    BY <1>3, <2>1 DEF CanAdjustLocked, RippleState
  <2>3. m = [l EXCEPT ![a] = w]
    BY <1>3, Zenon DEF AdjustLocked
  <2>4. Relocked(l[a], w, l[a].bal, lock, l[a].count + n)
    <3>1. ASSUME NEW q \in Nat, NEW d \in Nat
          PROVE  Relocked(l[a], WithLock(l[a], q, d), l[a].bal, q, d)
      BY <2>1, WithLockLine, Zenon
    <3> HIDE DEF Relocked, lock
    <3> QED
      BY <2>2, <3>1, Zenon
  <2>5. w \in Optional(RippleState) /\ w # Absent
    BY <2>4, AbsentAssumption, Zenon DEF Relocked, Optional
  <2>6. m \in Lines /\ m[a] = w /\ \A b \in Account \ {a} : m[b] = l[b]
    <3> HIDE DEF m, w
    <3> QED
      BY <2>3, <2>5, Zenon DEF Lines
  <2>7. SameShape(l, m)
    <3> HIDE DEF m, w
    <3> QED
      BY <2>1, <2>4, <2>5, <2>6, Zenon DEF SameShape, Relocked
  <2>8. InsideAt(ne, k) > 0 /\ InsideAt(en, k) = 0 => n >= 1
    BY <1>1
  <2>9. InsideAt(ne, k) > 0 \/ InsideAt(en, k) = 0 => n >= 0
    BY <1>1, <1>3
  <2>10. lock = (l[a].locked - InsideAt(en, k)) + InsideAt(ne, k) /\ n >= -1
    BY <1>1, <2>1, SMTT(30) DEF RippleState
  <2>11. LocksOK(m, ne)
    <3> HIDE DEF m, w, lock
    <3>1. Relocked(l[a], m[a], l[a].bal, lock, l[a].count + n)
      BY <2>4, <2>6, Zenon
    <3> QED
      BY <2>1, <2>2, <2>6, <2>8, <2>9, <2>10, <3>1, LocksStep, SMTT(30)
  <2> QED
    BY <2>6, <2>7, <2>11, Zenon
<1> QED
  BY <1>2, <1>3, Zenon

\* The owner's side of trustTransferLockedBalance: what is paid out leaves both the
\* lock and the balance.
LEMMA DebitStep ==
    ASSUME NEW en, NEW ne, NEW k \in Key, NEW a \in Account,
           EntryChanged(en, ne, k, a), NEW l \in Lines, LocksOK(l, en),
           NEW amt \in Nat \ {0}, NEW n \in {0, -1}, InsideAt(ne, k) = InsideAt(en, k) - amt,
           n = -1 => InsideAt(ne, k) = 0,
           a # Issuer => l[a] # Absent /\ amt <= l[a].locked /\ l[a].count + n >= 0
    PROVE  /\ Debited(l, a, amt, n) \in Lines
           /\ LocksOK(Debited(l, a, amt, n), ne)
           /\ SameShape(l, Debited(l, a, amt, n))
<1>0. EntriesOK(en) /\ EntriesOK(ne)
  BY Zenon DEF EntryChanged
<1>1. InsideAt(en, k) \in Nat /\ InsideAt(ne, k) \in Nat
  BY <1>0, InsideType, Zenon
<1>2. CASE a = Issuer
  <2>1. Debited(l, a, amt, n) = l
    BY <1>2, Zenon DEF Debited
  <2> QED
    BY <1>2, <2>1, LocksOther, Zenon DEF SameShape
<1>3. CASE a # Issuer
  <2> DEFINE lock == l[a].locked - amt
             bal == l[a].bal - amt
             w == PaidOut(l[a], amt, n)
             m == Debited(l, a, amt, n)
  <2>1. l[a] # Absent /\ l[a] \in RippleState
    BY <1>3, Zenon DEF Lines, Optional
  <2>2. l[a].locked <= l[a].bal
    BY <1>3, <2>1, Zenon DEF LocksOK
  <2>3. m = [l EXCEPT ![a] = w]
    BY <1>3, Zenon DEF Debited
  <2>4. Relocked(l[a], w, bal, lock, l[a].count + n)
    <3>1. n \in Int /\ amt \in Nat /\ amt <= l[a].locked /\ l[a].count + n >= 0
      BY <1>3
    <3> HIDE DEF Relocked
    <3> QED
      BY <2>1, <2>2, <3>1, PaidOutLine, Zenon
  <2>5. w \in Optional(RippleState) /\ w # Absent
    BY <2>4, AbsentAssumption, Zenon DEF Relocked, Optional
  <2>6. m \in Lines /\ m[a] = w /\ \A b \in Account \ {a} : m[b] = l[b]
    <3> HIDE DEF m, w
    <3> QED
      BY <2>3, <2>5, Zenon DEF Lines
  <2>7. SameShape(l, m)
    <3> HIDE DEF m, w
    <3> QED
      BY <2>1, <2>4, <2>5, <2>6, Zenon DEF SameShape, Relocked
  <2>8. InsideAt(ne, k) > 0 /\ InsideAt(en, k) = 0 => n >= 1
    BY <1>1
  <2>9. InsideAt(ne, k) > 0 \/ InsideAt(en, k) = 0 => n >= 0
    BY <1>1
  <2>10. /\ lock = (l[a].locked - InsideAt(en, k)) + InsideAt(ne, k) /\ n >= -1 /\ n \in Int
         /\ lock \in Int /\ bal \in Int /\ lock <= bal
    BY <1>1, <2>1, <2>2 DEF RippleState
  <2>11. LocksOK(m, ne)
    <3> HIDE DEF m, w, lock, bal
    <3>1. Relocked(l[a], m[a], bal, lock, l[a].count + n)
      BY <2>4, <2>6, Zenon
    <3> QED
      BY <1>3, <2>1, <2>6, <2>8, <2>9, <2>10, <3>1, LocksStep, Zenon
  <2> QED
    BY <2>6, <2>7, <2>11, Zenon
<1> QED
  BY <1>2, <1>3, Zenon

\* The same accounts, balances, tickets and flags.
SameRoots(r, s) ==
    \A b \in Account : /\ s[b] # Absent <=> r[b] # Absent
                       /\ r[b] # Absent => /\ s[b].bal = r[b].bal
                                           /\ s[b].tickets = r[b].tickets
                                           /\ s[b].minter = r[b].minter

\* Owner counts are not part of what SameRoots compares.
LEMMA AdjustSame ==
    ASSUME NEW r \in Roots, NEW a \in Account, r[a] # Absent, NEW n \in Int
    PROVE  SameRoots(r, AdjustOwnerCount(r, a, n))
  BY AdjustOwnerCountRoots DEF SameRoots

\* Roots that are the same but for owner counts hold the same drops for the same parties.
LEMMA SameKeeps ==
    ASSUME NEW r, NEW s, NEW en, NEW l, SameRoots(r, s), EntriesOK(en)
    PROVE  /\ PartiesOK(r, en, l) => PartiesOK(s, en, l)
           /\ DropsIn(s) = DropsIn(r)
<1>1. ASSUME PartiesOK(r, en, l) PROVE PartiesOK(s, en, l)
  BY <1>1, PartiesRoots, Zenon DEF SameRoots
<1>2. DropsIn(s) = DropsIn(r)
  BY DropsSame, Zenon DEF SameRoots
<1> QED
  BY <1>1, <1>2, Zenon

\* One line changes or comes, and AdjustOwnerCount follows for its holder.
LEMMA HolderLine ==
    ASSUME NEW r \in Roots, NEW s \in Roots, NEW en, EntriesOK(en),
           NEW l \in Lines, NEW m \in Lines, NEW a \in Account, a # Issuer,
           PartiesOK(r, en, l), OwnersOK(r, en, l), r[a] # Absent, r[Issuer] # Absent,
           NEW n \in Int, s = AdjustOwnerCount(r, a, n) \/ (s = r /\ n = 0),
           \A b \in Account \ {a} : m[b] = l[b],
           n = Count(HoldsReserve(m[a])) - Count(HoldsReserve(l[a])),
           IsFrozen(m[a]) <=> IsFrozen(l[a])
    PROVE  /\ PartiesOK(s, en, m) /\ OwnersOK(s, en, m) /\ SameRoots(r, s)
<1>0. Issuer \in Account
  BY LedgerAssumption, Zenon
<1>1. SameRoots(r, s)
  BY AdjustSame DEF SameRoots
<1>2. PartiesOK(s, en, l)
  BY <1>1, SameKeeps, Zenon
<1>3. s[a] # Absent /\ s[Issuer] # Absent
  BY <1>0, <1>1, Zenon DEF SameRoots
<1>4. PartiesOK(s, en, m)
  BY <1>2, <1>3, PartiesLine, Zenon
<1>5. \A b \in Account : r[b] # Absent => r[b].owners \in Nat
  BY Zenon DEF Roots, Optional, AccountRoot
<1>6. \A b \in Account \ {a} : s[b] = r[b]
  BY AdjustOwnerCountRoots
<1>7. s[a].owners = Confined(r[a].owners + n)
  <2>1. CASE s = r /\ n = 0
    BY <1>5, <2>1 DEF Confined
  <2>2. CASE s = AdjustOwnerCount(r, a, n)
    BY <2>2, AdjustOwnerCountRoots, ZenonT(60)
  <2> QED
    BY <2>1, <2>2, Zenon
<1>8. s[Issuer].owners = Confined(r[Issuer].owners + (Count(IsFrozen(m[a])) - Count(IsFrozen(l[a]))))
  <2>1. Count(IsFrozen(m[a])) - Count(IsFrozen(l[a])) = 0
    <3> HIDE DEF IsFrozen
    <3> QED
      BY DEF Count
  <2>2. s[Issuer].owners = r[Issuer].owners /\ r[Issuer].owners \in Nat
    BY <1>0, <1>5, <1>6, Zenon
  <2> QED
    BY <2>1, <2>2 DEF Confined
<1>9. \A b \in Account : s[b] # Absent => r[b] # Absent /\ s[b].tickets = r[b].tickets
  BY <1>1, Zenon DEF SameRoots
<1>10. \A b \in Account \ {a, Issuer} : s[b] # Absent => s[b].owners = r[b].owners
  BY <1>6, Zenon
<1>11. OwnersOK(s, en, m)
  <2> HIDE DEF IsFrozen, HoldsReserve
  <2> QED
    BY <1>7, <1>8, <1>9, <1>10, OwnersLine, Zenon
<1> QED
  BY <1>1, <1>4, <1>11, Zenon

\* The parts of the invariant that a transfer of tokens touches.  The entries that
\* owner counts follow (en) need not be those that the locks follow (ne).
TokensOK(r, en, ne, l) ==
    /\ r \in Roots /\ l \in Lines /\ EntriesOK(en) /\ EntriesOK(ne)
    /\ PartiesOK(r, en, l) /\ OwnersOK(r, en, l) /\ LocksOK(l, ne)

\* A line comes for a holder without one.
LEMMA LineCreated ==
    ASSUME NEW r, NEW en, NEW ne, NEW l, TokensOK(r, en, ne, l),
           NEW a \in Account, a # Issuer, l[a] = Absent, r[a] # Absent, r[Issuer] # Absent,
           NEW y \in RippleState, y.locked = 0, y.reserve = TRUE, y.frozen = FALSE
    PROVE  /\ TokensOK(AdjustOwnerCount(r, a, 1), en, ne, [l EXCEPT ![a] = y])
           /\ SameRoots(r, AdjustOwnerCount(r, a, 1))
           /\ \A b \in Account : l[b] # Absent => [l EXCEPT ![a] = y][b] # Absent
<1> DEFINE m == [l EXCEPT ![a] = y]
           s == AdjustOwnerCount(r, a, 1)
<1>0. /\ r \in Roots /\ l \in Lines /\ EntriesOK(en) /\ EntriesOK(ne)
      /\ PartiesOK(r, en, l) /\ OwnersOK(r, en, l) /\ LocksOK(l, ne)
  BY Zenon DEF TokensOK
<1>1. y # Absent
  BY AbsentAssumption, Zenon
<1>2. m \in Lines /\ m[a] = y /\ \A b \in Account \ {a} : m[b] = l[b]
  BY <1>0, Zenon DEF Lines, Optional
<1>3. s \in Roots
  BY <1>0, AdjustOwnerCountRoots
<1>4. s = AdjustOwnerCount(r, a, 1)
  BY Zenon
<1> HIDE DEF m, s
<1>5. LocksOK(m, ne)
  <2>1. \A b \in Account \ {Issuer} : l[b] # Absent => l[b].locked <= l[b].bal
    BY <1>0, Zenon DEF LocksOK
  <2> QED
    BY <1>0, <1>1, <1>2, <2>1, LocksLine, ZenonT(60)
<1>6. 1 = Count(HoldsReserve(m[a])) - Count(HoldsReserve(l[a])) /\ (IsFrozen(m[a]) <=> IsFrozen(l[a]))
  BY <1>1, <1>2 DEF Count, HoldsReserve, IsFrozen
<1>7. PartiesOK(s, en, m) /\ OwnersOK(s, en, m) /\ SameRoots(r, s)
  <2> HIDE DEF HoldsReserve, IsFrozen
  <2> QED
    BY <1>0, <1>2, <1>3, <1>4, <1>6, HolderLine, SMTT(30)
<1>8. TokensOK(s, en, ne, m)
  BY <1>0, <1>2, <1>3, <1>5, <1>7, Zenon DEF TokensOK
<1> QED
  BY <1>1, <1>2, <1>7, <1>8, Zenon DEF m, s

\* A line takes more tokens.
LEMMA LineCredited ==
    ASSUME NEW r, NEW en, NEW ne, NEW l, TokensOK(r, en, ne, l),
           NEW a \in Account, a # Issuer, l[a] # Absent, NEW amt \in Nat
    PROVE  /\ TokensOK(r, en, ne, [l EXCEPT ![a].bal = @ + amt])
           /\ \A b \in Account : l[b] # Absent => [l EXCEPT ![a].bal = @ + amt][b] # Absent
<1> DEFINE w == [l[a] EXCEPT !.bal = @ + amt]
           m == [l EXCEPT ![a].bal = @ + amt]
<1>0. /\ r \in Roots /\ l \in Lines /\ EntriesOK(en) /\ EntriesOK(ne)
      /\ PartiesOK(r, en, l) /\ OwnersOK(r, en, l) /\ LocksOK(l, ne)
  BY Zenon DEF TokensOK
<1>1. l[a] \in RippleState /\ l[a].locked <= l[a].bal
  BY <1>0, Zenon DEF Lines, Optional, LocksOK
<1>2. /\ w \in RippleState /\ w.bal = l[a].bal + amt /\ w.locked = l[a].locked /\ w.count = l[a].count
      /\ w.reserve = l[a].reserve /\ w.frozen = l[a].frozen
  BY <1>1 DEF RippleState
<1>3. m = [l EXCEPT ![a] = w]
  BY Zenon
<1> HIDE DEF w, m
<1>4. w # Absent
  BY <1>2, AbsentAssumption, Zenon
<1>5. m \in Lines /\ m[a] = w /\ \A b \in Account \ {a} : m[b] = l[b]
  BY <1>0, <1>2, <1>3, Zenon DEF Lines, Optional
<1>6. SameShape(l, m)
  BY <1>2, <1>4, <1>5, Zenon DEF SameShape
<1>7. m[a].locked <= m[a].bal
  BY <1>1, <1>2, <1>5 DEF RippleState
<1>8. LocksOK(m, ne)
  <2>1. \A b \in Account \ {Issuer} : l[b] # Absent => l[b].locked <= l[b].bal
    BY <1>0, Zenon DEF LocksOK
  <2> QED
    BY <1>0, <1>2, <1>4, <1>5, <1>7, <2>1, LocksLine, Zenon
<1>9. \A b \in Account : l[b] # Absent => m[b] # Absent
  BY <1>6, Zenon DEF SameShape
<1>10. TokensOK(r, en, ne, m)
  BY <1>0, <1>5, <1>6, <1>8, ShapeKept, Zenon DEF TokensOK
<1> QED
  BY <1>9, <1>10, Zenon DEF m

\* A line gives up its holder's reserve.
LEMMA LineReleased ==
    ASSUME NEW r, NEW en, NEW ne, NEW l, TokensOK(r, en, ne, l),
           NEW a \in Account, a # Issuer, l[a] # Absent, l[a].reserve = TRUE,
           r[a] # Absent, r[Issuer] # Absent
    PROVE  /\ TokensOK(AdjustOwnerCount(r, a, -1), en, ne, [l EXCEPT ![a].reserve = FALSE])
           /\ SameRoots(r, AdjustOwnerCount(r, a, -1))
<1> DEFINE n == -1
           w == [l[a] EXCEPT !.reserve = FALSE]
           m == [l EXCEPT ![a].reserve = FALSE]
           s == AdjustOwnerCount(r, a, n)
<1>0. /\ r \in Roots /\ l \in Lines /\ EntriesOK(en) /\ EntriesOK(ne)
      /\ PartiesOK(r, en, l) /\ OwnersOK(r, en, l) /\ LocksOK(l, ne)
  BY Zenon DEF TokensOK
<1>1. l[a] \in RippleState
  BY <1>0, Zenon DEF Lines, Optional
<1>2. /\ w \in RippleState /\ w.bal = l[a].bal /\ w.locked = l[a].locked /\ w.count = l[a].count
      /\ w.reserve = FALSE /\ w.frozen = l[a].frozen
  BY <1>1, Zenon DEF RippleState
<1>3. m = [l EXCEPT ![a] = w]
  BY Zenon
<1>4. n \in Int
  OBVIOUS
<1> HIDE DEF w, m, n
<1>5. w # Absent
  BY <1>2, AbsentAssumption, Zenon
<1>6. m \in Lines /\ m[a] = w /\ \A b \in Account \ {a} : m[b] = l[b]
  BY <1>0, <1>2, <1>3, Zenon DEF Lines, Optional
<1>7. s \in Roots
  BY <1>0, <1>4, AdjustOwnerCountRoots, Zenon
<1>8. s = AdjustOwnerCount(r, a, n)
  BY Zenon
<1> HIDE DEF s
<1>9. LocksOK(m, ne)
  <2>1. \A b \in Account \ {Issuer} : l[b] # Absent => l[b].locked <= l[b].bal
    BY <1>0, Zenon DEF LocksOK
  <2> QED
    BY <1>0, <1>2, <1>5, <1>6, <2>1, LocksLine, SMTT(30)
<1>10. ~HoldsReserve(m[a]) /\ HoldsReserve(l[a])
  BY <1>2, <1>6, Zenon DEF HoldsReserve
<1>11. IsFrozen(m[a]) <=> IsFrozen(l[a])
  BY <1>2, <1>5, <1>6, Zenon DEF IsFrozen
<1> HIDE DEF HoldsReserve, IsFrozen
<1>12. n = Count(HoldsReserve(m[a])) - Count(HoldsReserve(l[a]))
  BY <1>10, SMTT(30) DEF Count, n
<1>13. PartiesOK(s, en, m) /\ OwnersOK(s, en, m) /\ SameRoots(r, s)
  BY <1>0, <1>4, <1>6, <1>7, <1>8, <1>11, <1>12, HolderLine, SMTT(30)
<1>14. TokensOK(s, en, ne, m)
  BY <1>0, <1>6, <1>7, <1>9, <1>13, Zenon DEF TokensOK
<1> QED
  BY <1>13, <1>14, Zenon DEF m, s, n

\* trustTransferLockedBalance with the entry k of src that it pays out of.
LEMMA TransferStep ==
    ASSUME NEW ne, NEW k \in Key, NEW src \in Account, NEW dst \in Account, NEW acting,
           TokensOK(root, entry, entry, line), EntryChanged(entry, ne, k, src),
           root[src] # Absent, root[dst] # Absent, NEW amt \in Nat \ {0}, NEW n \in {0, -1},
           InsideAt(ne, k) = InsideAt(entry, k) - amt, n = -1 => InsideAt(ne, k) = 0,
           CanTransferLocked(acting, src, dst, amt, n)
    PROVE  /\ TokensOK(RootsTransferred(src, dst, amt, n), entry, ne, LinesTransferred(src, dst, amt, n))
           /\ SameRoots(root, RootsTransferred(src, dst, amt, n))
<1> DEFINE l1 == Debited(line, src, amt, n)
           l2 == Credited(l1, dst, amt)
           r2 == IF dst # Issuer /\ line[dst] = Absent THEN AdjustOwnerCount(root, dst, 1) ELSE root
           l3 == LinesTransferred(src, dst, amt, n)
           r3 == RootsTransferred(src, dst, amt, n)
<1>0. /\ root \in Roots /\ line \in Lines /\ EntriesOK(entry) /\ EntriesOK(ne)
      /\ PartiesOK(root, entry, line) /\ OwnersOK(root, entry, line) /\ LocksOK(line, entry)
  BY Zenon DEF TokensOK, EntryChanged
<1>1. /\ root[Issuer] # Absent /\ Issuer \in Account
      /\ src # Issuer => line[src] # Absent /\ amt <= line[src].locked /\ line[src].count + n >= 0
  BY LedgerAssumption, Zenon DEF CanTransferLocked, TransferAllowed, Exists
<1>2. l1 \in Lines /\ LocksOK(l1, ne) /\ SameShape(line, l1)
  BY <1>0, <1>1, DebitStep, Zenon
<1>3. l2 = Moved(src, dst, amt, n)
  BY Zenon DEF Moved
<1>4. /\ l3 = IF ReserveReleased(l2, src) THEN [l2 EXCEPT ![src].reserve = FALSE] ELSE l2
      /\ r3 = IF ReserveReleased(l2, src) THEN AdjustOwnerCount(r2, src, -1) ELSE r2
  BY <1>3, Zenon DEF LinesTransferred, RootsTransferred
<1> HIDE DEF l1, l3, r3
<1>5. TokensOK(root, entry, ne, l1)
  BY <1>0, <1>2, ShapeKept, Zenon DEF TokensOK
<1>6. /\ TokensOK(r2, entry, ne, l2) /\ SameRoots(root, r2)
      /\ \A b \in Account : l1[b] # Absent => l2[b] # Absent
  <2>1. CASE dst = Issuer
    BY <1>5, <2>1, Zenon DEF Credited, SameRoots
  <2>2. CASE dst # Issuer /\ line[dst] = Absent
    <3>1. l1[dst] = Absent
      BY <1>2, <2>2, Zenon DEF SameShape
    <3>2. l2 = [l1 EXCEPT ![dst] = NewLine(amt)] /\ r2 = AdjustOwnerCount(root, dst, 1)
      BY <2>2, <3>1, Zenon DEF Credited
    <3>3. /\ NewLine(amt) \in RippleState /\ NewLine(amt).locked = 0 /\ NewLine(amt).reserve = TRUE
          /\ NewLine(amt).frozen = FALSE
      BY Zenon DEF NewLine, RippleState
    <3> HIDE DEF l2, r2
    <3> QED
      BY <1>1, <1>5, <2>2, <3>1, <3>2, <3>3, LineCreated, ZenonT(60)
  <2>3. CASE dst # Issuer /\ line[dst] # Absent
    <3>1. l1[dst] # Absent
      BY <1>2, <2>3, Zenon DEF SameShape
    <3>2. l2 = [l1 EXCEPT ![dst].bal = @ + amt] /\ r2 = root /\ amt \in Nat
      BY <2>3, <3>1, Zenon DEF Credited
    <3>3. SameRoots(root, root)
      BY Zenon DEF SameRoots
    <3> HIDE DEF l2, r2
    <3> QED
      BY <1>5, <2>3, <3>1, <3>2, <3>3, LineCredited, Zenon
  <2> QED
    BY <2>1, <2>2, <2>3, Zenon
<1> HIDE DEF l2, r2
<1>7. r2[src] # Absent /\ r2[Issuer] # Absent
  BY <1>1, <1>6, Zenon DEF SameRoots
<1>8. CASE ReserveReleased(l2, src)
  <2>1. src # Issuer /\ l2[src].reserve
    BY <1>8, Zenon DEF ReserveReleased
  <2>2. l2[src] # Absent
    BY <1>1, <1>2, <1>6, <2>1, Zenon DEF SameShape
  <2>3. l2[src].reserve = TRUE
    BY <1>6, <2>1, <2>2, Zenon DEF TokensOK, Lines, Optional, RippleState
  <2>4. TokensOK(r3, entry, ne, l3) /\ SameRoots(r2, r3)
    BY <1>4, <1>6, <1>7, <1>8, <2>1, <2>2, <2>3, LineReleased, Zenon
  <2>5. SameRoots(root, r3)
    BY <1>6, <2>4, Zenon DEF SameRoots
  <2> QED
    BY <2>4, <2>5, Zenon DEF l3, r3
<1>9. CASE ~ReserveReleased(l2, src)
  <2>1. l3 = l2 /\ r3 = r2
    BY <1>4, <1>9, Zenon
  <2> QED
    BY <1>6, <2>1, Zenon DEF l3, r3
<1> QED
  BY <1>8, <1>9, Zenon

-----------------------------------------------------------------------------
(* The invariant as a chain of changes.                                    *)

\* A balance changes.
LEMMA LinkedBalance ==
    ASSUME NEW r, NEW d, NEW en, NEW l, Linked(r, d, en, l),
           NEW a \in Account, r[a] # Absent, NEW x \in Int, r[a].bal + x >= 0
    PROVE  /\ Linked(AddBalance(r, a, x), d, en, l)
           /\ DropsIn(r) \in Int /\ DropsIn(AddBalance(r, a, x)) = DropsIn(r) + x
           /\ \A b \in Account : AddBalance(r, a, x)[b] # Absent <=> r[b] # Absent
           /\ \A b \in Account \ {a} : AddBalance(r, a, x)[b] = r[b]
           /\ AddBalance(r, a, x)[a].bal = r[a].bal + x
           /\ AddBalance(r, a, x)[a].owners = r[a].owners
<1> DEFINE s == AddBalance(r, a, x)
<1>0. r \in Roots /\ EntriesOK(en) /\ PartiesOK(r, en, l) /\ OwnersOK(r, en, l)
  BY Zenon DEF Linked
<1>1. /\ s \in Roots /\ \A b \in Account : b # a => s[b] = r[b]
      /\ s[a] # Absent /\ s[a].bal = r[a].bal + x /\ s[a].owners = r[a].owners
      /\ s[a].tickets = r[a].tickets /\ s[a].minter = r[a].minter
  BY <1>0, AddBalanceRoots, Zenon
<1> HIDE DEF s
<1>2. OwnersOK(s, en, l)
  BY <1>0, <1>1, OwnersRoots, Zenon
<1>3. PartiesOK(s, en, l)
  BY <1>0, <1>1, PartiesRoots, Zenon
<1>4. DropsIn(r) \in Int /\ DropsIn(s) = DropsIn(r) + x
  BY <1>0, <1>1, DropsAdd, Zenon
<1>5. Linked(s, d, en, l)
  BY <1>1, <1>2, <1>3, Zenon DEF Linked
<1> QED
  BY <1>1, <1>4, <1>5, Zenon DEF s

\* Lines change without coming, going or moving a reserve.
LEMMA LinkedShape ==
    ASSUME NEW r, NEW d, NEW en, NEW l, Linked(r, d, en, l), NEW m \in Lines, SameShape(l, m)
    PROVE  Linked(r, d, en, m)
  BY ShapeKept, Zenon DEF Linked

\* What one change of the entry k does to the rest: it comes, it goes, it changes.
Comes(r, en, l, k, e, s, nd, ne) ==
    /\ Linked(s, nd, ne, l)
    /\ DropsIn(s) = DropsIn(r)
    /\ DropsInside(en) \in Int /\ DropsInside(ne) = DropsInside(en) + Inside(e)
    /\ EntryChanged(en, ne, k, e.owner)
    /\ InsideAt(en, k) = 0 /\ InsideAt(ne, k) = Inside(e)
Goes(r, en, l, k, s, nd, ne) ==
    /\ Linked(s, nd, ne, l)
    /\ DropsIn(s) = DropsIn(r)
    /\ DropsInside(en) \in Int /\ DropsInside(ne) = DropsInside(en) - Inside(en[k])
    /\ EntryChanged(en, ne, k, en[k].owner)
    /\ InsideAt(en, k) = Inside(en[k]) /\ InsideAt(ne, k) = 0
Becomes(r, d, en, l, k, e, ne) ==
    /\ Linked(r, d, ne, l)
    /\ DropsInside(en) \in Int
    /\ DropsInside(ne) = (DropsInside(en) - Inside(en[k])) + Inside(e)
    /\ EntryChanged(en, ne, k, e.owner)
    /\ InsideAt(en, k) = Inside(en[k]) /\ InsideAt(ne, k) = Inside(e)

\* An entry comes.
LEMMA LinkedAdd ==
    ASSUME NEW r, NEW d, NEW en, NEW l, Linked(r, d, en, l), NEW k \in Key, en[k] = Absent,
           NEW e \in Entry, e.kind # "ticket", e.kind = "paychan" => e.paid <= e.amount,
           \A b \in Parties(e) : r[b] # Absent,
           e.kind = "uritoken" => r[e.issuer] # Absent /\ r[e.issuer].minter
    PROVE  Comes(r, en, l, k, e, AdjustOwnerCount(r, e.owner, 1), Listed(d, Parties(e), k),
                 [en EXCEPT ![k] = e])
<1> DEFINE s == AdjustOwnerCount(r, e.owner, 1)
           ne == [en EXCEPT ![k] = e]
<1>0. r \in Roots /\ EntriesOK(en) /\ DirsOK(d, en) /\ PartiesOK(r, en, l) /\ OwnersOK(r, en, l)
      /\ l \in Lines
  BY Zenon DEF Linked
<1>1. e.owner \in Account /\ e # Absent /\ r[e.owner] # Absent /\ e \in Optional(Entry)
  BY ByKind, Zenon DEF Parties, Optional
<1>2. EntriesOK(ne) /\ ne[k] = e /\ \A j \in Key \ {k} : ne[j] = en[j]
  BY <1>0, <1>1, EntrySet
<1>3. DirsOK(Listed(d, Parties(e), k), ne)
  BY <1>0, DirsAdd, Zenon
<1>4. PartiesOK(r, ne, l)
  <2> HIDE DEF Parties
  <2> QED
    BY <1>0, <1>1, PartiesSet, Zenon
<1>5. OwnersOK(s, ne, l)
  BY <1>0, <1>1, OwnersAdd, Zenon
<1>6. s \in Roots /\ SameRoots(r, s)
  BY <1>0, <1>1, AdjustOwnerCountRoots, AdjustSame, SMTT(30)
<1> HIDE DEF s, ne
<1>7. PartiesOK(s, ne, l) /\ DropsIn(s) = DropsIn(r)
  BY <1>2, <1>4, <1>6, SameKeeps, Zenon
<1>8. InsideAt(en, k) = 0 /\ InsideAt(ne, k) = Inside(e) /\ Inside(e) \in Nat
  BY <1>1, <1>2, InsideType, Zenon DEF InsideAt
<1>9. DropsInside(en) \in Int /\ DropsInside(ne) = (DropsInside(en) - InsideAt(en, k)) + InsideAt(ne, k)
  BY <1>0, <1>2, InsideSet
<1>10. EntryChanged(en, ne, k, e.owner)
  BY <1>0, <1>2, Zenon DEF EntryChanged
<1>11. Linked(s, Listed(d, Parties(e), k), ne, l)
  BY <1>0, <1>2, <1>3, <1>5, <1>6, <1>7, Zenon DEF Linked
<1>12. DropsInside(ne) = DropsInside(en) + Inside(e)
  BY <1>8, <1>9
<1> QED
  BY <1>7, <1>8, <1>9, <1>10, <1>11, <1>12, Zenon DEF s, ne, Comes

\* An entry goes.
LEMMA LinkedRemove ==
    ASSUME NEW r, NEW d, NEW en, NEW l, Linked(r, d, en, l), NEW k \in Key, en[k] # Absent,
           en[k].kind # "ticket"
    PROVE  Goes(r, en, l, k, AdjustOwnerCount(r, en[k].owner, -1), Unlisted(d, Parties(en[k]), k),
                [en EXCEPT ![k] = Absent])
<1> DEFINE o == en[k].owner
           n == -1
           s == AdjustOwnerCount(r, o, n)
           ne == [en EXCEPT ![k] = Absent]
<1>0. r \in Roots /\ EntriesOK(en) /\ DirsOK(d, en) /\ PartiesOK(r, en, l) /\ OwnersOK(r, en, l)
      /\ l \in Lines /\ n \in Int
  BY DEF Linked
<1>1. en[k] \in Entry /\ o \in Account /\ r[o] # Absent /\ Inside(en[k]) \in Nat
  BY <1>0, InsideType, ByKind, Zenon DEF PartiesOK, Parties
<1>2. EntriesOK(ne) /\ ne[k] = Absent /\ \A j \in Key \ {k} : ne[j] = en[j]
  BY <1>0, EntrySet DEF Optional
<1>3. DirsOK(Unlisted(d, Parties(en[k]), k), ne)
  BY <1>0, DirsRemove, Zenon
<1>4. PartiesOK(r, ne, l)
  <2>1. Absent \in Optional(Entry)
    BY Zenon DEF Optional
  <2> HIDE DEF Parties
  <2> QED
    BY <1>0, <2>1, PartiesSet, Zenon
<1>5. OwnersOK(s, ne, l)
  BY <1>0, <1>1, OwnersRemove, Zenon
<1> HIDE DEF n
<1>6. s \in Roots /\ SameRoots(r, s)
  BY <1>0, <1>1, AdjustOwnerCountRoots, AdjustSame, Zenon
<1> HIDE DEF s, ne
<1>7. PartiesOK(s, ne, l) /\ DropsIn(s) = DropsIn(r)
  BY <1>2, <1>4, <1>6, SameKeeps, Zenon
<1>8. InsideAt(en, k) = Inside(en[k]) /\ InsideAt(ne, k) = 0
  BY <1>2, Zenon DEF InsideAt
<1>9. DropsInside(en) \in Int /\ DropsInside(ne) = (DropsInside(en) - InsideAt(en, k)) + InsideAt(ne, k)
  BY <1>0, <1>2, InsideSet, Zenon
<1>10. EntryChanged(en, ne, k, o)
  BY <1>0, <1>2, Zenon DEF EntryChanged
<1>11. Linked(s, Unlisted(d, Parties(en[k]), k), ne, l)
  BY <1>0, <1>2, <1>3, <1>5, <1>6, <1>7, Zenon DEF Linked
<1>12. DropsInside(ne) = DropsInside(en) - Inside(en[k])
  BY <1>1, <1>8, <1>9
<1> QED
  BY <1>7, <1>8, <1>9, <1>10, <1>11, <1>12, Zenon DEF s, ne, n, Goes

\* An entry changes and keeps its kind, its owner and its parties.
LEMMA LinkedReplace ==
    ASSUME NEW r, NEW d, NEW en, NEW l, Linked(r, d, en, l), NEW k \in Key, en[k] # Absent,
           NEW e \in Entry, e.kind = en[k].kind, e.owner = en[k].owner, Parties(e) = Parties(en[k]),
           e.kind = "paychan" => e.paid <= e.amount,
           e.kind = "uritoken" => e.issuer = en[k].issuer
    PROVE  Becomes(r, d, en, l, k, e, [en EXCEPT ![k] = e])
<1> DEFINE ne == [en EXCEPT ![k] = e]
<1>0. r \in Roots /\ EntriesOK(en) /\ DirsOK(d, en) /\ PartiesOK(r, en, l) /\ OwnersOK(r, en, l)
      /\ l \in Lines
  BY Zenon DEF Linked
<1>1. e \in Optional(Entry) /\ e # Absent
  BY ByKind, Zenon DEF Optional
<1>2. EntriesOK(ne) /\ ne[k] = e /\ \A j \in Key \ {k} : ne[j] = en[j]
  BY <1>0, <1>1, EntrySet
<1>3. DirsOK(d, ne)
  BY <1>0, DirsReplace, Zenon
<1>4. PartiesOK(r, ne, l)
  <2> HIDE DEF Parties
  <2>1. /\ \A b \in Parties(e) : r[b] # Absent
        /\ e.kind = "uritoken" => r[e.issuer] # Absent /\ r[e.issuer].minter
    BY <1>0, Zenon DEF PartiesOK
  <2> QED
    BY <1>0, <1>1, <2>1, PartiesSet, Zenon
<1>5. OwnersOK(r, ne, l)
  BY <1>0, OwnersReplace, Zenon
<1> HIDE DEF ne
<1>6. InsideAt(en, k) = Inside(en[k]) /\ InsideAt(ne, k) = Inside(e)
  BY <1>1, <1>2, Zenon DEF InsideAt
<1>7. DropsInside(en) \in Int /\ DropsInside(ne) = (DropsInside(en) - InsideAt(en, k)) + InsideAt(ne, k)
  BY <1>0, <1>2, InsideSet, Zenon
<1>8. EntryChanged(en, ne, k, e.owner)
  BY <1>0, <1>2, Zenon DEF EntryChanged
<1>9. Linked(r, d, ne, l)
  BY <1>0, <1>2, <1>3, <1>4, <1>5, Zenon DEF Linked
<1> QED
  BY <1>6, <1>7, <1>8, <1>9, Zenon DEF ne, Becomes

-----------------------------------------------------------------------------
(* Escrows and channels.                                                   *)

\* A reserve is a natural number (accountReserve).
LEMMA ReserveNat == \A n \in Nat : Reserve(n) \in Nat
  BY LedgerAssumption DEF Reserve

\* What a transaction may name.
LEMMA ModeTypes ==
    ASSUME mode \in Mode
    PROVE  /\ native \in BOOLEAN /\ mode.deadlines \subseteq Nat /\ Amount \subseteq Nat \ {0}
           /\ mode.end \in Nat /\ Limit \subseteq Nat /\ Price \subseteq Nat
  BY ModeAssumption, LedgerAssumption, Zenon DEF native

\* The account root of a while the invariant holds.
LEMMA RootAt ==
    ASSUME NEW r \in Roots, NEW a \in Account, r[a] # Absent
    PROVE  /\ r[a] \in AccountRoot /\ r[a].bal \in Nat /\ r[a].owners \in Nat
           /\ r[a].tickets \in Nat /\ r[a].minter \in BOOLEAN
  BY Zenon DEF Roots, Optional, AccountRoot

\* An escrow or a channel comes with what it holds: drops from the owner's balance,
\* or a lock on the owner's line.
LEMMA CreateStep ==
    ASSUME HInv, NEW a \in Account, root[a] # Absent, NEW k \in Key, entry[k] = Absent,
           NEW e \in Entry, e.kind \in {"escrow", "paychan"}, e.owner = a, root[e.dest] # Absent,
           NEW amt \in Amount, Inside(e) = amt, e.kind = "paychan" => e.paid <= e.amount,
           root[a].bal >= Reserve(root[a].owners + 1) + (IF native THEN amt ELSE 0),
           ~native /\ a # Issuer => CanAdjustLocked(line, a, amt, 1),
           NEW l, l = IF native \/ a = Issuer THEN line ELSE AdjustLocked(line, a, amt, 1),
           NEW x, x = IF native THEN -amt ELSE 0
    PROVE  Sound(AdjustOwnerCount(AddBalance(root, a, x), a, 1), Listed(dir, {a, e.dest}, k),
                 [entry EXCEPT ![k] = e], l)
<1> DEFINE r1 == AddBalance(root, a, x)
           r2 == AdjustOwnerCount(r1, a, 1)
           ne == [entry EXCEPT ![k] = e]
           d2 == Listed(dir, {a, e.dest}, k)
<1>0. /\ Linked(root, dir, entry, line) /\ Funded(root, entry, line) /\ mode \in Mode
      /\ root \in Roots /\ line \in Lines /\ native \in BOOLEAN /\ amt \in Nat \ {0}
  BY ModeTypes, Zenon DEF HInv, Sound, Linked
<1>1. x \in Int /\ root[a].bal + x >= 0
  <2>1. root[a].bal \in Nat /\ Reserve(root[a].owners + 1) \in Nat
    BY <1>0, RootAt, ReserveNat, SMTT(30)
  <2> QED
    BY <1>0, <2>1
<1>2. /\ Linked(r1, dir, entry, line) /\ DropsIn(root) \in Int /\ DropsIn(r1) = DropsIn(root) + x
      /\ \A b \in Account : r1[b] # Absent <=> root[b] # Absent
  BY <1>0, <1>1, LinkedBalance
<1> HIDE DEF r1
<1>3. Parties(e) = {a, e.dest} /\ Parties(e) \in SUBSET Account
  BY ByKind, Zenon DEF Parties
<1>4. \A b \in Parties(e) : r1[b] # Absent
  BY <1>2, <1>3, Zenon
<1>5. /\ Linked(r2, d2, ne, line) /\ DropsIn(r2) = DropsIn(r1)
      /\ DropsInside(entry) \in Int /\ DropsInside(ne) = DropsInside(entry) + amt
      /\ EntryChanged(entry, ne, k, a)
      /\ InsideAt(entry, k) = 0 /\ InsideAt(ne, k) = amt
  <2>1. e.kind # "ticket" /\ e.kind # "uritoken"
    BY Zenon
  <2> HIDE DEF Parties
  <2>2. Comes(r1, entry, line, k, e, AdjustOwnerCount(r1, e.owner, 1), Listed(dir, Parties(e), k), ne)
    BY <1>2, <1>4, <2>1, LinkedAdd, Zenon
  <2> HIDE DEF ne
  <2> QED
    BY <1>3, <2>2, Zenon DEF Comes
<1> HIDE DEF r2, ne, d2
<1>6. CASE native
  <2>1. l = line /\ x = -amt
    BY <1>6, Zenon
  <2>2. /\ DropsIn(root) + DropsInside(entry) = SumFunction(mode.drops)
        /\ \A b \in Account : line[b] = Absent
    BY <1>0, <1>6, Zenon DEF Funded
  <2>3. DropsIn(r2) + DropsInside(ne) = DropsIn(root) + DropsInside(entry)
    BY <1>0, <1>2, <1>5, <2>1, SMTT(30)
  <2>4. Funded(r2, ne, l)
    BY <1>6, <2>1, <2>2, <2>3, Zenon DEF Funded
  <2> QED
    BY <1>5, <2>1, <2>4, Zenon DEF Sound, r1, r2, ne, d2
<1>7. CASE ~native /\ a = Issuer
  <2>1. l = line /\ LocksOK(line, entry)
    BY <1>0, <1>7, Zenon DEF Funded
  <2>2. LocksOK(line, ne)
    BY <1>5, <1>7, <2>1, LocksOther, Zenon
  <2> QED
    BY <1>5, <1>7, <2>1, <2>2, Zenon DEF Sound, Funded, r1, r2, ne, d2
<1>8. CASE ~native /\ a # Issuer
  <2>1. l = AdjustLocked(line, a, amt, 1) /\ LocksOK(line, entry) /\ CanAdjustLocked(line, a, amt, 1)
    BY <1>0, <1>8, Zenon DEF Funded
  <2>2. l \in Lines /\ LocksOK(l, ne) /\ SameShape(line, l)
    <3>1. amt = InsideAt(ne, k) - InsideAt(entry, k) /\ amt \in Int /\ 1 \in {1, -1}
      BY <1>0, <1>5
    <3>2. 1 = -1 => InsideAt(ne, k) = 0
      OBVIOUS
    <3> QED
      BY <1>0, <1>5, <1>8, <2>1, <3>1, <3>2, AdjustLockedStep, SMTT(30)
  <2>3. Linked(r2, d2, ne, l)
    BY <1>5, <2>2, LinkedShape, Zenon
  <2> QED
    BY <1>8, <2>2, <2>3, Zenon DEF Sound, Funded, r1, r2, ne, d2
<1> QED
  BY <1>0, <1>6, <1>7, <1>8, Zenon

\* An escrow or a channel goes and what it holds returns to its owner.
LEMMA CloseStep ==
    ASSUME mode \in Mode, NEW r, NEW d, NEW en, NEW l, Sound(r, d, en, l), NEW k \in Key,
           en[k] # Absent, en[k].kind \in {"escrow", "paychan"},
           NEW o, o = en[k].owner, NEW back, back = Inside(en[k]),
           ~native /\ o # Issuer => CanAdjustLocked(l, o, -back, -1),
           NEW m, m = IF native \/ o = Issuer THEN l ELSE AdjustLocked(l, o, -back, -1)
    PROVE  Sound(AdjustOwnerCount(AddBalance(r, o, IF native THEN back ELSE 0), o, -1),
                 Unlisted(d, {o, en[k].dest}, k), [en EXCEPT ![k] = Absent], m)
<1> DEFINE x == IF native THEN back ELSE 0
           r1 == AddBalance(r, o, x)
           r2 == AdjustOwnerCount(r1, o, -1)
           ne == [en EXCEPT ![k] = Absent]
           d2 == Unlisted(d, {o, en[k].dest}, k)
<1>0. /\ Linked(r, d, en, l) /\ Funded(r, en, l) /\ r \in Roots /\ l \in Lines
      /\ EntriesOK(en) /\ PartiesOK(r, en, l) /\ native \in BOOLEAN
  BY ModeTypes, Zenon DEF Sound, Linked
<1>1. en[k] \in Entry /\ back \in Nat /\ Parties(en[k]) = {o, en[k].dest} /\ o \in Account
  BY <1>0, InsideType, ByKind, Zenon DEF Parties
<1>2. r[o] # Absent
  BY <1>0, <1>1, Zenon DEF PartiesOK
<1>3. x \in Int /\ r[o].bal + x >= 0
  <2>1. r[o].bal \in Nat
    BY <1>0, <1>1, <1>2, RootAt, Zenon
  <2> QED
    BY <1>0, <1>1, <2>1
<1>4. /\ Linked(r1, d, en, l) /\ DropsIn(r) \in Int /\ DropsIn(r1) = DropsIn(r) + x
  <2> HIDE DEF x
  <2> QED
    BY <1>0, <1>1, <1>2, <1>3, LinkedBalance, SMTT(30)
<1>5. native => x = back
  BY Zenon
<1> HIDE DEF x, r1
<1>6. /\ Linked(r2, d2, ne, l) /\ DropsIn(r2) = DropsIn(r1)
      /\ DropsInside(en) \in Int /\ DropsInside(ne) = DropsInside(en) - back
      /\ EntryChanged(en, ne, k, o)
      /\ InsideAt(en, k) = back /\ InsideAt(ne, k) = 0
  <2>1. en[k].kind # "ticket"
    BY Zenon
  <2> HIDE DEF Parties
  <2>2. Goes(r1, en, l, k, AdjustOwnerCount(r1, en[k].owner, -1), Unlisted(d, Parties(en[k]), k), ne)
    BY <1>4, <2>1, LinkedRemove, Zenon
  <2> HIDE DEF ne
  <2> QED
    BY <1>1, <2>2, Zenon DEF Goes
<1> HIDE DEF r2, ne, d2
<1>7. CASE native
  <2>1. m = l
    BY <1>7, Zenon
  <2>2. /\ DropsIn(r) + DropsInside(en) = SumFunction(mode.drops)
        /\ \A b \in Account : l[b] = Absent
    BY <1>0, <1>7, Zenon DEF Funded
  <2>3. DropsIn(r2) + DropsInside(ne) = DropsIn(r) + DropsInside(en)
    BY <1>1, <1>4, <1>5, <1>6, <1>7, SMTT(30)
  <2>4. Funded(r2, ne, m)
    BY <1>7, <2>1, <2>2, <2>3, Zenon DEF Funded
  <2> QED
    BY <1>6, <2>1, <2>4, Zenon DEF Sound, x, r1, r2, ne, d2
<1>8. CASE ~native /\ o = Issuer
  <2>1. m = l /\ LocksOK(l, en)
    BY <1>0, <1>8, Zenon DEF Funded
  <2>2. LocksOK(l, ne)
    BY <1>6, <1>8, <2>1, LocksOther, Zenon
  <2> QED
    BY <1>6, <1>8, <2>1, <2>2, Zenon DEF Sound, Funded, x, r1, r2, ne, d2
<1>9. CASE ~native /\ o # Issuer
  <2> DEFINE y == -back
             n == -1
  <2>1. m = AdjustLocked(l, o, y, n) /\ LocksOK(l, en) /\ CanAdjustLocked(l, o, y, n)
    BY <1>0, <1>9, Zenon DEF Funded
  <2>2. m \in Lines /\ LocksOK(m, ne) /\ SameShape(l, m)
    <3>1. y = InsideAt(ne, k) - InsideAt(en, k) /\ y \in Int /\ n \in {1, -1} /\ InsideAt(ne, k) = 0
      BY <1>1, <1>6
    <3> HIDE DEF y, n
    <3> QED
      BY <1>0, <1>1, <1>6, <1>9, <2>1, <3>1, AdjustLockedStep, SMTT(30)
  <2>3. Linked(r2, d2, ne, m)
    BY <1>6, <2>2, LinkedShape, Zenon
  <2> QED
    BY <1>9, <2>2, <2>3, Zenon DEF Sound, Funded, x, r1, r2, ne, d2
<1> QED
  BY <1>0, <1>7, <1>8, <1>9, Zenon


\* EscrowCreate keeps the ledger sound.
LEMMA EscrowCreateStep ==
    ASSUME HInv, NEW a \in Account, NEW dst \in Account, NEW amt \in Amount,
           NEW finish \in Optional(mode.deadlines), NEW cancel \in Optional(mode.deadlines),
           EscrowCreate(a, dst, amt, finish, cancel)
    PROVE  Sound(root', dir', entry', line')
<1> DEFINE e == [kind |-> "escrow", owner |-> a, dest |-> dst, amount |-> amt,
                 finish |-> finish, cancel |-> cancel]
           x == IF native THEN -amt ELSE 0
<1>0. mode \in Mode
  BY Zenon DEF HInv
<1>1. e \in EscrowEntry
  BY <1>0, ModeTypes, Zenon DEF EscrowEntry, Optional
<1>2. e \in Entry /\ e.kind = "escrow" /\ e.owner = a /\ e.dest = dst /\ Inside(e) = amt
  BY <1>1, Zenon DEF Entry, Inside
<1>3. PICK k \in Free : entry' = [entry EXCEPT ![k] = e] /\ dir' = Listed(dir, {a, dst}, k)
  BY Zenon DEF EscrowCreate
<1> DEFINE l == IF native \/ a = Issuer THEN line ELSE AdjustLocked(line, a, amt, 1)
<1>4. /\ root[a] # Absent /\ root[dst] # Absent
      /\ root[a].bal >= Reserve(root[a].owners + 1) + (IF native THEN amt ELSE 0)
      /\ ~native /\ a # Issuer => CanAdjustLocked(line, a, amt, 1)
      /\ line' = l
      /\ root' = AdjustOwnerCount(AddBalance(root, a, x), a, 1)
  BY Zenon DEF EscrowCreate, Exists, Locks
<1>5. k \in Key /\ entry[k] = Absent
  BY Zenon DEF Free
<1> HIDE DEF e, x, l
<1>6. Sound(AdjustOwnerCount(AddBalance(root, a, x), a, 1), Listed(dir, {a, e.dest}, k),
            [entry EXCEPT ![k] = e], l)
  BY <1>2, <1>4, <1>5, CreateStep, Zenon DEF l, x
<1> QED
  BY <1>2, <1>3, <1>4, <1>6, Zenon

\* PaymentChannelCreate keeps the ledger sound.
LEMMA PayChanCreateStep ==
    ASSUME HInv, NEW a \in Account, NEW dst \in Account, NEW amt \in Amount,
           NEW cancel \in Optional(mode.deadlines), PayChanCreate(a, dst, amt, cancel)
    PROVE  Sound(root', dir', entry', line')
<1> DEFINE e == [kind |-> "paychan", owner |-> a, dest |-> dst, amount |-> amt, paid |-> 0,
                 cancel |-> cancel, expiration |-> Absent, asked |-> Absent]
           x == IF native THEN -amt ELSE 0
<1>0. mode \in Mode
  BY Zenon DEF HInv
<1>1. e \in PayChanEntry /\ amt \in Nat
  BY <1>0, ModeTypes, Zenon DEF PayChanEntry, Optional
<1>2. /\ e \in Entry /\ e.kind = "paychan" /\ e.owner = a /\ e.dest = dst /\ Inside(e) = amt
      /\ e.paid <= e.amount
  BY <1>1 DEF Entry, Inside, Remaining
<1>3. PICK k \in Free : entry' = [entry EXCEPT ![k] = e] /\ dir' = Listed(dir, {a, dst}, k)
  BY Zenon DEF PayChanCreate
<1> DEFINE l == IF native \/ a = Issuer THEN line ELSE AdjustLocked(line, a, amt, 1)
<1>4. /\ root[a] # Absent /\ root[dst] # Absent
      /\ root[a].bal >= Reserve(root[a].owners + 1) + (IF native THEN amt ELSE 0)
      /\ ~native /\ a # Issuer => CanAdjustLocked(line, a, amt, 1)
      /\ line' = l
      /\ root' = AdjustOwnerCount(AddBalance(root, a, x), a, 1)
  BY Zenon DEF PayChanCreate, Exists
<1>5. k \in Key /\ entry[k] = Absent
  BY Zenon DEF Free
<1> HIDE DEF e, x, l
<1>6. Sound(AdjustOwnerCount(AddBalance(root, a, x), a, 1), Listed(dir, {a, e.dest}, k),
            [entry EXCEPT ![k] = e], l)
  BY <1>2, <1>4, <1>5, CreateStep, Zenon DEF l, x
<1> QED
  BY <1>2, <1>3, <1>4, <1>6, Zenon

\* EscrowCancel keeps the ledger sound.
LEMMA EscrowCancelStep ==
    ASSUME HInv, NEW a \in Account, NEW k \in Key, EscrowCancel(a, k)
    PROVE  Sound(root', dir', entry', line')
<1> DEFINE e == entry[k]
           o == e.owner
           back == e.amount
           l == IF native \/ o = Issuer THEN line ELSE AdjustLocked(line, o, -back, -1)
           x == IF native THEN back ELSE 0
<1>0. mode \in Mode /\ Sound(root, dir, entry, line)
  BY Zenon DEF HInv
<1>1. /\ e # Absent /\ e.kind = "escrow"
      /\ ~native /\ o # Issuer => CanAdjustLocked(line, o, -back, -1)
      /\ dir' = Unlisted(dir, {o, e.dest}, k)
      /\ line' = l
      /\ root' = AdjustOwnerCount(AddBalance(root, o, x), o, -1)
      /\ entry' = [entry EXCEPT ![k] = Absent]
  BY Zenon DEF EscrowCancel, Is, Locks
<1>2. back = Inside(e)
  BY <1>1, Zenon DEF Inside
<1> HIDE DEF l
<1>3. Sound(AdjustOwnerCount(AddBalance(root, o, x), o, -1), Unlisted(dir, {o, e.dest}, k),
            [entry EXCEPT ![k] = Absent], l)
  BY <1>0, <1>1, <1>2, CloseStep, Zenon DEF l
<1> QED
  BY <1>1, <1>3, Zenon

\* closeChannel, from lines and roots that a claim may have changed before.
LEMMA CloseChannelStep ==
    ASSUME mode \in Mode, NEW k \in Key, NEW e \in Entry, NEW l, NEW r, e.kind = "paychan",
           NEW en, en[k] = e, [en EXCEPT ![k] = Absent] = [entry EXCEPT ![k] = Absent],
           Sound(r, dir, en, l), CloseChannel(k, e, l, r)
    PROVE  Sound(root', dir', entry', line')
<1> DEFINE o == e.owner
           back == Remaining(e)
           m == IF native \/ o = Issuer THEN l ELSE AdjustLocked(l, o, -back, -1)
           x == IF native THEN back ELSE 0
<1>1. ~native => o # Issuer
  BY Zenon DEF CloseChannel, CanClose, CanAdjustLocked, Sound, Linked, PartiesOK
<1>2. /\ ~native /\ o # Issuer => CanAdjustLocked(l, o, -back, -1)
      /\ dir' = Unlisted(dir, {o, e.dest}, k)
      /\ line' = m
      /\ root' = AdjustOwnerCount(AddBalance(r, o, x), o, -1)
      /\ entry' = [en EXCEPT ![k] = Absent]
  BY <1>1, Zenon DEF CloseChannel, CanClose
<1>3. back = Inside(en[k]) /\ en[k] # Absent
  BY ByKind, Zenon DEF Inside
<1> HIDE DEF m, back
<1>4. Sound(AdjustOwnerCount(AddBalance(r, o, x), o, -1), Unlisted(dir, {o, e.dest}, k),
            [en EXCEPT ![k] = Absent], m)
  BY <1>2, <1>3, CloseStep, Zenon DEF m
<1> QED
  BY <1>2, <1>4, Zenon

\* EscrowFinish keeps the ledger sound, whether it moves drops or locked tokens.
LEMMA EscrowFinishStep ==
    ASSUME HInv, NEW a \in Account, NEW k \in Key, EscrowFinish(a, k)
    PROVE  Sound(root', dir', entry', line')
<1> DEFINE e == entry[k]
           ne == [entry EXCEPT ![k] = Absent]
           d2 == Unlisted(dir, {e.owner, e.dest}, k)
<1>0. /\ mode \in Mode /\ Linked(root, dir, entry, line) /\ Funded(root, entry, line)
      /\ root \in Roots /\ line \in Lines /\ EntriesOK(entry) /\ PartiesOK(root, entry, line)
      /\ DirsOK(dir, entry) /\ native \in BOOLEAN
  BY ModeTypes, Zenon DEF HInv, Sound, Linked
<1>1. /\ e # Absent /\ e.kind = "escrow" /\ root[e.dest] # Absent
      /\ dir' = d2 /\ entry' = ne
  BY Zenon DEF EscrowFinish, Is, Exists
<1>2. /\ e \in Entry /\ e \in EscrowEntry /\ Parties(e) = {e.owner, e.dest}
      /\ e.owner \in Account /\ e.dest \in Account /\ e.amount \in Nat \ {0} /\ Inside(e) = e.amount
  BY <1>0, <1>1, InsideType, ByKind, Zenon DEF EscrowEntry, Inside, Parties
<1>3. root[e.owner] # Absent /\ e.kind # "ticket"
  BY <1>0, <1>1, <1>2, Zenon DEF PartiesOK
<1>4. ASSUME NEW r, NEW l, Linked(r, dir, entry, l)
      PROVE  /\ Linked(AdjustOwnerCount(r, e.owner, -1), d2, ne, l)
             /\ DropsIn(AdjustOwnerCount(r, e.owner, -1)) = DropsIn(r)
             /\ DropsInside(entry) \in Int /\ DropsInside(ne) = DropsInside(entry) - e.amount
             /\ EntryChanged(entry, ne, k, e.owner)
             /\ InsideAt(entry, k) = e.amount /\ InsideAt(ne, k) = 0
  <2> HIDE DEF Parties
  <2>1. Goes(r, entry, l, k, AdjustOwnerCount(r, e.owner, -1), Unlisted(dir, Parties(e), k), ne)
    BY <1>1, <1>3, <1>4, LinkedRemove, Zenon
  <2> HIDE DEF ne
  <2> QED
    BY <1>2, <2>1, Zenon DEF Goes
<1> HIDE DEF ne, d2
<1>5. CASE native
  <2> DEFINE r1 == AddBalance(root, e.dest, e.amount)
             r2 == AdjustOwnerCount(r1, e.owner, -1)
  <2>1. root' = r2 /\ line' = line
    BY <1>5, Zenon DEF EscrowFinish
  <2>2. root[e.dest].bal + e.amount >= 0 /\ e.amount \in Int
    BY <1>0, <1>1, <1>2, RootAt, SMTT(30)
  <2>3. Linked(r1, dir, entry, line) /\ DropsIn(root) \in Int /\ DropsIn(r1) = DropsIn(root) + e.amount
    BY <1>0, <1>1, <1>2, <2>2, LinkedBalance, SMTT(30)
  <2> HIDE DEF r1
  <2>4. /\ Linked(r2, d2, ne, line) /\ DropsIn(r2) = DropsIn(r1)
        /\ DropsInside(entry) \in Int /\ DropsInside(ne) = DropsInside(entry) - e.amount
    BY <1>4, <2>3, Zenon
  <2> HIDE DEF r2
  <2>5. /\ DropsIn(root) + DropsInside(entry) = SumFunction(mode.drops)
        /\ \A b \in Account : line[b] = Absent
    BY <1>0, <1>5, Zenon DEF Funded
  <2>6. DropsIn(r2) + DropsInside(ne) = DropsIn(root) + DropsInside(entry)
    BY <1>2, <2>3, <2>4, SMTT(30)
  <2> QED
    BY <1>1, <1>5, <2>1, <2>4, <2>5, <2>6, Zenon DEF Sound, Funded
<1>6. CASE ~native
  <2> DEFINE n == -1
             r1 == RootsTransferred(e.owner, e.dest, e.amount, n)
             l1 == LinesTransferred(e.owner, e.dest, e.amount, n)
  <2>1. /\ root' = AdjustOwnerCount(r1, e.owner, -1) /\ line' = l1
        /\ CanTransferLocked(a, e.owner, e.dest, e.amount, n) /\ n \in {0, -1}
    BY <1>6, Zenon DEF EscrowFinish
  <2>2. TokensOK(root, entry, entry, line)
    BY <1>0, <1>6, ZenonT(60) DEF Linked, Funded, TokensOK
  <2>3. /\ EntryChanged(entry, ne, k, e.owner)
        /\ InsideAt(ne, k) = InsideAt(entry, k) - e.amount /\ InsideAt(ne, k) = 0
    BY <1>0, <1>2, <1>4, SMTT(30)
  <2> HIDE DEF n
  <2>4. TokensOK(r1, entry, ne, l1)
    BY <1>1, <1>2, <1>3, <2>1, <2>2, <2>3, TransferStep, SMTT(30)
  <2> HIDE DEF r1, l1
  <2>5. Linked(r1, dir, entry, l1) /\ LocksOK(l1, ne)
    BY <1>0, <2>4, Zenon DEF TokensOK, Linked
  <2>6. Linked(AdjustOwnerCount(r1, e.owner, -1), d2, ne, l1)
    BY <1>4, <2>5, Zenon
  <2> QED
    BY <1>1, <1>6, <2>1, <2>5, <2>6, Zenon DEF Sound, Funded
<1> QED
  BY <1>0, <1>5, <1>6, Zenon

\* Any change of Expiration leaves the rest of the channel alone.
LEMMA ExpirationType ==
    ASSUME NEW e \in PayChanEntry, NEW t \in Optional(Nat), now \in Nat
    PROVE  LET f == WithExpiration(e, t)
           IN  /\ f \in PayChanEntry /\ f.kind = e.kind /\ f.owner = e.owner /\ f.dest = e.dest
               /\ f.amount = e.amount /\ f.paid = e.paid
<1> DEFINE y == IF t = Absent THEN Absent
                ELSE IF e.expiration = Absent \/ t < e.expiration THEN now ELSE e.asked
<1>1. y \in Optional(Nat)
  BY Zenon DEF Optional, PayChanEntry
<1>2. WithExpiration(e, t) = [e EXCEPT !.expiration = t, !.asked = y]
  BY Zenon DEF WithExpiration
<1> HIDE DEF y
<1> QED
  BY <1>1, <1>2, Zenon DEF PayChanEntry

\* A close time plus the settle delay, cut to the width of a time, is a time.
LEMMA SettleType == ASSUME now \in Nat PROVE SettleExpiration \in Nat
<1>1. now + SettleDelay \in Nat /\ TimeWidth \in Nat /\ TimeWidth > 0
  BY DelayAssumption
<1>2. \A n, w \in Nat : w > 0 => n % w \in Nat
  OBVIOUS
<1> QED
  BY <1>1, <1>2, Zenon DEF SettleExpiration

\* An entry changes but not what it holds.
LEMMA ReplaceSame ==
    ASSUME NEW r, NEW d, NEW en, NEW l, Sound(r, d, en, l), NEW k \in Key, en[k] # Absent,
           NEW e \in Entry, e.kind = en[k].kind, e.owner = en[k].owner, Parties(e) = Parties(en[k]),
           e.kind = "paychan" => e.paid <= e.amount,
           e.kind = "uritoken" => e.issuer = en[k].issuer, Inside(e) = Inside(en[k])
    PROVE  Sound(r, d, [en EXCEPT ![k] = e], l)
<1> DEFINE ne == [en EXCEPT ![k] = e]
<1>1. Linked(r, d, en, l) /\ Funded(r, en, l) /\ EntriesOK(en)
  BY Zenon DEF Sound, Linked
<1>2. Becomes(r, d, en, l, k, e, ne)
  <2> HIDE DEF Parties
  <2> QED
    BY <1>1, LinkedReplace, Zenon
<1> HIDE DEF ne
<1>3. Inside(en[k]) \in Nat
  BY <1>1, InsideType, ZenonT(60)
<1>4. /\ Linked(r, d, ne, l) /\ DropsInside(ne) = DropsInside(en)
      /\ EntryChanged(en, ne, k, e.owner) /\ InsideAt(ne, k) = InsideAt(en, k)
  BY <1>2, <1>3 DEF Becomes
<1>5. LocksOK(l, en) => LocksOK(l, ne)
  BY <1>4, LocksOther, Zenon
<1> QED
  BY <1>1, <1>4, <1>5, Zenon DEF Sound, Funded, ne

\* The channel with key k.
LEMMA ChannelAt ==
    ASSUME NEW en, EntriesOK(en), NEW k \in Key, en[k] # Absent, en[k].kind = "paychan"
    PROVE  /\ en[k] \in PayChanEntry /\ en[k] \in Entry /\ en[k].paid <= en[k].amount
           /\ Parties(en[k]) = {en[k].owner, en[k].dest}
           /\ en[k].owner \in Account /\ en[k].dest \in Account
           /\ en[k].amount \in Nat /\ en[k].paid \in Nat
           /\ Inside(en[k]) = en[k].amount - en[k].paid
<1>1. en[k] \in Entry
  BY Zenon DEF EntriesOK, Optional
<1>2. en[k] \in PayChanEntry
  BY <1>1, ByKind, Zenon
<1> QED
  BY <1>1, <1>2, Zenon DEF EntriesOK, PayChanEntry, Inside, Remaining, Parties

\* PaymentChannelFund keeps the ledger sound.
LEMMA FundStep ==
    ASSUME HInv, NEW a \in Account, NEW k \in Key, NEW amt \in Amount,
           NEW extend \in Optional(mode.deadlines), Fund(a, k, amt, extend)
    PROVE  Sound(root', dir', entry', line')
<1> DEFINE e == entry[k]
           f == IF extend = Absent THEN e ELSE WithExpiration(e, extend)
           g == [f EXCEPT !.amount = @ + amt]
           ne == [entry EXCEPT ![k] = g]
           x == IF native THEN -amt ELSE 0
           r1 == AddBalance(root, a, x)
<1>0. /\ mode \in Mode /\ Linked(root, dir, entry, line) /\ Funded(root, entry, line)
      /\ root \in Roots /\ line \in Lines /\ EntriesOK(entry) /\ now \in Nat
      /\ native \in BOOLEAN /\ amt \in Nat \ {0} /\ extend \in Optional(Nat)
  BY ModeTypes DEF HInv, Sound, Linked, Optional
<1>1. /\ e # Absent /\ e.kind = "paychan" /\ a = e.owner /\ root[a] # Absent
      /\ ~native /\ a # Issuer => CanAdjustLocked(line, a, amt, 1)
      /\ root[a].bal >= Reserve(root[a].owners) + (IF native THEN amt ELSE 0)
      /\ root' = r1 /\ dir' = dir /\ entry' = ne
      /\ line' = IF native \/ a = Issuer THEN line ELSE AdjustLocked(line, a, amt, 1)
  BY Zenon DEF Fund, Is, Exists, FundLocks
<1>2. /\ e \in PayChanEntry /\ e \in Entry /\ e.paid <= e.amount /\ Parties(e) = {a, e.dest}
      /\ e.amount \in Nat /\ e.paid \in Nat /\ Inside(e) = e.amount - e.paid
  BY <1>0, <1>1, ChannelAt, Zenon
<1>3. /\ f \in PayChanEntry /\ f.kind = "paychan" /\ f.owner = a /\ f.dest = e.dest
      /\ f.amount = e.amount /\ f.paid = e.paid
  BY <1>0, <1>1, <1>2, ExpirationType, Zenon
<1> HIDE DEF f
<1>4. /\ g \in PayChanEntry /\ g.kind = "paychan" /\ g.owner = a /\ g.dest = e.dest
      /\ g.amount = e.amount + amt /\ g.paid = e.paid
  BY <1>0, <1>2, <1>3, SMTT(30) DEF PayChanEntry
<1> HIDE DEF g
<1>5. g \in Entry /\ Parties(g) = Parties(e) /\ g.paid <= g.amount /\ Inside(g) = Inside(e) + amt
  <2>1. g \in Entry /\ Parties(g) = {a, e.dest}
    BY <1>4, Zenon DEF Entry, Parties
  <2>2. Inside(g) = (e.amount + amt) - e.paid
    BY <1>4, Zenon DEF Inside, Remaining
  <2> QED
    BY <1>0, <1>2, <1>4, <2>1, <2>2, SMTT(30)
<1>6. x \in Int /\ root[a].bal + x >= 0
  <2>1. root[a].bal \in Nat /\ Reserve(root[a].owners) \in Nat
    BY <1>0, <1>1, RootAt, ReserveNat, Zenon
  <2> QED
    BY <1>0, <1>1, <2>1, SMTT(30)
<1>7. native => x = -amt
  BY Zenon
<1> HIDE DEF x
<1>8. Linked(r1, dir, entry, line) /\ DropsIn(root) \in Int /\ DropsIn(r1) = DropsIn(root) + x
  BY <1>0, <1>1, <1>6, LinkedBalance, SMTT(30)
<1> HIDE DEF r1
<1>9. Becomes(r1, dir, entry, line, k, g, ne)
  <2> HIDE DEF Parties
  <2>1. g.kind = entry[k].kind /\ g.owner = entry[k].owner /\ g.kind # "uritoken"
    BY <1>1, <1>4, Zenon
  <2> QED
    BY <1>1, <1>5, <1>8, <2>1, LinkedReplace, Zenon
<1> HIDE DEF ne
<1>10. /\ Linked(r1, dir, ne, line) /\ DropsInside(entry) \in Int
       /\ DropsInside(ne) = DropsInside(entry) + amt
       /\ EntryChanged(entry, ne, k, a)
       /\ InsideAt(entry, k) = Inside(e) /\ InsideAt(ne, k) = Inside(e) + amt
  <2>1. /\ Linked(r1, dir, ne, line) /\ DropsInside(entry) \in Int /\ EntryChanged(entry, ne, k, a)
        /\ DropsInside(ne) = (DropsInside(entry) - Inside(e)) + Inside(g)
        /\ InsideAt(entry, k) = Inside(e) /\ InsideAt(ne, k) = Inside(g)
    BY <1>4, <1>9, Zenon DEF Becomes
  <2>2. Inside(e) \in Int /\ amt \in Int
    BY <1>0, <1>2, SMTT(30)
  <2>3. \A s, i, j \in Int : (s - i) + (i + j) = s + j
    OBVIOUS
  <2>4. DropsInside(ne) = DropsInside(entry) + amt
    <3>1. DropsInside(entry) \in Int
      BY <2>1, Zenon
    <3>2. (DropsInside(entry) - Inside(e)) + (Inside(e) + amt) = DropsInside(entry) + amt
      BY <2>2, <2>3, <3>1, Zenon
    <3>3. DropsInside(ne) = (DropsInside(entry) - Inside(e)) + Inside(g) /\ Inside(g) = Inside(e) + amt
      BY <1>5, <2>1, Zenon
    <3> QED
      BY <3>2, <3>3, Zenon
  <2> QED
    BY <1>5, <2>1, <2>4, Zenon
<1>11. CASE native
  <2>1. /\ DropsIn(root) + DropsInside(entry) = SumFunction(mode.drops)
        /\ \A b \in Account : line[b] = Absent
    BY <1>0, <1>11, Zenon DEF Funded
  <2>2. DropsIn(r1) + DropsInside(ne) = DropsIn(root) + DropsInside(entry)
    BY <1>0, <1>7, <1>8, <1>10, <1>11, SMTT(30)
  <2> QED
    BY <1>1, <1>10, <1>11, <2>1, <2>2, Zenon DEF Sound, Funded
<1>12. CASE ~native /\ a = Issuer
  <2>1. LocksOK(line, ne)
    BY <1>0, <1>10, <1>12, LocksOther, Zenon DEF Funded
  <2> QED
    BY <1>1, <1>10, <1>12, <2>1, Zenon DEF Sound, Funded
<1>13. CASE ~native /\ a # Issuer
  <2> DEFINE l == AdjustLocked(line, a, amt, 1)
  <2>1. l \in Lines /\ LocksOK(l, ne) /\ SameShape(line, l)
    <3>1. amt = InsideAt(ne, k) - InsideAt(entry, k) /\ amt \in Int /\ 1 \in {1, -1}
      BY <1>0, <1>2, <1>10, SMTT(30)
    <3>2. 1 = -1 => InsideAt(ne, k) = 0
      OBVIOUS
    <3> QED
      BY <1>0, <1>1, <1>10, <1>13, <3>1, <3>2, AdjustLockedStep, Zenon DEF Funded
  <2>2. Linked(r1, dir, ne, l)
    BY <1>10, <2>1, LinkedShape, Zenon
  <2> QED
    BY <1>1, <1>13, <2>1, <2>2, Zenon DEF Sound, Funded
<1> QED
  BY <1>0, <1>11, <1>12, <1>13, Zenon

\* Closing an expired channel keeps the ledger sound (closeChannel).
LEMMA ClosedStep ==
    ASSUME HInv, NEW k \in Key, Is(k, "paychan"), CloseChannel(k, entry[k], line, root)
    PROVE  Sound(root', dir', entry', line')
<1>1. mode \in Mode /\ Sound(root, dir, entry, line) /\ EntriesOK(entry)
  BY Zenon DEF HInv, Sound, Linked
<1>2. entry[k] \in Entry /\ entry[k].kind = "paychan"
  BY <1>1, ChannelAt, Zenon DEF Is
<1> QED
  BY <1>1, <1>2, CloseChannelStep, Zenon

\* What a claim pays has left the channel, the owner's lock and the owner's line, or
\* is in the recipient's balance.
LEMMA ClaimPaid ==
    ASSUME HInv, NEW a, NEW k \in Key, NEW req \in Amount, Is(k, "paychan"),
           entry[k].paid < req, req <= entry[k].amount, root[entry[k].dest] # Absent,
           ~native => CanTransferLocked(a, entry[k].owner, entry[k].dest, req - entry[k].paid, 0),
           NEW l, l = IF ~native THEN LinesTransferred(entry[k].owner, entry[k].dest, req - entry[k].paid, 0)
                      ELSE line,
           NEW r, r = IF native THEN AddBalance(root, entry[k].dest, req - entry[k].paid)
                      ELSE RootsTransferred(entry[k].owner, entry[k].dest, req - entry[k].paid, 0)
    PROVE  Sound(r, dir, [entry EXCEPT ![k] = [entry[k] EXCEPT !.paid = req]], l)
<1> DEFINE e == entry[k]
           delta == req - e.paid
           f == [e EXCEPT !.paid = req]
           ne == [entry EXCEPT ![k] = f]
<1>0. /\ mode \in Mode /\ Linked(root, dir, entry, line) /\ Funded(root, entry, line)
      /\ root \in Roots /\ line \in Lines /\ EntriesOK(entry) /\ DirsOK(dir, entry)
      /\ PartiesOK(root, entry, line) /\ native \in BOOLEAN /\ req \in Nat
  BY ModeTypes, Zenon DEF HInv, Sound, Linked
<1>1. e # Absent /\ e.kind = "paychan"
  BY Zenon DEF Is
<1>2. /\ e \in PayChanEntry /\ e \in Entry /\ e.paid <= e.amount /\ Parties(e) = {e.owner, e.dest}
      /\ e.amount \in Nat /\ e.paid \in Nat /\ Inside(e) = e.amount - e.paid
      /\ e.owner \in Account /\ e.dest \in Account
  BY <1>0, <1>1, ChannelAt, Zenon
<1>3. root[e.owner] # Absent
  BY <1>0, <1>1, <1>2, ZenonT(60) DEF PartiesOK
<1>4. delta \in Nat \ {0} /\ delta \in Int
  BY <1>0, <1>2
<1>5. /\ f \in PayChanEntry /\ f.kind = "paychan" /\ f.owner = e.owner /\ f.dest = e.dest
      /\ f.amount = e.amount /\ f.paid = req
  BY <1>0, <1>1, <1>2, ZenonT(60) DEF PayChanEntry
<1> HIDE DEF f
<1>6. f \in Entry /\ Parties(f) = Parties(e) /\ f.paid <= f.amount /\ Inside(f) = Inside(e) - delta
  <2>1. f \in Entry /\ Parties(f) = {e.owner, e.dest}
    BY <1>5, Zenon DEF Entry, Parties
  <2>2. Inside(f) = e.amount - req
    BY <1>5, Zenon DEF Inside, Remaining
  <2> QED
    BY <1>0, <1>2, <1>5, <2>1, <2>2, SMTT(30)
<1>7. ASSUME NEW q, NEW m, Linked(q, dir, entry, m)
      PROVE  /\ Linked(q, dir, ne, m) /\ DropsInside(entry) \in Int
             /\ DropsInside(ne) = DropsInside(entry) - delta
             /\ EntryChanged(entry, ne, k, e.owner)
             /\ InsideAt(ne, k) = InsideAt(entry, k) - delta
  <2> HIDE DEF Parties
  <2>1. f.kind = entry[k].kind /\ f.owner = entry[k].owner /\ f.kind # "uritoken"
    BY <1>1, <1>5, Zenon
  <2>2. Becomes(q, dir, entry, m, k, f, ne)
    BY <1>1, <1>6, <1>7, <2>1, LinkedReplace, Zenon
  <2> HIDE DEF ne
  <2>3. /\ Linked(q, dir, ne, m) /\ DropsInside(entry) \in Int /\ EntryChanged(entry, ne, k, e.owner)
        /\ DropsInside(ne) = (DropsInside(entry) - Inside(e)) + Inside(f)
        /\ InsideAt(entry, k) = Inside(e) /\ InsideAt(ne, k) = Inside(f)
    BY <1>5, <2>2, Zenon DEF Becomes
  <2>4. \A x, y \in Nat : x - y \in Int
    OBVIOUS
  <2>5. \A s, i, j \in Int : (s - i) + (i - j) = s - j
    OBVIOUS
  <2>6. Inside(e) \in Int /\ Inside(f) = Inside(e) - delta
    BY <1>2, <1>6, <2>4, Zenon
  <2>7. DropsInside(ne) = DropsInside(entry) - delta
    <3>1. DropsInside(entry) \in Int /\ Inside(e) \in Int /\ delta \in Int
      BY <1>4, <2>3, <2>6, Zenon
    <3>2. (DropsInside(entry) - Inside(e)) + (Inside(e) - delta) = DropsInside(entry) - delta
      BY <2>5, <3>1, Zenon
    <3>3. DropsInside(ne) = (DropsInside(entry) - Inside(e)) + Inside(f) /\ Inside(f) = Inside(e) - delta
      BY <2>3, <2>6, Zenon
    <3> QED
      BY <3>2, <3>3, Zenon
  <2> QED
    BY <2>3, <2>6, <2>7, Zenon
<1>8. ne = [entry EXCEPT ![k] = [entry[k] EXCEPT !.paid = req]]
  BY Zenon DEF f
<1> HIDE DEF ne
<1>9. CASE native
  <2>1. l = line /\ r = AddBalance(root, e.dest, delta)
    BY <1>9, Zenon
  <2>2. root[e.dest].bal + delta >= 0
    BY <1>0, <1>2, <1>4, RootAt, SMTT(30)
  <2>3. Linked(r, dir, entry, line) /\ DropsIn(root) \in Int /\ DropsIn(r) = DropsIn(root) + delta
    <3>1. /\ Linked(root, dir, entry, line) /\ e.dest \in Account /\ root[e.dest] # Absent
          /\ delta \in Int
      BY <1>0, <1>2, <1>4, Zenon
    <3> HIDE DEF delta, e
    <3>2. /\ Linked(AddBalance(root, e.dest, delta), dir, entry, line) /\ DropsIn(root) \in Int
          /\ DropsIn(AddBalance(root, e.dest, delta)) = DropsIn(root) + delta
      BY <2>2, <3>1, LinkedBalance, ZenonT(60)
    <3> QED
      BY <2>1, <3>2, Zenon
  <2>4. Linked(r, dir, ne, line) /\ DropsInside(entry) \in Int /\ DropsInside(ne) = DropsInside(entry) - delta
    BY <1>7, <2>3, Zenon
  <2>5. /\ DropsIn(root) + DropsInside(entry) = SumFunction(mode.drops)
        /\ \A b \in Account : line[b] = Absent
    BY <1>0, <1>9, Zenon DEF Funded
  <2>6. DropsIn(r) + DropsInside(ne) = DropsIn(root) + DropsInside(entry)
    BY <1>4, <2>3, <2>4, SMTT(30)
  <2>7. Sound(r, dir, ne, l)
    BY <1>9, <2>1, <2>4, <2>5, <2>6, Zenon DEF Sound, Funded
  <2> QED
    BY <1>8, <2>7, Zenon
<1>10. CASE ~native
  <2>1. /\ l = LinesTransferred(e.owner, e.dest, delta, 0)
        /\ r = RootsTransferred(e.owner, e.dest, delta, 0)
        /\ CanTransferLocked(a, e.owner, e.dest, delta, 0)
    BY <1>10, Zenon
  <2>2. TokensOK(root, entry, entry, line)
    BY <1>0, <1>10, Zenon DEF Linked, Funded, TokensOK
  <2>3. /\ EntryChanged(entry, ne, k, e.owner)
        /\ InsideAt(ne, k) = InsideAt(entry, k) - delta
    BY <1>0, <1>7, ZenonT(60)
  <2>4. TokensOK(r, entry, ne, l)
    <3>1. 0 \in {0, -1} /\ 0 # -1
      OBVIOUS
    <3> HIDE DEF delta
    <3> QED
      BY <1>1, <1>2, <1>3, <1>4, <2>1, <2>2, <2>3, <3>1, TransferStep, SMTT(30)
  <2>5. Linked(r, dir, entry, l) /\ LocksOK(l, ne)
    BY <1>0, <2>4, Zenon DEF TokensOK, Linked
  <2>6. Linked(r, dir, ne, l)
    BY <1>7, <2>5, Zenon
  <2>7. Sound(r, dir, ne, l)
    BY <1>10, <2>5, <2>6, Zenon DEF Sound, Funded
  <2> QED
    BY <1>8, <2>7, Zenon
<1> QED
  BY <1>0, <1>9, <1>10, Zenon

\* Renewed changes the Expiration at most.
LEMMA RenewedType ==
    ASSUME NEW e \in PayChanEntry, now \in Nat, NEW flag
    PROVE  LET f == Renewed(e, flag)
           IN  /\ f \in PayChanEntry /\ f.kind = e.kind /\ f.owner = e.owner /\ f.dest = e.dest
               /\ f.amount = e.amount /\ f.paid = e.paid
<1>1. Absent \in Optional(Nat) /\ SettleExpiration \in Optional(Nat)
  BY SettleType, Zenon DEF Optional
<1>2. \/ Renewed(e, flag) = WithExpiration(e, Absent)
      \/ Renewed(e, flag) = WithExpiration(e, SettleExpiration)
      \/ Renewed(e, flag) = e
  BY Zenon DEF Renewed
<1> QED
  BY <1>1, <1>2, ExpirationType, SMTT(30)

\* PaymentChannelClaim keeps the ledger sound, whatever it pays, renews or closes.
LEMMA ClaimStep ==
    ASSUME HInv, NEW a \in Account, NEW k \in Key, NEW req \in Optional(Amount), NEW flag,
           Claim(a, k, req, flag)
    PROVE  Sound(root', dir', entry', line')
<1> DEFINE e == entry[k]
           pays == req # Absent
           delta == req - e.paid
           claimed == IF pays THEN [e EXCEPT !.paid = req] ELSE e
           ne == [entry EXCEPT ![k] = claimed]
           l == IF pays /\ ~native THEN LinesTransferred(e.owner, e.dest, delta, 0) ELSE line
           r == IF ~pays THEN root
                ELSE IF native THEN AddBalance(root, e.dest, delta)
                ELSE RootsTransferred(e.owner, e.dest, delta, 0)
           closes == flag = "close" /\ (a = e.dest \/ claimed.paid = claimed.amount)
<1>0. /\ mode \in Mode /\ Sound(root, dir, entry, line) /\ EntriesOK(entry) /\ now \in Nat
      /\ entry \in [Key -> Optional(Entry)]
  BY ModeTypes DEF HInv, Sound, Linked, EntriesOK
<1>1. /\ Is(k, "paychan") /\ e # Absent /\ e.kind = "paychan"
      /\ pays => /\ e.paid < req /\ req <= e.amount /\ root[e.dest] # Absent
                 /\ ~native => CanTransferLocked(a, e.owner, e.dest, delta, 0)
      /\ closes => CloseChannel(k, claimed, l, r)
      /\ ~closes => /\ entry' = [entry EXCEPT ![k] = Renewed(claimed, flag)]
                    /\ line' = l /\ root' = r /\ dir' = dir
  BY Zenon DEF Claim, Is, Exists
<1>2. e \in PayChanEntry /\ e \in Entry /\ e.paid \in Nat /\ e.amount \in Nat /\ e.paid <= e.amount
  BY <1>0, <1>1, ChannelAt, Zenon
<1>3. /\ claimed \in PayChanEntry /\ claimed.kind = "paychan" /\ claimed.owner = e.owner
      /\ claimed.dest = e.dest /\ claimed.amount = e.amount /\ claimed.paid <= claimed.amount
  <2>1. CASE pays
    <3>1. req \in Nat
      BY <1>0, <2>1, ModeTypes, Zenon DEF Optional
    <3> QED
      BY <1>1, <1>2, <2>1, <3>1, Zenon DEF PayChanEntry
  <2>2. CASE ~pays
    BY <1>1, <1>2, <2>2, Zenon
  <2> QED
    BY <2>1, <2>2, Zenon
<1>4. Sound(r, dir, ne, l)
  <2>1. CASE pays
    <3>1. req \in Amount
      BY <2>1, Zenon DEF Optional
    <3>2. /\ l = IF ~native THEN LinesTransferred(e.owner, e.dest, delta, 0) ELSE line
          /\ r = IF native THEN AddBalance(root, e.dest, delta)
                 ELSE RootsTransferred(e.owner, e.dest, delta, 0)
          /\ ne = [entry EXCEPT ![k] = [e EXCEPT !.paid = req]]
      BY <2>1, Zenon
    <3> HIDE DEF l, r, ne
    <3>3. Sound(r, dir, [entry EXCEPT ![k] = [entry[k] EXCEPT !.paid = req]], l)
      BY <1>1, <2>1, <3>1, <3>2, ClaimPaid, Zenon
    <3> QED
      BY <3>2, <3>3, Zenon
  <2>2. CASE ~pays
    <3>1. ne = entry /\ r = root /\ l = line
      BY <1>0, <2>2, Zenon
    <3> QED
      BY <1>0, <3>1, Zenon
  <2> QED
    BY <2>1, <2>2, Zenon
<1>5. ne[k] = claimed /\ \A q : [ne EXCEPT ![k] = q] = [entry EXCEPT ![k] = q]
  BY <1>0, Zenon
<1> HIDE DEF ne, l, r, claimed
<1>6. claimed \in Entry
  BY <1>3, Zenon DEF Entry
<1>7. CASE closes
  BY <1>0, <1>1, <1>3, <1>4, <1>5, <1>6, <1>7, CloseChannelStep, Zenon
<1>8. CASE ~closes
  <2> DEFINE f == Renewed(claimed, flag)
  <2>1. /\ f \in PayChanEntry /\ f.kind = "paychan" /\ f.owner = claimed.owner /\ f.dest = claimed.dest
        /\ f.amount = claimed.amount /\ f.paid = claimed.paid
    BY <1>0, <1>3, RenewedType, Zenon
  <2> HIDE DEF f
  <2>2. f \in Entry /\ Parties(f) = Parties(claimed) /\ Inside(f) = Inside(claimed) /\ f.kind # "uritoken"
    BY <1>3, <2>1, Zenon DEF Entry, Parties, Inside, Remaining
  <2>3. ne[k] # Absent
    BY <1>5, <1>6, ByKind, Zenon
  <2>4. Sound(r, dir, [ne EXCEPT ![k] = f], l)
    <3> HIDE DEF Parties
    <3> QED
      BY <1>3, <1>4, <1>5, <2>1, <2>2, <2>3, ReplaceSame, Zenon
  <2> QED
    BY <1>1, <1>5, <1>8, <2>4, Zenon DEF f
<1> QED
  BY <1>7, <1>8, Zenon

-----------------------------------------------------------------------------
(* Checks and URI tokens hold nothing.                                     *)

\* What is held stays where it was.
LEMMA FundedKept ==
    ASSUME NEW r, NEW s, NEW en, NEW ne, NEW l, Funded(r, en, l), NEW k \in Key, NEW a,
           EntryChanged(en, ne, k, a), InsideAt(ne, k) = InsideAt(en, k),
           DropsIn(s) = DropsIn(r), DropsInside(ne) = DropsInside(en)
    PROVE  Funded(s, ne, l)
<1>1. LocksOK(l, en) => LocksOK(l, ne)
  BY LocksOther, Zenon
<1> QED
  BY <1>1, Zenon DEF Funded

\* An entry that holds nothing comes.
LEMMA EmptyComes ==
    ASSUME NEW r, NEW d, NEW en, NEW l, Sound(r, d, en, l), NEW k \in Key, en[k] = Absent,
           NEW e \in Entry, e.kind \in {"check", "uritoken"},
           \A b \in Parties(e) : r[b] # Absent,
           e.kind = "uritoken" => r[e.issuer] # Absent /\ r[e.issuer].minter
    PROVE  Sound(AdjustOwnerCount(r, e.owner, 1), Listed(d, Parties(e), k), [en EXCEPT ![k] = e], l)
<1> DEFINE s == AdjustOwnerCount(r, e.owner, 1)
           nd == Listed(d, Parties(e), k)
           ne == [en EXCEPT ![k] = e]
<1>1. Linked(r, d, en, l) /\ Funded(r, en, l) /\ Inside(e) = 0
  BY Zenon DEF Sound, Inside
<1>2. Comes(r, en, l, k, e, s, nd, ne)
  <2>1. e.kind # "ticket" /\ e.kind # "paychan"
    BY Zenon
  <2> HIDE DEF Parties
  <2> QED
    BY <1>1, <2>1, LinkedAdd, Zenon
<1> HIDE DEF s, nd, ne
<1>3. /\ Linked(s, nd, ne, l) /\ DropsIn(s) = DropsIn(r) /\ DropsInside(ne) = DropsInside(en)
      /\ EntryChanged(en, ne, k, e.owner) /\ InsideAt(ne, k) = InsideAt(en, k)
  BY <1>1, <1>2 DEF Comes
<1>4. Funded(s, ne, l)
  BY <1>1, <1>3, FundedKept, Zenon
<1> QED
  BY <1>3, <1>4, Zenon DEF Sound, s, nd, ne

\* An entry that holds nothing goes.
LEMMA EmptyGoes ==
    ASSUME NEW r, NEW d, NEW en, NEW l, Sound(r, d, en, l), NEW k \in Key, en[k] # Absent,
           en[k].kind \in {"check", "uritoken"}
    PROVE  Sound(AdjustOwnerCount(r, en[k].owner, -1), Unlisted(d, Parties(en[k]), k),
                 [en EXCEPT ![k] = Absent], l)
<1> DEFINE s == AdjustOwnerCount(r, en[k].owner, -1)
           nd == Unlisted(d, Parties(en[k]), k)
           ne == [en EXCEPT ![k] = Absent]
<1>1. Linked(r, d, en, l) /\ Funded(r, en, l) /\ Inside(en[k]) = 0
  BY Zenon DEF Sound, Inside
<1>2. Goes(r, en, l, k, s, nd, ne)
  <2>1. en[k].kind # "ticket"
    BY Zenon
  <2> HIDE DEF Parties
  <2> QED
    BY <1>1, <2>1, LinkedRemove, Zenon
<1> HIDE DEF s, nd, ne
<1>3. /\ Linked(s, nd, ne, l) /\ DropsIn(s) = DropsIn(r) /\ DropsInside(ne) = DropsInside(en)
      /\ EntryChanged(en, ne, k, en[k].owner) /\ InsideAt(ne, k) = InsideAt(en, k)
  BY <1>1, <1>2 DEF Goes
<1>4. Funded(s, ne, l)
  BY <1>1, <1>3, FundedKept, Zenon
<1> QED
  BY <1>3, <1>4, Zenon DEF Sound, s, nd, ne

\* One account pays another in drops.
LEMMA DropsMove ==
    ASSUME NEW r, NEW d, NEW en, NEW l, Sound(r, d, en, l), NEW a \in Account, NEW b \in Account,
           r[a] # Absent, r[b] # Absent, NEW amt \in Nat, amt <= r[a].bal
    PROVE  /\ Sound(AddBalance(AddBalance(r, a, -amt), b, amt), d, en, l)
           /\ \A c \in Account : AddBalance(AddBalance(r, a, -amt), b, amt)[c] # Absent <=> r[c] # Absent
<1> DEFINE x == -amt
           s == AddBalance(r, a, x)
           t == AddBalance(s, b, amt)
<1>1. Linked(r, d, en, l) /\ Funded(r, en, l) /\ r \in Roots
  BY Zenon DEF Sound, Linked
<1>2. x \in Int /\ r[a].bal + x >= 0 /\ amt \in Int
  BY <1>1, RootAt, SMTT(30)
<1>3. x + amt = 0
  BY SMTT(30)
<1> HIDE DEF x
<1>4. /\ Linked(s, d, en, l) /\ DropsIn(r) \in Int /\ DropsIn(s) = DropsIn(r) + x
      /\ \A c \in Account : s[c] # Absent <=> r[c] # Absent
  BY <1>1, <1>2, LinkedBalance, SMTT(30)
<1>5. s \in Roots /\ s[b] # Absent
  BY <1>4, Zenon DEF Linked
<1> HIDE DEF s
<1>6. s[b].bal + amt >= 0
  BY <1>5, RootAt, SMTT(30)
<1>7. /\ Linked(t, d, en, l) /\ DropsIn(t) = DropsIn(s) + amt
      /\ \A c \in Account : t[c] # Absent <=> s[c] # Absent
  BY <1>2, <1>4, <1>5, <1>6, LinkedBalance, SMTT(30)
<1> HIDE DEF t
<1>8. DropsIn(t) = DropsIn(r)
  BY <1>2, <1>3, <1>4, <1>7, SMTT(30)
<1>9. Sound(t, d, en, l)
  BY <1>1, <1>7, <1>8, Zenon DEF Sound, Funded
<1> QED
  BY <1>4, <1>7, <1>9, Zenon DEF t, s, x

\* CheckCreate keeps the ledger sound.
LEMMA CheckCreateStep ==
    ASSUME HInv, NEW a \in Account, NEW dst \in Account, NEW amt \in Amount,
           NEW expiration \in Optional(mode.deadlines), CheckCreate(a, dst, amt, expiration)
    PROVE  Sound(root', dir', entry', line')
<1> DEFINE e == [kind |-> "check", owner |-> a, dest |-> dst, amount |-> amt,
                 expiration |-> expiration]
<1>0. mode \in Mode /\ Sound(root, dir, entry, line)
  BY Zenon DEF HInv
<1>1. e \in CheckEntry
  BY <1>0, ModeTypes, Zenon DEF CheckEntry, Optional
<1>2. e \in Entry /\ e.kind = "check" /\ e.owner = a /\ Parties(e) = {a, dst}
  BY <1>1, Zenon DEF Entry, Parties
<1>3. PICK k \in Free : entry' = [entry EXCEPT ![k] = e] /\ dir' = Listed(dir, {a, dst}, k)
  BY Zenon DEF CheckCreate
<1>4. /\ root[a] # Absent /\ root[dst] # Absent /\ line' = line
      /\ root' = AdjustOwnerCount(root, a, 1)
  BY Zenon DEF CheckCreate, Exists
<1>5. k \in Key /\ entry[k] = Absent
  BY Zenon DEF Free
<1> HIDE DEF e
<1>6. \A b \in Parties(e) : root[b] # Absent
  BY <1>2, <1>4, Zenon
<1>7. Sound(AdjustOwnerCount(root, e.owner, 1), Listed(dir, Parties(e), k), [entry EXCEPT ![k] = e], line)
  <2>1. e.kind \in {"check", "uritoken"} /\ e.kind # "uritoken"
    BY <1>2, Zenon
  <2> HIDE DEF Parties
  <2> QED
    BY <1>0, <1>2, <1>5, <1>6, <2>1, EmptyComes, Zenon
<1> QED
  BY <1>2, <1>3, <1>4, <1>7, Zenon

\* The greater and the smaller of two numbers.
LEMMA OfTwo ==
    ASSUME NEW x \in Int, NEW y \in Int
    PROVE  Max({x, y}) \in {x, y} /\ Min({x, y}) \in {x, y}
<1>1. \E z \in {x, y} : \A w \in {x, y} : z >= w
  OBVIOUS
<1>2. \E z \in {x, y} : \A w \in {x, y} : z <= w
  OBVIOUS
<1> QED
  BY <1>1, <1>2, Zenon DEF Max, Min

\* A check pays out a natural number of drops that its writer has.
LEMMA DeliveredType ==
    ASSUME root \in Roots, NEW e \in CheckEntry, root[e.owner] # Absent, NEW value \in Nat,
           NEW atLeast, Delivered(e, value, atLeast) <= Liquid(e.owner, -1)
    PROVE  Delivered(e, value, atLeast) \in Nat /\ Delivered(e, value, atLeast) <= root[e.owner].bal
<1> DEFINE n == -1
           liquid == Liquid(e.owner, n)
<1>1. /\ e.owner \in Account /\ e.amount \in Nat
      /\ root[e.owner].bal \in Nat /\ root[e.owner].owners \in Nat /\ n \in Int
  BY RootAt DEF CheckEntry
<1>2. Reserve(Confined(root[e.owner].owners + n)) \in Nat
  BY <1>1, ReserveNat, SMTT(30) DEF Confined
<1>3. liquid \in Nat /\ liquid <= root[e.owner].bal
  BY <1>1, <1>2, SMTT(30) DEF Liquid
<1>4. Delivered(e, value, atLeast) = IF atLeast THEN Max({value, Min({e.amount, liquid})}) ELSE value
  BY Zenon DEF Delivered
<1>5. Delivered(e, value, atLeast) <= liquid
  BY Zenon
<1> HIDE DEF liquid
<1>6. Min({e.amount, liquid}) \in Nat
  <2>1. e.amount \in Int /\ liquid \in Int
    BY <1>1, <1>3
  <2>2. Min({e.amount, liquid}) \in {e.amount, liquid}
    BY <2>1, OfTwo, Zenon
  <2> QED
    BY <1>1, <1>3, <2>2, Zenon
<1>7. Max({value, Min({e.amount, liquid})}) \in Nat
  <2> DEFINE m == Min({e.amount, liquid})
  <2>1. value \in Int /\ m \in Int
    BY <1>6
  <2> HIDE DEF m
  <2>2. Max({value, m}) \in {value, m}
    BY <2>1, OfTwo, Zenon
  <2> QED
    BY <1>6, <2>2, Zenon DEF m
<1> QED
  BY <1>1, <1>3, <1>4, <1>5, <1>7, SMTT(30)

\* CheckCash keeps the ledger sound.
LEMMA CheckCashStep ==
    ASSUME HInv, NEW a \in Account, NEW k \in Key, NEW value \in Amount, NEW atLeast,
           CheckCash(a, k, value, atLeast)
    PROVE  Sound(root', dir', entry', line')
<1> DEFINE e == entry[k]
           paid == Delivered(e, value, atLeast)
           r == AddBalance(AddBalance(root, e.owner, -paid), a, paid)
<1>0. mode \in Mode /\ Sound(root, dir, entry, line) /\ root \in Roots /\ EntriesOK(entry) /\ value \in Nat
  BY ModeTypes, Zenon DEF HInv, Sound, Linked
<1>1. /\ root[a] # Absent /\ e # Absent /\ e.kind = "check" /\ root[e.owner] # Absent
      /\ paid <= Liquid(e.owner, -1)
      /\ root' = AdjustOwnerCount(r, e.owner, -1)
      /\ dir' = Unlisted(dir, {e.owner, e.dest}, k)
      /\ entry' = [entry EXCEPT ![k] = Absent] /\ line' = line
  BY Zenon DEF CheckCash, CheckGone, Is, Exists
<1>2. e \in CheckEntry /\ e.owner \in Account /\ Parties(e) = {e.owner, e.dest}
  BY <1>0, <1>1, InsideType, ByKind, Zenon DEF Parties
<1>3. paid \in Nat /\ paid <= root[e.owner].bal
  BY <1>0, <1>1, <1>2, DeliveredType, Zenon
<1> HIDE DEF paid
<1>4. Sound(r, dir, entry, line)
  BY <1>0, <1>1, <1>2, <1>3, DropsMove, Zenon
<1> HIDE DEF r
<1>5. Sound(AdjustOwnerCount(r, e.owner, -1), Unlisted(dir, Parties(e), k), [entry EXCEPT ![k] = Absent], line)
  <2>1. e.kind \in {"check", "uritoken"}
    BY <1>1, Zenon
  <2> HIDE DEF Parties
  <2> QED
    BY <1>1, <1>4, <2>1, EmptyGoes, Zenon
<1> QED
  BY <1>1, <1>2, <1>5, Zenon

\* CheckCancel keeps the ledger sound.
LEMMA CheckCancelStep ==
    ASSUME HInv, NEW a \in Account, NEW k \in Key, CheckCancel(a, k)
    PROVE  Sound(root', dir', entry', line')
<1> DEFINE e == entry[k]
<1>0. Sound(root, dir, entry, line)
  BY Zenon DEF HInv
<1>1. /\ e # Absent /\ e.kind = "check" /\ root' = AdjustOwnerCount(root, e.owner, -1)
      /\ dir' = Unlisted(dir, {e.owner, e.dest}, k)
      /\ entry' = [entry EXCEPT ![k] = Absent] /\ line' = line
  BY Zenon DEF CheckCancel, CheckGone, Is
<1>2. Parties(e) = {e.owner, e.dest}
  BY <1>1, Zenon DEF Parties
<1>3. Sound(AdjustOwnerCount(root, e.owner, -1), Unlisted(dir, Parties(e), k), [entry EXCEPT ![k] = Absent], line)
  <2>1. e.kind \in {"check", "uritoken"}
    BY <1>1, Zenon
  <2> HIDE DEF Parties
  <2> QED
    BY <1>0, <1>1, <2>1, EmptyGoes, Zenon
<1> QED
  BY <1>1, <1>2, <1>3, Zenon
=============================================================================
