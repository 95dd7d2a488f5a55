------------------------- MODULE GovernTableProofs -------------------------
(***************************************************************************)
(* Proofs about GovernTable, for every set of accounts, every number of    *)
(* seats, every ballot and both kinds of table.  The inductive invariant   *)
(* is the conjunction of the four state properties: the bound of the       *)
(* member count follows from its being the number of filled seats, and     *)
(* that from the agreement of the two kinds of seat keys.                  *)
(***************************************************************************)
EXTENDS GovernTable, FiniteSetTheorems, FunctionTheorems, TLAPS

IInv == TypeOK /\ SeatingConsistent /\ MemberCountExact /\ TallyExact

-----------------------------------------------------------------------------
(* The keys.                                                               *)

\* A vote key is a member, a topic and a layer.
LEMMA KeyParts ==
    ASSUME NEW k \in VoteKey
    PROVE  k[1] \in Account /\ k[2] \in Ballot /\ k[3] \in Layer
BY Zenon DEF VoteKey

\* Whatever is voted for has a counter.
LEMMA CounterExists ==
    ASSUME NEW k \in VoteKey, NEW d \in Data
    PROVE  CounterOf(k, d) \in CountKey
<1>1. CountData(d) \in Data
  BY TableAssumption, Zenon DEF CountData, Data, HookData
<1> QED
  BY <1>1, KeyParts, Zenon DEF CounterOf, CountKey

\* Topic data of any type is data, and never the mark of an absent entry.
LEMMA TopicDataIsData ==
    ASSUME NEW top \in Ballot, NEW d \in TopicData(top)
    PROVE  d \in Data /\ d # Absent
<1>1. top[1] \in {"S", "H", "R"}
  BY TableAssumption, Zenon DEF ValidTopic
<1> QED
  BY <1>1, TableAssumption, Zenon DEF TopicData, Data

\* There are finitely many vote keys.
LEMMA VoteKeyFinite == IsFiniteSet(VoteKey)
<1> DEFINE P == Account \X (Ballot \X Layer)
           f == [p \in P |-> <<p[1], p[2][1], p[2][2]>>]
<1>1. IsFiniteSet(Layer)
  <2>1. Layer = 1 .. 2
    BY DEF Layer
  <2> QED
    BY <2>1, 1 \in Int, 2 \in Int, FS_Interval, Zenon
<1>2. IsFiniteSet(P)
  BY <1>1, TableAssumption, FS_Product, Zenon
<1>3. f \in [P -> VoteKey]
  BY Zenon DEF VoteKey
<1>4. ASSUME NEW k \in VoteKey PROVE \E p \in P : f[p] = k
  <2>1. <<k[1], <<k[2], k[3]>>>> \in P
    BY KeyParts, Zenon
  <2>2. f[<<k[1], <<k[2], k[3]>>>>] = k
    BY <2>1 DEF VoteKey
  <2> QED
    BY <2>1, <2>2, Zenon
<1>5. f \in Surjection(P, VoteKey)
  BY <1>3, <1>4, Zenon DEF Surjection
<1> QED
  BY <1>2, <1>5, FS_Surjection, Zenon

-----------------------------------------------------------------------------
(* Votes and counters.                                                     *)

\* A one-byte counter never holds more than there are votes.
LEMMA ByteBound == \A N \in Nat : N % 256 \in 0 .. 255 /\ N % 256 <= N
BY SMT

\* Adding a vote to a one-byte counter.
LEMMA CounterUp == \A N \in Nat : ((N % 256) + 1) % 256 = (N + 1) % 256
BY SMT

\* Taking a vote out of a one-byte counter that is not zero.
LEMMA CounterDown ==
    \A N \in Nat, c \in 0 .. 255 : c = (N + 1) % 256 /\ c > 0 => c - 1 = N % 256
BY SMT

\* The loop that should collect the votes of a removed member finds none.
LEMMA CollectedEmpty == \A a : Collected(a) = {}
BY KeyParts DEF Collected, CollectedLayer, Layer

\* A counter counts the votes whose counter it is.
LEMMA VotersCounted ==
    ASSUME NEW c \in CountKey
    PROVE  /\ Voters(c) = {k \in VoteKey : vote[k] # Absent /\ CounterOf(k, vote[k]) = c}
           /\ Voters(c)' = {k \in VoteKey : vote'[k] # Absent /\ CounterOf(k, vote'[k]) = c}
<1>1. c[1] \in Ballot /\ c[2] \in Layer /\ c = <<c[1], c[2], c[3]>>
  BY DEF CountKey
<1>2. ASSUME NEW k \in VoteKey, NEW d
      PROVE  CounterOf(k, d) = c <=> k[2] = c[1] /\ k[3] = c[2] /\ CountData(d) = c[3]
  BY <1>1 DEF CounterOf
<1>3. \A k : k \in Account \X {c[1]} \X {c[2]} <=> k \in VoteKey /\ k[2] = c[1] /\ k[3] = c[2]
  BY <1>1, Zenon DEF VoteKey
<1> QED
  BY <1>2, <1>3, Zenon DEF Voters

\* A cast vote keeps every counter equal to the number of its votes.
LEMMA CastTally ==
    ASSUME TypeOK, TallyExact,
           NEW k \in VoteKey, NEW d \in TopicData(k[2]),
           MayCast(k, d),
           vote' = [vote EXCEPT ![k] = d],
           count' = Tallied(k, d)
    PROVE  /\ TallyExact'
           /\ count' \in [CountKey -> 0 .. 255]
           /\ vote' \in [VoteKey -> Data \cup {Absent}]
           /\ \A v \in VoteKey : vote'[v] \in TopicData(v[2]) \cup {Absent}
<1> USE DEF TypeOK
<1> DEFINE new == CounterOf(k, d)
           old == CounterOf(k, vote[k])
<1>1. d \in Data /\ d # Absent
  BY KeyParts, TopicDataIsData, Zenon
<1>2. new \in CountKey
  BY <1>1, CounterExists, Zenon
<1>3. vote[k] # Absent => old \in CountKey /\ count[old] > 0
  BY CounterExists, Zenon DEF MayCast
<1>4. /\ vote' \in [VoteKey -> Data \cup {Absent}]
      /\ \A v \in VoteKey : vote'[v] \in TopicData(v[2]) \cup {Absent}
  BY <1>1, Zenon
<1>5. ASSUME NEW c \in CountKey
      PROVE  /\ count'[c] \in 0 .. 255
             /\ count'[c] = Cardinality(Voters(c)') % 256
  <2> DEFINE V == Voters(c)
             R == V \ {k}
             N == Cardinality(R)
             w == Withdrawn(k)
  <2>1. IsFiniteSet(V) /\ IsFiniteSet(R) /\ N \in Nat
    BY VoteKeyFinite, FS_Subset, FS_RemoveElement, FS_CardinalityType, VotersCounted, Zenon
  <2>2. Cardinality(V) = IF k \in V THEN N + 1 ELSE N
    <3>1. k \in V => V = R \cup {k}
      BY Zenon
    <3>2. k \notin V => V = R
      BY Zenon
    <3> QED
      BY <2>1, <3>1, <3>2, FS_AddElement, Zenon
  <2>3. k \in V <=> vote[k] # Absent /\ old = c
    BY VotersCounted, Zenon
  <2>4. Voters(c)' = IF new = c THEN R \cup {k} ELSE R
    BY <1>1, <1>4, VotersCounted DEF CounterOf
  <2>5. Cardinality(Voters(c)') = IF new = c THEN N + 1 ELSE N
    <3>1. k \notin R
      BY Zenon
    <3> QED
      BY <2>1, <2>4, <3>1, FS_AddElement, ZenonT(60)
  <2>6. count[c] = Cardinality(V) % 256 /\ count[c] \in 0 .. 255
    BY Zenon DEF TallyExact
  <2>7. w[c] = IF k \in V THEN count[c] - 1 ELSE count[c]
    BY <2>3, <1>3, Zenon DEF Withdrawn
  <2>8. k \in V => count[c] > 0
    BY <2>3, <1>3, Zenon
  <2>9. DOMAIN w = CountKey
    BY Zenon DEF Withdrawn
  <2>10. count'[c] = IF new = c THEN (w[c] + 1) % 256 ELSE w[c]
    BY <2>9, <1>2, Zenon DEF Tallied
  <2> HIDE DEF V, R, N, w, new, TypeOK
  <2>11. w[c] = N % 256
    <3>1. CASE k \in V
      <4>1. /\ count[c] = (N + 1) % 256 /\ count[c] > 0 /\ count[c] \in 0 .. 255
            /\ w[c] = count[c] - 1
        BY <2>2, <2>6, <2>7, <2>8, <3>1, ZenonT(60)
      <4> QED
        BY <2>1, <4>1, CounterDown, ZenonT(60)
    <3>2. CASE k \notin V
      BY <2>2, <2>6, <2>7, <3>2, ZenonT(60)
    <3> QED
      BY <3>1, <3>2, Zenon
  <2>12. CASE new = c
    <3>1. count'[c] = ((N % 256) + 1) % 256 /\ Cardinality(Voters(c)') = N + 1
      BY <2>5, <2>10, <2>11, <2>12, ZenonT(60)
    <3>2. count'[c] = (N + 1) % 256
      BY <2>1, <3>1, CounterUp, ZenonT(60)
    <3>3. N + 1 \in Nat
      BY <2>1
    <3>4. (N + 1) % 256 \in 0 .. 255
      BY <3>3, ByteBound, ZenonT(60)
    <3> QED
      BY <3>1, <3>2, <3>4, ZenonT(60)
  <2>13. CASE new # c
    <3>1. count'[c] = N % 256 /\ Cardinality(Voters(c)') = N
      BY <2>5, <2>10, <2>11, <2>13, ZenonT(60)
    <3>2. N % 256 \in 0 .. 255
      BY <2>1, ByteBound, ZenonT(60)
    <3> QED
      BY <3>1, <3>2, ZenonT(60)
  <2> QED
    BY <2>12, <2>13, Zenon
<1>6. DOMAIN count' = CountKey /\ count' = [c \in CountKey |-> count'[c]]
  <2> DEFINE w == Withdrawn(k)
  <2>1. DOMAIN w = CountKey
    BY Zenon DEF Withdrawn
  <2> HIDE DEF w, new, TypeOK
  <2>2. count' = [w EXCEPT ![new] = (@ + 1) % 256]
    BY Zenon DEF Tallied, w, new
  <2> QED
    BY <2>1, <2>2, ZenonT(60)
<1>7. TallyExact'
  BY <1>5, Zenon DEF TallyExact
<1> HIDE DEF TypeOK
<1>8. count' \in [CountKey -> 0 .. 255]
  BY <1>5, <1>6, Zenon
<1> QED
  BY <1>4, <1>7, <1>8, Zenon

-----------------------------------------------------------------------------
(* The seating.                                                            *)

\* The filled seats are finitely many, and no more than there are seats.
LEMMA FilledBound ==
    /\ IsFiniteSet(Filled)
    /\ Cardinality(Filled) \in 0 .. SeatCount
<1>1. SeatCount \in Int /\ 0 \in Int /\ SeatCount - 1 \in Int /\ SeatCount > 0
  BY TableAssumption
<1>2. IsFiniteSet(Seat) /\ Cardinality(Seat) = SeatCount
  <2>1. /\ IsFiniteSet(0 .. SeatCount - 1)
        /\ Cardinality(0 .. SeatCount - 1)
              = IF 0 > SeatCount - 1 THEN 0 ELSE (SeatCount - 1) - 0 + 1
    BY <1>1, FS_Interval, Zenon
  <2> QED
    BY <1>1, <2>1 DEF Seat
<1>3. Filled \in SUBSET Seat
  BY Zenon DEF Filled
<1>4. IsFiniteSet(Filled) /\ Cardinality(Filled) <= Cardinality(Seat)
  BY <1>2, <1>3, FS_Subset, Zenon
<1>5. Cardinality(Filled) \in Nat
  BY <1>4, FS_CardinalityType, Zenon
<1> QED
  BY <1>1, <1>2, <1>4, <1>5

\* A seat change keeps the two kinds of keys in agreement.
LEMMA SeatChangeConsistent ==
    ASSUME TypeOK, SeatingConsistent,
           NEW k \in VoteKey, NEW d \in SeatData,
           k[2][2] \in Seat, ActionSeat(k, d)
    PROVE  /\ SeatingConsistent'
           /\ seat' \in [Seat -> Account \cup {Absent}]
           /\ forward' \in [Account -> Seat \cup {NoSeat}]
<1> DEFINE n == k[2][2]
<1>1. Absent \notin Account /\ Zero \notin Account /\ NoSeat \notin Seat
  BY TableAssumption DEF Data, SeatData, NoSeat, Seat
<1>2. /\ seat \in [Seat -> Account \cup {Absent}]
      /\ forward \in [Account -> Seat \cup {NoSeat}]
      /\ seat[n] # d
  BY Zenon DEF TypeOK, ActionSeat, SeatKeys
<1>3. /\ seat' = [s \in Seat |->
                    IF s = n THEN IF d = Zero THEN Absent ELSE d
                    ELSE IF Moving(d) /\ s = forward[d] THEN Absent
                    ELSE seat[s]]
      /\ forward' = [a \in Account |->
                       IF a = d THEN n
                       ELSE IF a = seat[n] THEN NoSeat
                       ELSE forward[a]]
  BY Zenon DEF ActionSeat, SeatKeys, MemberKeys
<1>4. ASSUME NEW a \in Account, NEW s \in Seat
      PROVE  seat'[s] = a <=> forward'[a] = s
  <2>1. CASE a = d
    BY <1>1, <1>2, <1>3, <2>1 DEF SeatingConsistent, Moving
  <2>2. CASE a # d
    BY <1>1, <1>2, <1>3, <2>2 DEF SeatingConsistent, Moving, SeatData
  <2> QED
    BY <2>1, <2>2, Zenon
<1>5. /\ seat' \in [Seat -> Account \cup {Absent}]
      /\ forward' \in [Account -> Seat \cup {NoSeat}]
  BY <1>2, <1>3, Zenon DEF SeatData
<1> QED
  BY <1>4, <1>5, Zenon DEF SeatingConsistent

\* A seat change adjusts MC by the change in the number of filled seats.
LEMMA SeatChangeCounted ==
    ASSUME TypeOK, SeatingConsistent, MemberCountExact,
           NEW k \in VoteKey, NEW d \in SeatData,
           k[2][2] \in Seat, ActionSeat(k, d)
    PROVE  MemberCountExact'
<1> DEFINE n == k[2][2]
           f == forward[d]
           F == Filled
<1>1. Absent \notin Account /\ Zero \notin Account /\ Zero # Absent
  BY TableAssumption, Zenon DEF Data, SeatData
<1>2. /\ seat \in [Seat -> Account \cup {Absent}]
      /\ forward \in [Account -> Seat \cup {NoSeat}]
      /\ seat[n] # d
      /\ mc' = NewCount(n, d)
      /\ seat' = [s \in Seat |->
                    IF s = n THEN IF d = Zero THEN Absent ELSE d
                    ELSE IF Moving(d) /\ s = forward[d] THEN Absent
                    ELSE seat[s]]
  BY Zenon DEF TypeOK, ActionSeat, SeatKeys
<1>3. IsFiniteSet(F) /\ Cardinality(F) \in Nat /\ mc = Cardinality(F)
  BY FilledBound, TableAssumption DEF MemberCountExact
<1>4. Moving(d) => d \in Account /\ f \in F /\ f # n /\ f \in Seat
  BY <1>1, <1>2 DEF Moving, SeatingConsistent, Filled
<1>5. n \in F <=> seat[n] # Absent
  BY Zenon DEF Filled
<1>6. CASE Moving(d)
  <2>1. d # Zero
    BY <1>1, <1>4, <1>6, Zenon
  <2>2. Filled' = (F \ {f}) \cup {n}
    BY <1>1, <1>2, <1>4, <1>6, <2>1, Zenon DEF Filled
  <2>3. IsFiniteSet(F \ {f}) /\ Cardinality(F \ {f}) = Cardinality(F) - 1
    BY <1>3, <1>4, <1>6, FS_RemoveElement, Zenon
  <2>4. n \in F \ {f} <=> n \in F
    BY <1>4, <1>6, Zenon
  <2>5. Cardinality(Filled') = IF n \in F THEN Cardinality(F) - 1 ELSE (Cardinality(F) - 1) + 1
    BY <2>2, <2>3, <2>4, FS_AddElement, Zenon
  <2>6. mc' = IF n \in F THEN mc - 1 ELSE mc
    BY <1>2, <1>5, <1>6, <2>1, Zenon DEF NewCount
  <2> QED
    BY <1>3, <2>5, <2>6 DEF MemberCountExact
<1>7. CASE ~Moving(d) /\ d = Zero
  <2>1. Filled' = F \ {n}
    BY <1>1, <1>2, <1>7, Zenon DEF Filled
  <2>2. Cardinality(Filled') = IF n \in F THEN Cardinality(F) - 1 ELSE Cardinality(F)
    BY <1>3, <2>1, FS_RemoveElement, Zenon
  <2>3. mc' = IF n \in F THEN mc - 1 ELSE mc
    BY <1>2, <1>5, <1>7, Zenon DEF NewCount
  <2> QED
    BY <1>3, <2>2, <2>3, Zenon DEF MemberCountExact
<1>8. CASE ~Moving(d) /\ d # Zero
  <2>1. Filled' = F \cup {n}
    BY <1>1, <1>2, <1>8, Zenon DEF Filled, SeatData
  <2>2. Cardinality(Filled') = IF n \in F THEN Cardinality(F) ELSE Cardinality(F) + 1
    BY <1>3, <2>1, FS_AddElement, Zenon
  <2>3. mc' = IF n \in F THEN mc ELSE mc + 1
    BY <1>2, <1>5, <1>8, Zenon DEF NewCount
  <2> QED
    BY <1>3, <2>2, <2>3, Zenon DEF MemberCountExact
<1> QED
  BY <1>6, <1>7, <1>8, Zenon

-----------------------------------------------------------------------------
(* The first execution.                                                    *)

\* Setup seats the initial members, one seat each, and counts them.
LEMMA SetupSeating ==
    ASSUME IInv, Setup
    PROVE  /\ SeatingConsistent'
           /\ MemberCountExact'
           /\ seat' \in [Seat -> Account \cup {Absent}]
           /\ forward' \in [Account -> Seat \cup {NoSeat}]
<1> DEFINE L == Len(InitialMembers)
           M == InitialMembers
           I == 0 .. L - 1
<1>1. /\ L \in Nat /\ L >= 1 /\ L <= SeatCount /\ SeatCount \in Nat
      /\ \A i \in I : M[i + 1] \in Account
      /\ \A i, j \in I : M[i + 1] = M[j + 1] => i = j
      /\ I \subseteq Seat
  BY TableAssumption, ParameterAssumption DEF Seat
<1>2. Absent \notin Account /\ NoSeat \notin Seat
  BY TableAssumption DEF Data, SeatData, NoSeat, Seat
<1>3. \A n \in Seat : seat[n] = Absent
  <2>1. IsFiniteSet(Filled) /\ Cardinality(Filled) = 0
    BY FilledBound, Zenon DEF IInv, MemberCountExact, Setup
  <2>2. Filled = {}
    BY <2>1, FS_EmptySet, Zenon
  <2> QED
    BY <2>2, Zenon DEF Filled
<1>4. \A a \in Account : forward[a] = NoSeat
  BY <1>2, <1>3 DEF IInv, TypeOK, SeatingConsistent
<1>5. /\ seat' = [n \in Seat |-> IF n < L THEN M[n + 1] ELSE seat[n]]
      /\ forward' = [a \in Account |->
                       IF \E n \in I : M[n + 1] = a
                       THEN CHOOSE n \in I : M[n + 1] = a ELSE forward[a]]
      /\ mc' = L
  BY Zenon DEF Setup
<1>6. \A n \in Seat : n < L <=> n \in I
  BY <1>1 DEF Seat
<1>7. \A n \in Seat : seat'[n] = IF n \in I THEN M[n + 1] ELSE Absent
  BY <1>3, <1>5, <1>6, Zenon
<1>8. ASSUME NEW a \in Account
      PROVE  \/ forward'[a] \in I /\ M[forward'[a] + 1] = a
             \/ forward'[a] = NoSeat /\ \A n \in I : M[n + 1] # a
  <2>1. CASE \E n \in I : M[n + 1] = a
    <3> DEFINE c == CHOOSE n \in I : M[n + 1] = a
    <3>1. c \in I /\ M[c + 1] = a
      BY <2>1, Zenon
    <3>2. forward'[a] = c
      BY <1>5, <2>1, Zenon
    <3> QED
      BY <3>1, <3>2, Zenon
  <2>2. CASE ~\E n \in I : M[n + 1] = a
    BY <1>4, <1>5, <2>2, Zenon
  <2> QED
    BY <2>1, <2>2, Zenon
<1> HIDE DEF I, L, M
<1>9. /\ seat' \in [Seat -> Account \cup {Absent}]
      /\ forward' \in [Account -> Seat \cup {NoSeat}]
  <2>1. \A n \in Seat : seat'[n] \in Account \cup {Absent}
    BY <1>1, <1>7, Zenon
  <2>2. \A a \in Account : forward'[a] \in Seat \cup {NoSeat}
    BY <1>1, <1>8, Zenon
  <2> QED
    BY <1>5, <2>1, <2>2, Zenon
<1>10. SeatingConsistent'
  <2> SUFFICES ASSUME NEW a \in Account, NEW n \in Seat
               PROVE  seat'[n] = a <=> forward'[a] = n
    BY Zenon DEF SeatingConsistent
  <2> QED
    BY <1>1, <1>2, <1>7, <1>8
<1>11. MemberCountExact'
  <2>1. Filled' = I
    BY <1>1, <1>2, <1>7, Zenon DEF Filled
  <2>2. 0 \in Int /\ L - 1 \in Int
    BY <1>1
  <2>3. Cardinality(0 .. L - 1) = IF 0 > L - 1 THEN 0 ELSE (L - 1) - 0 + 1
    BY <2>2, FS_Interval, Zenon
  <2> QED
    BY <1>1, <1>5, <2>1, <2>3 DEF MemberCountExact, I
<1> QED
  BY <1>9, <1>10, <1>11, Zenon

-----------------------------------------------------------------------------
(* The inductive invariant.                                                *)

\* An empty table satisfies the invariant.
LEMMA InitIInv == Init => IInv
<1> SUFFICES ASSUME Init PROVE IInv
  BY Zenon
<1>1. Absent \notin Account /\ NoSeat \notin Seat /\ SeatCount \in Nat
  BY TableAssumption DEF Data, SeatData, NoSeat, Seat
<1>2. TypeOK
  BY <1>1 DEF Init, TypeOK, RR, RD
<1>3. SeatingConsistent
  BY <1>1, Zenon DEF Init, SeatingConsistent
<1>4. Filled = {} /\ \A c \in CountKey : Voters(c) = {}
  BY VotersCounted, Zenon DEF Init, Filled
<1>5. MemberCountExact
  BY <1>4, FS_EmptySet, Zenon DEF Init, MemberCountExact
<1>6. 0 % 256 = 0
  BY SMT
<1>7. TallyExact
  BY <1>4, <1>6, FS_EmptySet, ZenonT(30) DEF Init, TallyExact
<1> QED
  BY <1>2, <1>3, <1>5, <1>7, Zenon DEF IInv

\* Votes that change nothing but votes, counters and what is emitted.
LEMMA CastInvariant ==
    ASSUME IInv, NEW k \in VoteKey, NEW d \in TopicData(k[2]), Cast(k, d),
           UNCHANGED <<mc, seat, forward, hookAt>>,
           reward' \in [{RR, RD} -> RewardValue \cup {Absent}],
           emitted' \subseteq Emission,
           \A e \in emitted' : e.type = "SetHook" => e.data \in HookData
    PROVE  IInv'
<1>1. /\ TallyExact'
      /\ count' \in [CountKey -> 0 .. 255]
      /\ vote' \in [VoteKey -> Data \cup {Absent}]
      /\ \A v \in VoteKey : vote'[v] \in TopicData(v[2]) \cup {Absent}
  BY CastTally, Zenon DEF IInv, Cast
<1>2. TypeOK'
  BY <1>1, Zenon DEF IInv, TypeOK
<1>3. SeatingConsistent' /\ MemberCountExact'
  BY Zenon DEF IInv, SeatingConsistent, MemberCountExact, Filled
<1> QED
  BY <1>1, <1>2, <1>3, Zenon DEF IInv

\* The transaction a vote emits is well formed.
LEMMA EmissionTyped ==
    ASSUME IInv, NEW k \in VoteKey, NEW d \in TopicData(k[2]), NEW ty \in {"Invoke", "SetHook"},
           ty = "SetHook" => k[2][1] = "H",
           emitted' = emitted \cup {[type |-> ty, topic |-> k[2], data |-> d]}
    PROVE  /\ emitted' \subseteq Emission
           /\ \A e \in emitted' : e.type = "SetHook" => e.data \in HookData
<1>1. k[2] \in Ballot /\ d \in Data
  BY KeyParts, TopicDataIsData, Zenon
<1>2. ty = "SetHook" => d \in HookData
  BY Zenon DEF TopicData
<1>3. emitted \subseteq Emission /\ \A e \in emitted : e.type = "SetHook" => e.data \in HookData
  BY Zenon DEF IInv, TypeOK
<1> DEFINE new == [type |-> ty, topic |-> k[2], data |-> d]
<1>4. new \in Emission
  BY <1>1, Zenon DEF Emission
<1>5. new.type = ty /\ new.data = d
  BY Zenon
<1> HIDE DEF new
<1>6. emitted' = emitted \cup {new}
  BY Zenon DEF new
<1> QED
  BY <1>2, <1>3, <1>4, <1>5, <1>6, Zenon

\* A step that leaves the seating, the votes and the counters alone keeps what
\* the invariant says of them.
LEMMA SeatsAndVotesKept ==
    ASSUME IInv, TypeOK', UNCHANGED <<mc, seat, forward, vote, count>>
    PROVE  IInv'
<1>1. SeatingConsistent'
  BY Zenon DEF IInv, SeatingConsistent
<1>2. MemberCountExact'
  BY Zenon DEF IInv, MemberCountExact, Filled
<1>3. \A c : Voters(c)' = Voters(c)
  BY Zenon DEF Voters
<1>4. TallyExact'
  BY <1>3, Zenon DEF IInv, TallyExact
<1> QED
  BY <1>1, <1>2, <1>4, Zenon DEF IInv

\* Every step keeps the invariant.
LEMMA NextIInv == IInv /\ [Next]_vars => IInv'
<1> SUFFICES ASSUME IInv, [Next]_vars PROVE IInv'
  BY Zenon
<1>1. CASE Setup
  <2>1. /\ SeatingConsistent' /\ MemberCountExact'
        /\ seat' \in [Seat -> Account \cup {Absent}]
        /\ forward' \in [Account -> Seat \cup {NoSeat}]
    BY <1>1, SetupSeating, Zenon
  <2>2. reward' \in [{RR, RD} -> RewardValue \cup {Absent}]
    BY <1>1, ParameterAssumption, Zenon DEF Setup, IInv, TypeOK
  <2>3. mc' \in 0 .. SeatCount
    <3>1. mc' = Len(InitialMembers)
      BY <1>1, Zenon DEF Setup
    <3>2. Len(InitialMembers) \in 1 .. SeatCount /\ SeatCount \in Nat
      BY ParameterAssumption, TableAssumption, Zenon
    <3> QED
      BY <3>1, <3>2
  <2>0. UNCHANGED <<vote, count, hookAt, emitted>>
    BY <1>1, Zenon DEF Setup
  <2>4. TypeOK'
    BY <2>0, <2>1, <2>2, <2>3, Zenon DEF IInv, TypeOK
  <2>5. TallyExact'
    BY <1>1, Zenon DEF Setup, IInv, TallyExact, Voters
  <2> QED
    BY <2>1, <2>4, <2>5, Zenon DEF IInv
<1>2. ASSUME UNCHANGED vars PROVE IInv'
  <2>1. TypeOK'
    BY <1>2, Zenon DEF vars, IInv, TypeOK
  <2> QED
    BY <1>2, <2>1, SeatsAndVotesKept, Zenon DEF vars
<1>3. ASSUME NEW k \in VoteKey, VoteAgain(k) PROVE IInv'
  BY <1>2, <1>3, Zenon DEF VoteAgain
<1>4. ASSUME NEW k \in VoteKey, NEW d \in TopicData(k[2]), VoteStep(k, d) PROVE IInv'
  <2>0. /\ reward \in [{RR, RD} -> RewardValue \cup {Absent}]
        /\ emitted \subseteq Emission
        /\ \A e \in emitted : e.type = "SetHook" => e.data \in HookData
    BY Zenon DEF IInv, TypeOK
  <2>1. CASE VoteRecorded(k, d)
    <3>1. CASE Enough(k, d)
      <4>1. emitted' = emitted \cup {[type |-> "Invoke", topic |-> k[2], data |-> d]}
        BY <2>1, <3>1, Zenon DEF VoteRecorded
      <4>2. /\ emitted' \subseteq Emission
            /\ \A e \in emitted' : e.type = "SetHook" => e.data \in HookData
        BY <4>1, EmissionTyped, Zenon
      <4> QED
        BY <2>0, <2>1, <4>2, CastInvariant, Zenon DEF VoteRecorded
    <3>2. CASE ~Enough(k, d)
      <4>1. emitted' = emitted
        BY <2>1, <3>2, Zenon DEF VoteRecorded
      <4> QED
        BY <2>0, <2>1, <4>1, CastInvariant, Zenon DEF VoteRecorded
    <3> QED
      BY <3>1, <3>2, Zenon
  <2>3. CASE ActionReward(k, d)
    <3>1. d \in RewardValue /\ k[2][2] \in {RR, RD}
      BY <2>3, KeyParts, TableAssumption, Zenon DEF ActionReward, TopicData, ValidTopic
    <3>2. reward' \in [{RR, RD} -> RewardValue \cup {Absent}]
      BY <2>0, <2>3, <3>1, Zenon DEF ActionReward
    <3> QED
      BY <2>0, <2>3, <3>2, CastInvariant, Zenon DEF ActionReward
  <2>4. CASE HookUnchanged(k, d)
    BY <2>0, <2>4, CastInvariant, Zenon DEF HookUnchanged
  <2>5. CASE ActionHook(k, d)
    <3>1. /\ emitted' \subseteq Emission
          /\ \A e \in emitted' : e.type = "SetHook" => e.data \in HookData
      BY <2>5, EmissionTyped, Zenon DEF ActionHook
    <3> QED
      BY <2>0, <2>5, <3>1, CastInvariant, Zenon DEF ActionHook
  <2>6. CASE SeatUnchanged(k, d)
    BY <2>0, <2>6, CastInvariant, Zenon DEF SeatUnchanged
  <2>7. CASE ActionSeat(k, d)
    <3>1. d \in SeatData /\ k[2][2] \in Seat
      BY <2>7, KeyParts, TableAssumption, Zenon DEF ActionSeat, TopicData, ValidTopic
    <3>2. vote' = [vote EXCEPT ![k] = d] /\ count' = Tallied(k, d) /\ MayCast(k, d)
      BY <2>7, CollectedEmpty, Zenon DEF ActionSeat, IInv, TypeOK
    <3>3. /\ TallyExact'
          /\ count' \in [CountKey -> 0 .. 255]
          /\ vote' \in [VoteKey -> Data \cup {Absent}]
          /\ \A v \in VoteKey : vote'[v] \in TopicData(v[2]) \cup {Absent}
      BY <3>2, CastTally, Zenon DEF IInv
    <3>4. /\ SeatingConsistent'
          /\ seat' \in [Seat -> Account \cup {Absent}]
          /\ forward' \in [Account -> Seat \cup {NoSeat}]
      BY <2>7, <3>1, SeatChangeConsistent, Zenon DEF IInv
    <3>5. MemberCountExact'
      BY <2>7, <3>1, SeatChangeCounted, Zenon DEF IInv
    <3>6. (Cardinality(Filled) \in 0 .. SeatCount)'
      BY FilledBound, PTL
    <3>7. TypeOK'
      BY <2>0, <2>7, <3>3, <3>4, <3>5, <3>6, Zenon DEF ActionSeat, IInv, TypeOK, MemberCountExact
    <3> QED
      BY <3>3, <3>4, <3>5, <3>7, Zenon DEF IInv
  <2> QED
    BY <1>4, <2>1, <2>3, <2>4, <2>5, <2>6, <2>7, Zenon DEF VoteStep
<1>5. ASSUME NEW e \in emitted, SetHookApplied(e) PROVE IInv'
  <2>1. e.data \in HookData
    BY <1>5, Zenon DEF SetHookApplied, IInv, TypeOK
  <2>2. TypeOK'
    BY <1>5, <2>1, Zenon DEF SetHookApplied, IInv, TypeOK
  <2> QED
    BY <1>5, <2>2, SeatsAndVotesKept, Zenon DEF SetHookApplied
<1>6. ASSUME NEW e \in emitted, EmittedGone(e) PROVE IInv'
  <2>1. TypeOK'
    BY <1>6, Zenon DEF EmittedGone, IInv, TypeOK
  <2> QED
    BY <1>6, <2>1, SeatsAndVotesKept, Zenon DEF EmittedGone
<1> QED
  BY <1>1, <1>2, <1>3, <1>4, <1>5, <1>6, Zenon DEF Next

-----------------------------------------------------------------------------
(* The theorems.                                                           *)

\* The invariant holds throughout every execution of a table.
LEMMA IInvHolds == Spec => []IInv
BY InitIInv, NextIInv, PTL DEF Spec

\* Every state entry always has the width and kind govern.c gives it; in
\* particular MC never exceeds the number of seats.
THEOREM TableTypeCorrect == Spec => []TypeOK
<1>1. IInv => TypeOK
  BY Zenon DEF IInv
<1> QED
  BY <1>1, IInvHolds, PTL

\* The forward and the reverse seat keys always describe the same seating.
THEOREM SeatingAlwaysConsistent == Spec => []SeatingConsistent
<1>1. IInv => SeatingConsistent
  BY Zenon DEF IInv
<1> QED
  BY <1>1, IInvHolds, PTL

\* MC is always the number of filled seats.
THEOREM MemberCountAlwaysExact == Spec => []MemberCountExact
<1>1. IInv => MemberCountExact
  BY Zenon DEF IInv
<1> QED
  BY <1>1, IInvHolds, PTL

\* Every counter always holds the number of stored votes it counts, modulo 256.
THEOREM TallyAlwaysExact == Spec => []TallyExact
<1>1. IInv => TallyExact
  BY Zenon DEF IInv
<1> QED
  BY <1>1, IInvHolds, PTL

\* A cast vote that is enough leaves as many stored votes as the threshold, computed
\* from the seats that are filled, asks for.
LEMMA VotesBehind ==
    ASSUME IInv, IInv', NEW k \in VoteKey, NEW d \in TopicData(k[2]),
           Enough(k, d), count' = Tallied(k, d)
    PROVE  Cardinality(Voters(CounterOf(k, d))') >= Threshold(k[2], k[3], Cardinality(Filled))
<1> DEFINE c == CounterOf(k, d)
           N == Cardinality(Voters(c)')
           q == Threshold(k[2], k[3], mc)
           w == N % 256
<1>1. c \in CountKey
  BY KeyParts, TopicDataIsData, CounterExists, Zenon
<1>2. count'[c] >= q
  BY Zenon DEF Enough
<1>3. mc = Cardinality(Filled) /\ mc \in Int
  BY DEF IInv, MemberCountExact, TypeOK
<1>4. count'[c] = w
  BY <1>1, Zenon DEF IInv, TallyExact
<1>5. N \in Nat
  <2>1. Voters(c)' \in SUBSET VoteKey
    BY <1>1, VotersCounted, Zenon
  <2> QED
    BY <2>1, VoteKeyFinite, FS_Subset, FS_CardinalityType, Zenon
<1>6. q \in Int
  <2>1. Q80(mc) \in Int /\ Q51(mc) \in Int
    BY <1>3, SMTT(30) DEF Q80, Q51, AtLeast2
  <2> QED
    BY <1>3, <2>1, Zenon DEF Threshold
<1>7. w <= N /\ w \in 0 .. 255
  BY <1>5, ByteBound, Zenon
<1> HIDE DEF N, q, w, c
<1>8. N >= q
  BY <1>2, <1>4, <1>5, <1>6, <1>7
<1> QED
  BY <1>3, <1>8, Zenon DEF N, q, c

\* Rounding down costs less than one vote: q80 and q51 of the hook are at least 2, and
\* one more vote exceeds the percentage they are the integer part of.
LEMMA RoundedDown ==
    ASSUME NEW m \in Nat, NEW votes \in Nat
    PROVE  /\ votes >= Q80(m) => votes >= 2 /\ 100 * (votes + 1) > 80 * m
           /\ votes >= Q51(m) => votes >= 2 /\ 100 * (votes + 1) > 51 * m
<1>1. /\ (m * 80) \div 100 \in Int /\ 80 * m < 100 * ((m * 80) \div 100 + 1)
      /\ (m * 51) \div 100 \in Int /\ 51 * m < 100 * ((m * 51) \div 100 + 1)
  BY SMTT(30)
<1>2. ASSUME NEW q \in Int, NEW p \in Int, p < 100 * (q + 1), votes >= AtLeast2(q)
      PROVE  votes >= 2 /\ 100 * (votes + 1) > p
  BY <1>2, SMTT(30) DEF AtLeast2
<1>3. 80 * m \in Int /\ 51 * m \in Int
  BY SMT
<1> QED
  BY <1>1, <1>2, <1>3, Zenon DEF Q80, Q51

\* The number of votes stored for a counter, and of filled seats, is a number.
LEMMA VotesCounted ==
    ASSUME IInv, NEW k \in VoteKey, NEW d \in TopicData(k[2])
    PROVE  /\ Cardinality(Filled) \in Nat
           /\ Cardinality(Voters(CounterOf(k, d))') \in Nat
<1>1. CounterOf(k, d) \in CountKey
  BY KeyParts, TopicDataIsData, CounterExists, Zenon
<1>2. Voters(CounterOf(k, d))' \in SUBSET VoteKey
  BY <1>1, VotersCounted, Zenon
<1>3. Cardinality(Voters(CounterOf(k, d))') \in Nat
  BY <1>2, VoteKeyFinite, FS_Subset, FS_CardinalityType, Zenon
<1>4. Cardinality(Filled) \in Nat
  BY TableAssumption DEF IInv, MemberCountExact, TypeOK
<1> QED
  BY <1>3, <1>4, Zenon

\* After the setup the seating only changes in a step that leaves at least two
\* stored votes for the new occupant, less than one short of 80 percent of the
\* filled seats, for a table of any size.
THEOREM SeatingQuorum == Spec => SeatingNeedsQuorum
<1> DEFINE Q == (mc # 0 /\ seat' # seat) =>
                  \E k \in VoteKey, d \in SeatData :
                     /\ k[2][1] = "S"
                     /\ seat'[k[2][2]] = IF d = Zero THEN Absent ELSE d
                     /\ WithinOneVote(Cardinality(Voters(CounterOf(k, d))'), 80)
<1>1. ASSUME IInv, [Next]_vars PROVE Q
  <2> SUFFICES ASSUME mc # 0, seat' # seat
               PROVE  \E k \in VoteKey, d \in SeatData :
                     /\ k[2][1] = "S"
                     /\ seat'[k[2][2]] = IF d = Zero THEN Absent ELSE d
                     /\ WithinOneVote(Cardinality(Voters(CounterOf(k, d))'), 80)
    BY Zenon
  <2>0. /\ ~Setup /\ ~UNCHANGED vars
        /\ \A v \in VoteKey : ~VoteAgain(v)
        /\ \A e \in emitted : ~SetHookApplied(e) /\ ~EmittedGone(e)
    BY Zenon DEF vars, Setup, VoteAgain, SetHookApplied, EmittedGone
  <2>0a. PICK k \in VoteKey : \E d \in TopicData(k[2]) : VoteStep(k, d)
    BY <1>1, <2>0, Zenon DEF Next
  <2>1. \E d \in TopicData(k[2]) : ActionSeat(k, d)
    BY <2>0a, Zenon DEF VoteStep, VoteRecorded, ActionReward, HookUnchanged, ActionHook,
                 SeatUnchanged
  <2>1a. PICK d \in TopicData(k[2]) : ActionSeat(k, d)
    BY <2>1, Zenon
  <2>2. k[2][1] = "S" /\ d \in SeatData /\ k[2][2] \in Seat
    BY <2>1a, KeyParts, TableAssumption, Zenon DEF ActionSeat, TopicData, ValidTopic
  <2>3. seat'[k[2][2]] = IF d = Zero THEN Absent ELSE d
    BY <2>1a, <2>2, Zenon DEF ActionSeat, SeatKeys
  <2>4. Enough(k, d) /\ count' = Tallied(k, d)
    BY <2>1a, Zenon DEF ActionSeat, Carried
  <2>5. Cardinality(Voters(CounterOf(k, d))') >= Threshold(k[2], k[3], Cardinality(Filled))
    BY <1>1, <2>4, NextIInv, VotesBehind, Zenon
  <2>6. Threshold(k[2], k[3], Cardinality(Filled)) = Q80(Cardinality(Filled))
    BY <2>1a, <2>2, Zenon DEF ActionSeat, Carried, Threshold
  <2>7. WithinOneVote(Cardinality(Voters(CounterOf(k, d))'), 80)
    BY <1>1, <2>5, <2>6, VotesCounted, RoundedDown, Zenon DEF WithinOneVote
  <2> QED
    BY <2>2, <2>3, <2>7, Zenon
<1>2. Spec => [][Q]_vars
  BY <1>1, IInvHolds, PTL DEF Spec
<1> QED
  BY <1>2, Zenon DEF SeatingNeedsQuorum

\* What the hook emits has the stored votes behind it, at a table of any size: one
\* per filled seat for a SetHook; for a vote on layer 1 at least two, less than one
\* short of 51 percent of the filled seats.
THEOREM EmissionQuorum == Spec => EmissionNeedsQuorum
<1> DEFINE Q == \A e \in emitted' \ emitted :
                  \E k \in VoteKey :
                     /\ k[2] = e.topic
                     /\ LET votes == Cardinality(Voters(CounterOf(k, e.data))')
                        IN  IF e.type = "SetHook" THEN votes >= Cardinality(Filled)
                            ELSE WithinOneVote(votes, 51)
<1>1. ASSUME IInv, [Next]_vars PROVE Q
  <2> SUFFICES ASSUME NEW e \in emitted' \ emitted
               PROVE  \E k \in VoteKey :
                         /\ k[2] = e.topic
                         /\ LET votes == Cardinality(Voters(CounterOf(k, e.data))')
                            IN  IF e.type = "SetHook" THEN votes >= Cardinality(Filled)
                                ELSE WithinOneVote(votes, 51)
    BY Zenon
  <2>1. /\ ~Setup /\ ~UNCHANGED vars
        /\ \A v \in VoteKey : ~VoteAgain(v)
        /\ \A x \in emitted : ~SetHookApplied(x) /\ ~EmittedGone(x)
    BY Zenon DEF vars, Setup, VoteAgain, SetHookApplied, EmittedGone
  <2>2. PICK k \in VoteKey : \E d \in TopicData(k[2]) : VoteStep(k, d)
    BY <1>1, <2>1, Zenon DEF Next
  <2>3. PICK d \in TopicData(k[2]) : VoteRecorded(k, d) \/ ActionHook(k, d)
    BY <2>2, Zenon DEF VoteStep, ActionReward, HookUnchanged, SeatUnchanged, ActionSeat
  <2>4. CASE VoteRecorded(k, d)
    <3>1. /\ e = [type |-> "Invoke", topic |-> k[2], data |-> d]
          /\ Enough(k, d) /\ ~Carried(k, d) /\ count' = Tallied(k, d)
      BY <2>4, Zenon DEF VoteRecorded, Cast
    <3>2. Cardinality(Voters(CounterOf(k, d))') >= Threshold(k[2], k[3], Cardinality(Filled))
      BY <1>1, <3>1, NextIInv, VotesBehind, Zenon
    <3>3. Threshold(k[2], k[3], Cardinality(Filled)) = Q51(Cardinality(Filled))
      BY <3>1, Zenon DEF Carried, Threshold
    <3>4. WithinOneVote(Cardinality(Voters(CounterOf(k, d))'), 51)
      BY <1>1, <3>2, <3>3, VotesCounted, RoundedDown, Zenon DEF WithinOneVote
    <3> QED
      BY <3>1, <3>4, Zenon
  <2>5. CASE ActionHook(k, d)
    <3>1. /\ e = [type |-> "SetHook", topic |-> k[2], data |-> d]
          /\ Enough(k, d) /\ Carried(k, d) /\ count' = Tallied(k, d) /\ k[2][1] = "H"
      BY <2>5, Zenon DEF ActionHook, Cast, Carried
    <3>2. Cardinality(Voters(CounterOf(k, d))') >= Threshold(k[2], k[3], Cardinality(Filled))
      BY <1>1, <3>1, NextIInv, VotesBehind, Zenon
    <3>3. Threshold(k[2], k[3], Cardinality(Filled)) = Cardinality(Filled)
      BY <3>1, Zenon DEF Carried, Threshold
    <3> QED
      BY <3>1, <3>2, <3>3, Zenon
  <2> QED
    BY <2>3, <2>4, <2>5, Zenon
<1>2. Spec => [][Q]_vars
  BY <1>1, IInvHolds, PTL DEF Spec
<1> QED
  BY <1>2, Zenon DEF EmissionNeedsQuorum
=============================================================================
